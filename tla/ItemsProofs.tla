---------------------------- MODULE ItemsProofs ----------------------------
(***************************************************************************)
(* Proofs about Items, for any players, items, codes and sharing: an item  *)
(* is in one place, none is stranded, the rows follow the lists, and no    *)
(* unit is made or lost.                                                   *)
(*                                                                         *)
(* What makes the first three inductive is Sound, which is about the store *)
(* alone and kept by each operator of it: a list and its items point to    *)
(* each other.  Of the store the sessions and the collector depend only on *)
(* which items have an owner and which have units.                         *)
(*                                                                         *)
(* Units and InRows add up counts by a fold.  The lemmas on sums say what  *)
(* one count more or less does to it; a set for which such a lemma fails   *)
(* would have a least subset for which it fails, and that one has none.    *)
(***************************************************************************)
EXTENDS Items, FiniteSetTheorems, WellFoundedInduction, TLAPS

StoreType == [list : [Inventory -> Seq(Item)],
              index : [Item -> Nat],
              owner : [Item -> Inventory \cup {None}],
              count : [Item -> Nat],
              row : [Item -> [of : Inventory, n : Nat] \cup {None}]]

\* Every item of a list knows which it is in and where, and every item that
\* has an owner is there.
Listing(s) ==
    /\ \A v \in Inventory : \A k \in 1..Len(s.list[v]) :
           s.owner[s.list[v][k]] = v /\ s.index[s.list[v][k]] = k
    /\ \A i \in Item : s.owner[i] # None =>
           /\ s.index[i] \in 1..Len(s.list[s.owner[i]])
           /\ s.list[s.owner[i]][s.index[i]] = i

\* An item has a row, and units, if it has an owner.
Told(s, i) ==
    /\ s.owner[i] = None => s.row[i] = None
    /\ s.owner[i] # None => /\ s.count[i] > 0
                            /\ s.row[i] # None
                            /\ s.row[i].of = s.owner[i]
                            /\ s.row[i].n > 0
                            /\ Stored(s.owner[i]) => s.row[i].n = s.count[i]
RowsTell(s) == \A i \in Item : Told(s, i)

\* An owner has one stack of a code that may be joined.
Apart(s) ==
    \A i, j \in Item :
        /\ s.owner[i] # None /\ s.owner[i] = s.owner[j]
        /\ IsJoinable(i) /\ KindOf[i] = KindOf[j]
        => i = j

Sound(s) == s \in StoreType /\ Listing(s) /\ RowsTell(s) /\ Apart(s)

\* Whoever has popped or won an item has it alone.
Held(i) == \E p \in Player : hand[p] = i /\ at[p] \in {"popped", "won"}
Hands ==
    /\ \A p \in Player : at[p] # "idle" => hand[p] \in Item
    /\ \A p \in Player : at[p] \in {"popped", "won"} =>
           /\ owner[hand[p]] = None
           /\ count[hand[p]] > 0
           /\ hand[p] \notin registered
    /\ \A p, q \in Player :
           /\ at[p] \in {"popped", "won"} /\ at[q] \in {"popped", "won"}
           /\ hand[p] = hand[q]
           => p = q

Ground == \A i \in registered : owner[i] = None /\ count[i] > 0

Types == /\ registered \subseteq Item
         /\ inWorld \subseteq Item
         /\ at \in [Player -> {"idle", "popped", "listed", "found", "won"}]
         /\ hand \in [Player -> Item \cup {None}]

\* The third part of NoneStranded, by owners.
Somewhere == \A i \in Item : count[i] > 0 => owner[i] # None \/ i \in registered \/ Held(i)
Visible == \A i \in registered :
               i \in inWorld \/ \E p \in Player : at[p] = "listed" /\ hand[p] = i

\* What a row may say, and what it said before.
Row == [of : Inventory, n : Nat \ {0}] \cup {None}
Older == late \in [Item -> SUBSET Row]

IInv == Sound(Store) /\ Older /\ Types /\ Hands /\ Ground /\ Somewhere /\ Visible

-----------------------------------------------------------------------------
(* Sums over finite sets *)

\* A set of finite sets has a least: what holds of a set whenever it holds of
\* its proper subsets holds of all.
Less == {m \in Nat \X Nat : m[1] < m[2]}

LEMMA SmallestSet ==
    ASSUME NEW S, IsFiniteSet(S), NEW T \in SUBSET (SUBSET S), T # {}
    PROVE  \E t \in T : \A s \in SUBSET t : s # t => s \notin T
<1> DEFINE sizes == {Cardinality(t) : t \in T}
<1>1. \A t \in T : IsFiniteSet(t) /\ Cardinality(t) \in Nat
  BY FS_Subset, FS_CardinalityType
<1>2. sizes \subseteq Nat /\ sizes # {}
  BY <1>1
<1>3. IsWellFoundedOn(Less, Nat)
  BY NatLessThanWellFounded, Zenon DEF OpToRel, Less
<1>4. PICK n \in sizes : \A m \in sizes : ~(<<m, n>> \in Less)
  <2> HIDE DEF sizes
  <2> QED
    BY ONLY <1>2, <1>3, WFMin, Zenon
<1>5. PICK t \in T : n = Cardinality(t)
  OBVIOUS
<1>6. ASSUME NEW s \in SUBSET t, s # t
      PROVE  s \notin T
  <2>1. Cardinality(s) <= Cardinality(t) /\ Cardinality(s) # Cardinality(t)
    BY <1>1, <1>6, FS_Subset
  <2>2. SUFFICES ASSUME s \in T PROVE FALSE
    OBVIOUS
  <2>3. Cardinality(s) \in sizes /\ Cardinality(s) \in Nat /\ Cardinality(t) \in Nat
    BY <1>1, <2>2
  <2>4. Cardinality(s) < n
    BY <1>5, <2>1, <2>3
  <2>5. <<Cardinality(s), n>> \in Less
    BY <1>5, <2>3, <2>4 DEF Less
  <2> QED
    BY <1>4, <2>3, <2>5
<1> QED
  BY <1>6

\* The function by which a sum over S is defined, and the sum.
One(s) == CHOOSE x \in s : TRUE
Adds(f, g, S) == g = [s \in SUBSET S |-> IF s = {} THEN 0 ELSE f[One(s)] + g[s \ {One(s)}]]
SumOf(f, S) == (CHOOSE g : Adds(f, g, S))[S]

LEMMA OneIn == ASSUME NEW s, s # {} PROVE One(s) \in s
BY DEF One

\* There is one such function, on the sets that two of them have in common ...
LEMMA AddsOnce ==
    ASSUME NEW f, NEW S, IsFiniteSet(S), NEW U, S \subseteq U,
           NEW g, Adds(f, g, S), NEW h, Adds(f, h, U)
    PROVE  \A s \in SUBSET S : g[s] = h[s]
<1> DEFINE T == {s \in SUBSET S : g[s] # h[s]}
<1> SUFFICES ASSUME T # {} PROVE FALSE
  OBVIOUS
<1>1. PICK t \in T : \A s \in SUBSET t : s # t => s \notin T
  <2>1. T \in SUBSET (SUBSET S)
    OBVIOUS
  <2> HIDE DEF T
  <2> QED
    BY <2>1, SmallestSet
<1>2. t \in SUBSET S /\ t \in SUBSET U /\ g[t] # h[t]
  OBVIOUS
<1>3. /\ g[t] = IF t = {} THEN 0 ELSE f[One(t)] + g[t \ {One(t)}]
      /\ h[t] = IF t = {} THEN 0 ELSE f[One(t)] + h[t \ {One(t)}]
  <2>1. PICK r : r = t
    OBVIOUS
  <2>2. g = [s \in SUBSET S |-> IF s = {} THEN 0 ELSE f[One(s)] + g[s \ {One(s)}]]
    BY Zenon DEF Adds
  <2>3. h = [s \in SUBSET U |-> IF s = {} THEN 0 ELSE f[One(s)] + h[s \ {One(s)}]]
    BY Zenon DEF Adds
  <2>4. g[t] = IF t = {} THEN 0 ELSE f[One(t)] + g[t \ {One(t)}]
    BY <1>2, <2>2, Zenon
  <2>5. h[t] = IF t = {} THEN 0 ELSE f[One(t)] + h[t \ {One(t)}]
    BY <1>2, <2>3, Zenon
  <2> QED
    BY <2>4, <2>5
<1>4. t # {}
  BY <1>2, <1>3
<1>5. One(t) \in t
  BY <1>4, OneIn
<1>6. t \ {One(t)} \in SUBSET t /\ t \ {One(t)} # t
  BY <1>5
<1>7. g[t \ {One(t)}] = h[t \ {One(t)}]
  BY <1>1, <1>2, <1>6
<1> QED
  BY <1>2, <1>3, <1>4, <1>7

\* ... and there is one at all.
LEMMA AddsExists ==
    ASSUME NEW f, NEW S, IsFiniteSet(S)
    PROVE  \E g : Adds(f, g, S)
<1> DEFINE T == {s \in SUBSET S : ~\E g : Adds(f, g, s)}
<1> SUFFICES ASSUME T # {} PROVE FALSE
  OBVIOUS
<1>1. PICK t \in T : \A s \in SUBSET t : s # t => s \notin T
  <2>1. T \in SUBSET (SUBSET S)
    OBVIOUS
  <2> HIDE DEF T
  <2> QED
    BY <2>1, SmallestSet
<1>2. \A s \in SUBSET t : IsFiniteSet(s)
  BY FS_Subset
<1> DEFINE k(s) == CHOOSE g : Adds(f, g, s)
<1>3. \A s \in SUBSET t : s # t => Adds(f, k(s), s)
  BY <1>1
<1> DEFINE G == [s \in SUBSET t |-> IF s = {} THEN 0 ELSE f[One(s)] + k(s \ {One(s)})[s \ {One(s)}]]
<1>4. ASSUME NEW s \in SUBSET t, s # {}
      PROVE  s \ {One(s)} \in SUBSET t /\ s \ {One(s)} # t /\ s \ {One(s)} \subseteq s
  BY <1>4, OneIn
<1>5. ASSUME NEW s \in SUBSET t, s # t
      PROVE  G[s] = k(s)[s]
  <2>1. Adds(f, k(s), s)
    BY <1>3, <1>5
  <2> HIDE DEF k
  <2>2. k(s)[s] = IF s = {} THEN 0 ELSE f[One(s)] + k(s)[s \ {One(s)}]
    <3>1. PICK g : g = k(s)
      OBVIOUS
    <3>2. g = [r \in SUBSET s |-> IF r = {} THEN 0 ELSE f[One(r)] + g[r \ {One(r)}]]
      BY <2>1, <3>1, Zenon DEF Adds
    <3>3. s \in SUBSET s
      OBVIOUS
    <3>4. g[s] = IF s = {} THEN 0 ELSE f[One(s)] + g[s \ {One(s)}]
      BY <3>2, <3>3, Zenon
    <3> QED
      BY <3>1, <3>4
  <2>3. CASE s = {}
    BY <2>2, <2>3
  <2>4. CASE s # {}
    <3>1. PICK r : r = s \ {One(s)}
      OBVIOUS
    <3>2. r \in SUBSET t /\ r # t /\ r \subseteq s /\ IsFiniteSet(r)
      BY <1>2, <1>4, <2>4, <3>1
    <3>3. Adds(f, k(r), r)
      BY <1>3, <3>2
    <3>4. k(r)[r] = k(s)[r]
      BY <2>1, <3>2, <3>3, AddsOnce
    <3>5. G[s] = f[One(s)] + k(r)[r]
      BY <2>4, <3>1
    <3> QED
      BY <2>2, <2>4, <3>1, <3>4, <3>5
  <2> QED
    BY <2>3, <2>4
<1>6. \A s \in SUBSET t : s # {} => G[s \ {One(s)}] = k(s \ {One(s)})[s \ {One(s)}]
  <2> HIDE DEF G, k
  <2> QED
    BY <1>4, <1>5
<1>7. Adds(f, G, t)
  <2> HIDE DEF k
  <2>1. PICK g : g = G
    OBVIOUS
  <2>2. \A s \in SUBSET t : s # {} => g[s \ {One(s)}] = k(s \ {One(s)})[s \ {One(s)}]
    BY <1>6, <2>1
  <2>3. g = [s \in SUBSET t |-> IF s = {} THEN 0 ELSE f[One(s)] + g[s \ {One(s)}]]
    <3> SUFFICES ASSUME NEW s \in SUBSET t
                 PROVE  (IF s = {} THEN 0 ELSE f[One(s)] + k(s \ {One(s)})[s \ {One(s)}])
                         = IF s = {} THEN 0 ELSE f[One(s)] + g[s \ {One(s)}]
      BY <2>1
    <3> QED
      BY <2>2
  <2> QED
    BY <2>1, <2>3 DEF Adds
<1> QED
  BY <1>7

LEMMA SumSolves ==
    ASSUME NEW f, NEW S, IsFiniteSet(S)
    PROVE  /\ S = {} => SumOf(f, S) = 0
           /\ S # {} => SumOf(f, S) = f[One(S)] + SumOf(f, S \ {One(S)})
<1>1. PICK g : g = CHOOSE h : Adds(f, h, S)
  OBVIOUS
<1>2. Adds(f, g, S)
  BY <1>1, AddsExists
<1>3. PICK U : U = S \ {One(S)}
  OBVIOUS
<1>4. IsFiniteSet(U) /\ U \subseteq S
  BY <1>3, FS_Subset
<1>5. PICK h : h = CHOOSE k : Adds(f, k, U)
  OBVIOUS
<1>6. Adds(f, h, U)
  BY <1>4, <1>5, AddsExists
<1>7. h[U] = g[U]
  BY <1>2, <1>4, <1>6, AddsOnce
<1>8. g[S] = IF S = {} THEN 0 ELSE f[One(S)] + g[U]
  <2>1. g = [s \in SUBSET S |-> IF s = {} THEN 0 ELSE f[One(s)] + g[s \ {One(s)}]]
    BY <1>2, Zenon DEF Adds
  <2>2. S \in SUBSET S
    OBVIOUS
  <2>3. g[S] = IF S = {} THEN 0 ELSE f[One(S)] + g[S \ {One(S)}]
    BY <2>1, <2>2, Zenon
  <2> QED
    BY <1>3, <2>3
<1>9. SumOf(f, S) = g[S] /\ SumOf(f, U) = h[U]
  BY <1>1, <1>5 DEF SumOf
<1> QED
  BY <1>3, <1>7, <1>8, <1>9

LEMMA SumNat ==
    ASSUME NEW f, NEW S, IsFiniteSet(S), \A x \in S : f[x] \in Nat
    PROVE  SumOf(f, S) \in Nat
<1> DEFINE T == {s \in SUBSET S : SumOf(f, s) \notin Nat}
<1> SUFFICES ASSUME T # {} PROVE FALSE
  OBVIOUS
<1>1. PICK t \in T : \A s \in SUBSET t : s # t => s \notin T
  <2>1. T \in SUBSET (SUBSET S)
    OBVIOUS
  <2> HIDE DEF T
  <2> QED
    BY <2>1, SmallestSet
<1>2. IsFiniteSet(t) /\ t \subseteq S
  BY FS_Subset
<1>3. t # {}
  <2>1. t = {} => SumOf(f, t) = 0
    BY <1>2, SumSolves
  <2>2. SumOf(f, t) \notin Nat
    OBVIOUS
  <2> QED
    BY <2>1, <2>2
<1>4. One(t) \in t
  BY <1>3, OneIn
<1>5. t \ {One(t)} \in SUBSET t /\ t \ {One(t)} # t /\ t \ {One(t)} \subseteq S
  BY <1>2, <1>4
<1>6. SumOf(f, t \ {One(t)}) \in Nat
  BY <1>1, <1>5
<1>7. SumOf(f, t) = f[One(t)] + SumOf(f, t \ {One(t)}) /\ f[One(t)] \in Nat
  BY <1>2, <1>3, <1>4, SumSolves
<1> QED
  BY <1>6, <1>7

\* Whichever member is added last.
LEMMA SumTakes ==
    ASSUME NEW f, NEW S, IsFiniteSet(S), \A x \in S : f[x] \in Nat, NEW x \in S
    PROVE  SumOf(f, S) = f[x] + SumOf(f, S \ {x})
<1> DEFINE T == {s \in SUBSET S : \E y \in s : SumOf(f, s) # f[y] + SumOf(f, s \ {y})}
<1> SUFFICES ASSUME T # {} PROVE FALSE
  OBVIOUS
<1>1. PICK t \in T : \A s \in SUBSET t : s # t => s \notin T
  <2>1. T \in SUBSET (SUBSET S)
    OBVIOUS
  <2> HIDE DEF T
  <2> QED
    BY <2>1, SmallestSet
<1>2. PICK y \in t : SumOf(f, t) # f[y] + SumOf(f, t \ {y})
  OBVIOUS
<1>3. PICK z : z = One(t)
  OBVIOUS
<1>4. z \in t /\ t \subseteq S /\ y \in t
  BY <1>3, OneIn
<1>5. SumOf(f, t) = f[z] + SumOf(f, t \ {z})
  BY <1>3, <1>4, FS_Subset, SumSolves
<1>6. z # y
  BY <1>2, <1>5
<1>7. /\ \A s \in SUBSET t : s # t => \A w \in s : SumOf(f, s) = f[w] + SumOf(f, s \ {w})
  BY <1>1, <1>4
<1>8. PICK A, B, C : A = t \ {z} /\ B = t \ {y} /\ C = t \ {y, z}
  OBVIOUS
<1>9. /\ A \in SUBSET t /\ A # t /\ y \in A /\ A \ {y} = C
      /\ B \in SUBSET t /\ B # t /\ z \in B /\ B \ {z} = C
  BY <1>4, <1>6, <1>8
<1>10. SumOf(f, A) = f[y] + SumOf(f, C) /\ SumOf(f, B) = f[z] + SumOf(f, C)
  BY <1>7, <1>9
<1>11. f[y] \in Nat /\ f[z] \in Nat /\ SumOf(f, C) \in Nat
  <2>1. C \subseteq S /\ IsFiniteSet(C)
    BY <1>4, <1>8, FS_Subset
  <2>2. \A c \in C : f[c] \in Nat
    BY <2>1
  <2>3. SumOf(f, C) \in Nat
    BY <2>1, <2>2, SumNat
  <2> QED
    BY <1>4, <2>3
<1> QED
  BY <1>2, <1>5, <1>8, <1>10, <1>11

\* What is not in R adds nothing.
LEMMA SumSame ==
    ASSUME NEW f, NEW g, NEW S, IsFiniteSet(S), NEW R \in SUBSET S,
           \A x \in S : f[x] \in Nat /\ g[x] \in Nat,
           \A x \in R : f[x] = g[x], \A x \in S \ R : g[x] = 0
    PROVE  SumOf(g, S) = SumOf(f, R)
<1> DEFINE T == {s \in SUBSET S : SumOf(g, s) # SumOf(f, s \cap R)}
<1> SUFFICES ASSUME T # {} PROVE FALSE
  <2>1. S \in SUBSET S /\ S \cap R = R
    OBVIOUS
  <2> QED
    BY <2>1
<1>1. PICK t \in T : \A s \in SUBSET t : s # t => s \notin T
  <2>1. T \in SUBSET (SUBSET S)
    OBVIOUS
  <2> HIDE DEF T
  <2> QED
    BY <2>1, SmallestSet
<1>2. t \subseteq S /\ IsFiniteSet(t) /\ IsFiniteSet(t \cap R) /\ SumOf(g, t) # SumOf(f, t \cap R)
  BY FS_Subset
<1>3. t # {}
  <2>1. t = {} => t \cap R = {}
    OBVIOUS
  <2> QED
    BY <1>2, <2>1, SumSolves
<1>4. PICK x : x \in t
  BY <1>3
<1>5. t \ {x} \in SUBSET t /\ t \ {x} # t /\ t \ {x} \subseteq S
  BY <1>2, <1>4
<1>6. SumOf(g, t \ {x}) = SumOf(f, (t \ {x}) \cap R)
  BY <1>1, <1>5
<1>7. SumOf(g, t) = g[x] + SumOf(g, t \ {x})
  <2>1. \A y \in t : g[y] \in Nat
    BY <1>2
  <2> QED
    BY <1>2, <1>4, <2>1, SumTakes
<1>8. SumOf(g, t \ {x}) \in Nat
  <2>1. IsFiniteSet(t \ {x}) /\ \A y \in t \ {x} : g[y] \in Nat
    BY <1>2, FS_Subset
  <2> QED
    BY <2>1, SumNat
<1>9. CASE x \in R
  <2>1. (t \ {x}) \cap R = (t \cap R) \ {x} /\ x \in t \cap R
    BY <1>4, <1>9
  <2>2. \A y \in t \cap R : f[y] \in Nat
    BY <1>2
  <2>3. SumOf(f, t \cap R) = f[x] + SumOf(f, (t \cap R) \ {x})
    BY <1>2, <2>1, <2>2, SumTakes
  <2> QED
    BY <1>2, <1>6, <1>7, <1>9, <2>1, <2>3
<1>10. CASE x \notin R
  <2>1. (t \ {x}) \cap R = t \cap R /\ g[x] = 0
    BY <1>2, <1>4, <1>10
  <2>2. SumOf(g, t) = SumOf(g, t \ {x})
    BY <1>7, <1>8, <2>1
  <2> QED
    BY <1>2, <1>6, <2>1, <2>2
<1> QED
  BY <1>9, <1>10

\* The units of a code, as Units and InRows add them up.
Tally(f, k) == SumOf(f, {i \in Item : KindOf[i] = k})

LEMMA UnitsAre == \A k : Units(k) = Tally(count, k)
BY Zenon DEF Units, Tally, SumOf, Adds, One, MapThenSumSet, MapThenFoldSet

LEMMA TallyNat == ASSUME NEW f \in [Item -> Nat], NEW k PROVE Tally(f, k) \in Nat
<1>1. PICK S : S = {i \in Item : KindOf[i] = k}
  OBVIOUS
<1>2. IsFiniteSet(S) /\ \A i \in S : f[i] \in Nat
  BY <1>1, ItemAssumption, FS_Subset
<1> QED
  BY <1>1, <1>2, SumNat DEF Tally

\* The counts of one item change the sum of its code.
OnlyAt(f, g, i) == /\ f \in [Item -> Nat] /\ g \in [Item -> Nat] /\ i \in Item
                   /\ \A j \in Item \ {i} : g[j] = f[j]

LEMMA OneChanges ==
    ASSUME NEW f, NEW g, NEW i, OnlyAt(f, g, i)
    PROVE  \A k : Tally(g, k) = IF KindOf[i] = k THEN Tally(f, k) - f[i] + g[i] ELSE Tally(f, k)
<1> SUFFICES ASSUME NEW k
             PROVE  Tally(g, k) = IF KindOf[i] = k THEN Tally(f, k) - f[i] + g[i] ELSE Tally(f, k)
  OBVIOUS
<1>1. PICK S : S = {j \in Item : KindOf[j] = k}
  OBVIOUS
<1>2. IsFiniteSet(S) /\ S \subseteq Item /\ IsFiniteSet(S \ {i})
  BY <1>1, ItemAssumption, FS_Subset
<1>3. /\ f \in [Item -> Nat] /\ g \in [Item -> Nat] /\ i \in Item
      /\ \A j \in Item \ {i} : g[j] = f[j]
  BY DEF OnlyAt
<1>4. /\ \A j \in S : f[j] \in Nat /\ g[j] \in Nat
      /\ \A j \in S \ {i} : f[j] \in Nat /\ g[j] \in Nat /\ g[j] = f[j]
  BY <1>2, <1>3
<1>5. SumOf(g, S \ {i}) = SumOf(f, S \ {i})
  <2>1. PICK U : U = S \ {i}
    OBVIOUS
  <2>2. \A j \in U : f[j] \in Nat /\ g[j] \in Nat /\ f[j] = g[j]
    BY <1>4, <2>1
  <2>3. IsFiniteSet(U) /\ U \in SUBSET U /\ U \ U = {}
    BY <1>2, <2>1
  <2> QED
    BY <2>1, <2>2, <2>3, SumSame
<1>6. SumOf(f, S \ {i}) \in Nat
  BY <1>2, <1>4, SumNat
<1>7. CASE KindOf[i] = k
  <2>1. i \in S
    BY <1>1, <1>3, <1>7
  <2>2. SumOf(g, S) = g[i] + SumOf(g, S \ {i})
    BY <1>2, <1>4, <2>1, SumTakes
  <2>3. SumOf(f, S) = f[i] + SumOf(f, S \ {i})
    BY <1>2, <1>4, <2>1, SumTakes
  <2>4. g[i] \in Nat /\ f[i] \in Nat
    BY <1>3
  <2> QED
    BY <1>1, <1>5, <1>6, <1>7, <2>2, <2>3, <2>4 DEF Tally
<1>8. CASE KindOf[i] # k
  <2>1. S \ {i} = S
    BY <1>1, <1>8
  <2> QED
    BY <1>1, <1>5, <1>8, <2>1 DEF Tally
<1> QED
  BY <1>7, <1>8

\* What UnitsOf adds up.
LEMMA RowsAdd ==
    ASSUME NEW rows, NEW R, IsFiniteSet(R), NEW f, \A i \in R : f[i] = rows[i].n
    PROVE  UnitsOf(rows, R) = SumOf(f, R)
<1> DEFINE Eqn(h) == h = [s \in SUBSET R |-> IF s = {} THEN 0
                                   ELSE rows[CHOOSE i \in s : TRUE].n + h[s \ {CHOOSE i \in s : TRUE}]]
<1>1. PICK h : h = CHOOSE e : Eqn(e)
  OBVIOUS
<1>2. UnitsOf(rows, R) = h[R]
  BY <1>1, Zenon DEF UnitsOf, MapThenSumSet, MapThenFoldSet
<1>3. ASSUME NEW e
      PROVE  Eqn(e) <=> Adds(f, e, R)
  <2>1. \A s \in SUBSET R : s # {} => f[One(s)] = rows[CHOOSE i \in s : TRUE].n
    BY OneIn DEF One
  <2>2. \A s \in SUBSET R : (IF s = {} THEN 0 ELSE rows[CHOOSE i \in s : TRUE].n + e[s \ {CHOOSE i \in s : TRUE}])
                            = IF s = {} THEN 0 ELSE f[One(s)] + e[s \ {One(s)}]
    BY <2>1 DEF One
  <2>3. [s \in SUBSET R |-> IF s = {} THEN 0 ELSE rows[CHOOSE i \in s : TRUE].n + e[s \ {CHOOSE i \in s : TRUE}]]
         = [s \in SUBSET R |-> IF s = {} THEN 0 ELSE f[One(s)] + e[s \ {One(s)}]]
    BY <2>2
  <2>4. Adds(f, e, R) <=> e = [s \in SUBSET R |-> IF s = {} THEN 0 ELSE f[One(s)] + e[s \ {One(s)}]]
    BY ONLY Zenon DEF Adds
  <2>5. Eqn(e) <=> e = [s \in SUBSET R |-> IF s = {} THEN 0
                                   ELSE rows[CHOOSE i \in s : TRUE].n + e[s \ {CHOOSE i \in s : TRUE}]]
    OBVIOUS
  <2> HIDE DEF Eqn
  <2> QED
    BY ONLY <2>3, <2>4, <2>5
<1>4. Adds(f, h, R)
  <2>1. \E e : Eqn(e)
    <3>1. PICK e : Adds(f, e, R)
      BY AddsExists
    <3> HIDE DEF Eqn
    <3> QED
      BY <1>3, <3>1
  <2>2. Eqn(h)
    <3> HIDE DEF Eqn
    <3> QED
      BY <1>1, <2>1
  <2> QED
    BY <1>3, <2>2
<1>5. PICK e : e = CHOOSE d : Adds(f, d, R)
  OBVIOUS
<1>6. Adds(f, e, R)
  BY <1>4, <1>5
<1>7. e[R] = h[R]
  BY <1>4, <1>6, AddsOnce
<1> QED
  BY <1>2, <1>5, <1>7 DEF SumOf

\* The sum over two sets that have nothing in common.
LEMMA SumBoth ==
    ASSUME NEW f, NEW A, NEW B, IsFiniteSet(A), IsFiniteSet(B), A \cap B = {},
           \A x \in A \cup B : f[x] \in Nat
    PROVE  SumOf(f, A \cup B) = SumOf(f, A) + SumOf(f, B)
<1> DEFINE T == {s \in SUBSET B : SumOf(f, A \cup s) # SumOf(f, A) + SumOf(f, s)}
<1> SUFFICES ASSUME T # {} PROVE FALSE
  OBVIOUS
<1>1. PICK t \in T : \A s \in SUBSET t : s # t => s \notin T
  <2>1. T \in SUBSET (SUBSET B)
    OBVIOUS
  <2> HIDE DEF T
  <2> QED
    BY <2>1, SmallestSet
<1>2. /\ t \subseteq B /\ IsFiniteSet(t) /\ IsFiniteSet(A \cup t)
      /\ SumOf(f, A \cup t) # SumOf(f, A) + SumOf(f, t)
  BY FS_Subset, FS_Union
<1>3. SumOf(f, A) \in Nat
  BY SumNat
<1>4. t # {}
  <2>1. t = {} => A \cup t = A /\ SumOf(f, t) = 0
    BY <1>2, SumSolves
  <2> QED
    BY <1>2, <1>3, <2>1
<1>5. PICK x : x \in t
  BY <1>4
<1>6. PICK u : u = t \ {x}
  OBVIOUS
<1>7. /\ u \in SUBSET t /\ u # t /\ u \subseteq B /\ x \in A \cup t
      /\ (A \cup t) \ {x} = A \cup u
  BY <1>2, <1>5, <1>6
<1>8. SumOf(f, A \cup u) = SumOf(f, A) + SumOf(f, u)
  BY <1>1, <1>7
<1>9. SumOf(f, t) = f[x] + SumOf(f, u)
  <2>1. \A y \in t : f[y] \in Nat
    BY <1>2
  <2> QED
    BY <1>2, <1>5, <1>6, <2>1, SumTakes
<1>10. SumOf(f, A \cup t) = f[x] + SumOf(f, A \cup u)
  <2>1. PICK V : V = A \cup t
    OBVIOUS
  <2>2. IsFiniteSet(V) /\ x \in V /\ \A y \in V : f[y] \in Nat
    BY <1>2, <1>7, <2>1
  <2>3. SumOf(f, V) = f[x] + SumOf(f, V \ {x})
    BY <2>2, SumTakes
  <2> QED
    BY <1>7, <2>1, <2>3
<1>11. SumOf(f, u) \in Nat /\ f[x] \in Nat
  <2>1. IsFiniteSet(u) /\ \A y \in u : f[y] \in Nat
    BY <1>2, <1>7, FS_Subset
  <2> QED
    BY <1>2, <1>5, <2>1, SumNat
<1> QED
  BY <1>2, <1>3, <1>8, <1>9, <1>10, <1>11

\* Sums over the parts of a set add up to the sum over it.
LEMMA SumParts ==
    ASSUME NEW f, NEW g, NEW K, IsFiniteSet(K), NEW R, IsFiniteSet(R),
           \A x \in R : f[x] \in Nat, NEW part \in [K -> SUBSET R],
           \A i, j \in K : i # j => part[i] \cap part[j] = {},
           \A i \in K : g[i] = SumOf(f, part[i])
    PROVE  SumOf(g, K) = SumOf(f, UNION {part[i] : i \in K})
<1> DEFINE T == {s \in SUBSET K : SumOf(g, s) # SumOf(f, UNION {part[i] : i \in s})}
<1> SUFFICES ASSUME T # {} PROVE FALSE
  OBVIOUS
<1>1. PICK t \in T : \A s \in SUBSET t : s # t => s \notin T
  <2>1. T \in SUBSET (SUBSET K)
    OBVIOUS
  <2> HIDE DEF T
  <2> QED
    BY <2>1, SmallestSet
<1>2. /\ t \subseteq K /\ IsFiniteSet(t)
      /\ SumOf(g, t) # SumOf(f, UNION {part[i] : i \in t})
  BY FS_Subset
<1>3. \A i \in K : /\ part[i] \subseteq R /\ IsFiniteSet(part[i])
                   /\ \A x \in part[i] : f[x] \in Nat
  BY FS_Subset
<1>4. \A i \in K : g[i] \in Nat
  <2>1. ASSUME NEW i \in K
        PROVE  SumOf(f, part[i]) \in Nat
    BY <1>3, SumNat
  <2> QED
    BY <2>1
<1>5. t # {}
  <2>1. ASSUME t = {}
        PROVE  FALSE
    <3>1. UNION {part[i] : i \in t} = {}
      BY <2>1
    <3>2. SumOf(g, t) = 0 /\ SumOf(f, {}) = 0
      BY <2>1, FS_EmptySet, SumSolves
    <3> QED
      BY <1>2, <3>1, <3>2
  <2> QED
    BY <2>1
<1>6. PICK x : x \in t
  BY <1>5
<1>7. PICK u : u = t \ {x}
  OBVIOUS
<1>8. u \in SUBSET t /\ u # t /\ u \subseteq K
  BY <1>2, <1>6, <1>7
<1>9. PICK A, B : A = part[x] /\ B = UNION {part[i] : i \in u}
  OBVIOUS
<1>10. SumOf(g, u) = SumOf(f, B)
  BY <1>1, <1>8, <1>9
<1>11. UNION {part[i] : i \in t} = A \cup B
  BY <1>6, <1>7, <1>9
<1>12. A \cap B = {} /\ IsFiniteSet(A) /\ IsFiniteSet(B) /\ \A y \in A \cup B : f[y] \in Nat
  <2>1. A \cap B = {}
    BY <1>2, <1>6, <1>7, <1>9
  <2>2. A \subseteq R /\ B \subseteq R
    BY <1>2, <1>3, <1>6, <1>8, <1>9
  <2> QED
    BY <2>1, <2>2, FS_Subset
<1>13. SumOf(f, A \cup B) = SumOf(f, A) + SumOf(f, B)
  BY <1>12, SumBoth
<1>14. SumOf(g, t) = g[x] + SumOf(g, u)
  <2>1. \A y \in t : g[y] \in Nat
    BY <1>2, <1>4
  <2> QED
    BY <1>2, <1>6, <1>7, <2>1, SumTakes
<1>15. g[x] = SumOf(f, A)
  BY <1>2, <1>6, <1>9
<1> QED
  BY <1>2, <1>10, <1>11, <1>13, <1>14, <1>15

-----------------------------------------------------------------------------
(* The operators on the store *)

LEMMA NoneApart == None \notin Item /\ None \notin Inventory /\ None \notin [of : Inventory, n : Nat]
BY ItemAssumption DEF Inventory

\* A row of an item is written: it says what the item does.
LEMMA Rewritten ==
    ASSUME NEW s, Sound(s), NEW i \in Item
    PROVE  /\ Sound(DBUpdate(s, i))
           /\ DBUpdate(s, i).owner = s.owner
           /\ DBUpdate(s, i).count = s.count
<1> PICK t : t = DBUpdate(s, i)
  OBVIOUS
<1>1. /\ t.list = s.list /\ t.index = s.index /\ t.owner = s.owner /\ t.count = s.count
      /\ t.row = [s.row EXCEPT ![i] = IF s.owner[i] = None THEN None
                                      ELSE [of |-> s.owner[i], n |-> s.count[i]]]
      /\ t = [list |-> t.list, index |-> t.index, owner |-> t.owner,
              count |-> t.count, row |-> t.row]
  BY DEF DBUpdate, Sound, StoreType
<1>2. s.owner[i] # None => [of |-> s.owner[i], n |-> s.count[i]] \in [of : Inventory, n : Nat]
  BY DEF Sound, StoreType
<1>3. t \in StoreType
  BY <1>1, <1>2 DEF Sound, StoreType
<1>4. RowsTell(t)
  BY <1>1, <1>2, NoneApart DEF Sound, StoreType, RowsTell, Told
<1>5. Listing(t) /\ Apart(t)
  BY <1>1 DEF Sound, Listing, Apart
<1> QED
  BY <1>1, <1>3, <1>4, <1>5 DEF Sound

\* An item without owner may have any number of units.
LEMMA Loose ==
    ASSUME NEW s, Sound(s), NEW i \in Item, s.owner[i] = None, NEW n \in Nat
    PROVE  /\ Sound([s EXCEPT !.count[i] = n])
           /\ [s EXCEPT !.count[i] = n].owner = s.owner
           /\ [s EXCEPT !.count[i] = n].count = [s.count EXCEPT ![i] = n]
<1> PICK t : t = [s EXCEPT !.count[i] = n]
  OBVIOUS
<1>1. /\ t.list = s.list /\ t.index = s.index /\ t.owner = s.owner /\ t.row = s.row
      /\ t.count = [s.count EXCEPT ![i] = n]
      /\ t = [list |-> t.list, index |-> t.index, owner |-> t.owner,
              count |-> t.count, row |-> t.row]
  BY DEF Sound, StoreType
<1>2. t \in StoreType
  BY <1>1 DEF Sound, StoreType
<1>3. RowsTell(t)
  BY <1>1 DEF Sound, StoreType, RowsTell, Told
<1>4. Listing(t) /\ Apart(t)
  BY <1>1 DEF Sound, Listing, Apart
<1> QED
  BY <1>1, <1>2, <1>3, <1>4 DEF Sound

LEMMA GivenUp ==
    ASSUME NEW s, Sound(s), NEW i \in Item, s.owner[i] = None
    PROVE  /\ Sound(GiveUp(s, i))
           /\ GiveUp(s, i).owner = s.owner
           /\ GiveUp(s, i).count = [s.count EXCEPT ![i] = 0]
<1>1. GiveUp(s, i) = [s EXCEPT !.count[i] = 0] /\ 0 \in Nat
  BY DEF GiveUp
<1> PICK z : z = 0
  OBVIOUS
<1>2. z \in Nat
  OBVIOUS
<1>3. /\ Sound([s EXCEPT !.count[i] = z])
      /\ [s EXCEPT !.count[i] = z].owner = s.owner
      /\ [s EXCEPT !.count[i] = z].count = [s.count EXCEPT ![i] = z]
  BY <1>2, Loose
<1> QED
  BY <1>1, <1>3

\* Inventory::setCount keeps an item where it is.
LEMMA Recounted ==
    ASSUME NEW s, Sound(s), NEW v \in Inventory, NEW i \in Item, s.owner[i] = v,
           NEW n \in Nat \ {0}
    PROVE  /\ Sound(SetCount(s, v, i, n))
           /\ SetCount(s, v, i, n).owner = s.owner
           /\ SetCount(s, v, i, n).count = [s.count EXCEPT ![i] = n]
<1> PICK t : t = SetCount(s, v, i, n)
  OBVIOUS
<1>0. s.owner[i] # None
  BY NoneApart
<1>1. /\ t.list = s.list /\ t.index = s.index /\ t.owner = s.owner
      /\ t.count = [s.count EXCEPT ![i] = n]
      /\ t.row = IF Stored(v) THEN [s.row EXCEPT ![i] = [of |-> v, n |-> n]] ELSE s.row
      /\ t = [list |-> t.list, index |-> t.index, owner |-> t.owner,
              count |-> t.count, row |-> t.row]
  BY <1>0 DEF SetCount, DBUpdate, Sound, StoreType
<1>2. [of |-> v, n |-> n] \in [of : Inventory, n : Nat]
  OBVIOUS
<1>3. t \in StoreType
  <2>1. t.row \in [Item -> [of : Inventory, n : Nat] \cup {None}]
    BY <1>1, <1>2 DEF Sound, StoreType
  <2>2. t.count \in [Item -> Nat]
    BY <1>1 DEF Sound, StoreType
  <2> QED
    BY <1>1, <2>1, <2>2 DEF Sound, StoreType
<1>4. RowsTell(t)
  BY <1>0, <1>1, <1>2, NoneApart DEF Sound, StoreType, RowsTell, Told
<1>5. Listing(t) /\ Apart(t)
  BY <1>1 DEF Sound, Listing, Apart
<1> QED
  BY <1>1, <1>3, <1>4, <1>5 DEF Sound

\* Inventory::push puts an item without owner at the end of the list.
LEMMA PushedEnd ==
    ASSUME NEW s, Sound(s), NEW v \in Inventory, NEW i \in Item,
           s.owner[i] = None, s.count[i] > 0,
           IsJoinable(i) => \A j \in Item : s.owner[j] = v => KindOf[j] # KindOf[i]
    PROVE  /\ Sound(push(s, v, i))
           /\ push(s, v, i).owner = [s.owner EXCEPT ![i] = v]
           /\ push(s, v, i).count = s.count
<1> PICK t : t = push(s, v, i)
  OBVIOUS
<1> DEFINE L == s.list[v]
<1>0. /\ s.list \in [Inventory -> Seq(Item)] /\ L \in Seq(Item) /\ Len(L) \in Nat
      /\ s.index \in [Item -> Nat] /\ s.owner \in [Item -> Inventory \cup {None}]
      /\ s.count \in [Item -> Nat]
      /\ s.row \in [Item -> [of : Inventory, n : Nat] \cup {None}]
      /\ v # None
  BY NoneApart DEF Sound, StoreType
<1>1. /\ t.list = [s.list EXCEPT ![v] = Append(L, i)]
      /\ t.index = [s.index EXCEPT ![i] = Len(L) + 1]
      /\ t.owner = [s.owner EXCEPT ![i] = v]
      /\ t.count = s.count
      /\ t.row = [s.row EXCEPT ![i] = [of |-> v, n |-> s.count[i]]]
      /\ t = [list |-> t.list, index |-> t.index, owner |-> t.owner,
              count |-> t.count, row |-> t.row]
  BY <1>0 DEF push, DBUpdate, Sound, StoreType
<1>2. [of |-> v, n |-> s.count[i]] \in [of : Inventory, n : Nat]
  BY <1>0
<1>3. t \in StoreType
  <2>1. t.row \in [Item -> [of : Inventory, n : Nat] \cup {None}]
    BY <1>0, <1>1, <1>2
  <2>2. t.list \in [Inventory -> Seq(Item)] /\ t.index \in [Item -> Nat]
    BY <1>0, <1>1
  <2>3. t.owner \in [Item -> Inventory \cup {None}] /\ t.count \in [Item -> Nat]
    BY <1>0, <1>1
  <2> QED
    BY <1>1, <2>1, <2>2, <2>3 DEF StoreType
<1>4. RowsTell(t)
  BY <1>0, <1>1, <1>2, NoneApart DEF Sound, RowsTell, Told
<1>5. Apart(t)
  BY <1>0, <1>1 DEF Sound, Apart, IsJoinable
<1>6. Listing(t)
  <2>0. /\ t.list[v] = Append(L, i) /\ Len(t.list[v]) = Len(L) + 1 /\ t.list[v][Len(L) + 1] = i
        /\ \A k \in 1..Len(L) : t.list[v][k] = L[k]
        /\ \A w \in Inventory : w # v => t.list[w] = s.list[w]
        /\ \A j \in Item : j # i => t.owner[j] = s.owner[j] /\ t.index[j] = s.index[j]
        /\ t.owner[i] = v /\ t.index[i] = Len(L) + 1
    BY <1>0, <1>1
  <2>1. ASSUME NEW w \in Inventory, NEW k \in 1..Len(t.list[w])
        PROVE  t.owner[t.list[w][k]] = w /\ t.index[t.list[w][k]] = k
    <3>1. CASE w = v /\ k = Len(L) + 1
      BY <2>0, <3>1
    <3>2. CASE ~(w = v /\ k = Len(L) + 1)
      <4>1. k \in 1..Len(s.list[w]) /\ t.list[w][k] = s.list[w][k]
        <5>1. CASE w = v
          <6>1. k \in 1..Len(L)
            BY <1>0, <2>0, <2>1, <3>2, <5>1
          <6> QED
            BY <2>0, <5>1, <6>1
        <5>2. CASE w # v
          BY <2>0, <2>1, <5>2
        <5> QED
          BY <5>1, <5>2
      <4>2. s.owner[s.list[w][k]] = w /\ s.index[s.list[w][k]] = k
        BY <2>1, <4>1 DEF Sound, Listing
      <4>3. s.list[w][k] \in Item
        BY <1>0, <4>1
      <4>4. s.list[w][k] # i
        BY <4>2, NoneApart
      <4> QED
        BY <2>0, <4>1, <4>2, <4>3, <4>4
    <3> QED
      BY <3>1, <3>2
  <2>2. ASSUME NEW j \in Item, t.owner[j] # None
        PROVE  /\ t.index[j] \in 1..Len(t.list[t.owner[j]])
               /\ t.list[t.owner[j]][t.index[j]] = j
    <3>1. CASE j = i
      BY <1>0, <2>0, <3>1
    <3>2. CASE j # i
      <4>1. t.owner[j] = s.owner[j] /\ t.index[j] = s.index[j] /\ s.owner[j] \in Inventory
        BY <1>0, <2>0, <2>2, <3>2
      <4>2. s.index[j] \in 1..Len(s.list[s.owner[j]]) /\ s.list[s.owner[j]][s.index[j]] = j
        BY <2>2, <4>1 DEF Sound, Listing
      <4>3. CASE s.owner[j] = v
        BY <1>0, <2>0, <4>1, <4>2, <4>3
      <4>4. CASE s.owner[j] # v
        BY <2>0, <4>1, <4>2, <4>4
      <4> QED
        BY <4>3, <4>4
    <3> QED
      BY <3>1, <3>2
  <2> QED
    BY <2>1, <2>2 DEF Listing
<1> QED
  BY <1>1, <1>3, <1>4, <1>5, <1>6 DEF Sound

\* Inventory::pop takes an item out, and the last item takes its place.
LEMMA TakenOut ==
    ASSUME NEW s, Sound(s), NEW v \in Inventory, NEW i \in Item, s.owner[i] = v
    PROVE  /\ Sound(pop(s, v, i))
           /\ pop(s, v, i).owner = [s.owner EXCEPT ![i] = None]
           /\ pop(s, v, i).count = s.count
<1> PICK t : t = pop(s, v, i)
  OBVIOUS
<1> PICK L : L = s.list[v]
  OBVIOUS
<1> PICK x : x = s.index[i]
  OBVIOUS
<1> PICK M : M = Front([L EXCEPT ![x] = Last(L)])
  OBVIOUS
<1>0. /\ s.list \in [Inventory -> Seq(Item)] /\ L \in Seq(Item) /\ Len(L) \in Nat
      /\ s.index \in [Item -> Nat] /\ s.owner \in [Item -> Inventory \cup {None}]
      /\ s.count \in [Item -> Nat]
      /\ s.row \in [Item -> [of : Inventory, n : Nat] \cup {None}]
      /\ v # None
  BY NoneApart DEF Sound, StoreType
<1>1. x \in 1..Len(L) /\ L[x] = i
  BY <1>0 DEF Sound, Listing
<1>2. Last(L) = L[Len(L)] /\ Last(L) \in Item
  BY <1>0, <1>1 DEF Last
<1>3. /\ t.list = [s.list EXCEPT ![v] = M]
      /\ t.index = [s.index EXCEPT ![Last(L)] = x, ![i] = 0]
      /\ t.owner = [s.owner EXCEPT ![i] = None]
      /\ t.count = s.count
      /\ t.row = [s.row EXCEPT ![i] = None]
      /\ t = [list |-> t.list, index |-> t.index, owner |-> t.owner,
              count |-> t.count, row |-> t.row]
  BY <1>0 DEF pop, DBUpdate, Sound, StoreType
<1>4. /\ M \in Seq(Item) /\ Len(M) = Len(L) - 1
      /\ \A k \in 1..(Len(L) - 1) : M[k] = IF k = x THEN L[Len(L)] ELSE L[k]
  <2> DEFINE N == [L EXCEPT ![x] = Last(L)]
  <2>1. N \in Seq(Item) /\ Len(N) = Len(L)
    BY <1>0, <1>1, <1>2
  <2>2. M = SubSeq(N, 1, Len(L) - 1)
    BY <2>1 DEF Front
  <2>3. \A k \in 1..Len(L) : N[k] = IF k = x THEN L[Len(L)] ELSE L[k]
    BY <1>0, <1>1, <1>2
  <2> HIDE DEF N
  <2>4. Len(L) - 1 \in Nat /\ Len(L) - 1 <= Len(N)
    BY <1>0, <1>1, <2>1
  <2>5. /\ SubSeq(N, 1, Len(L) - 1) \in Seq(Item) /\ Len(SubSeq(N, 1, Len(L) - 1)) = Len(L) - 1
        /\ \A k \in 1..(Len(L) - 1) : SubSeq(N, 1, Len(L) - 1)[k] = N[k]
    BY <1>0, <2>1, <2>4
  <2>6. \A k \in 1..(Len(L) - 1) : k \in 1..Len(L)
    BY <1>0
  <2>7. /\ M \in Seq(Item) /\ Len(M) = Len(L) - 1
        /\ \A k \in 1..(Len(L) - 1) : M[k] = N[k]
    BY <2>2, <2>5, Zenon
  <2>8. ASSUME NEW k \in 1..(Len(L) - 1)
        PROVE  M[k] = IF k = x THEN L[Len(L)] ELSE L[k]
    <3>1. k \in 1..Len(L) /\ M[k] = N[k]
      BY <2>6, <2>7
    <3> QED
      BY <2>3, <3>1
  <2> QED
    BY <2>7, <2>8
<1>5. \A k \in 1..Len(L) : s.owner[L[k]] = v /\ s.index[L[k]] = k /\ L[k] \in Item
  BY <1>0 DEF Sound, Listing
<1>6. t \in StoreType
  <2>1. t.row \in [Item -> [of : Inventory, n : Nat] \cup {None}]
    BY <1>0, <1>3
  <2>2. t.list \in [Inventory -> Seq(Item)]
    <3>1. M \in Seq(Item)
      BY <1>4
    <3> QED
      BY <1>0, <1>3, <3>1
  <2>3. t.index \in [Item -> Nat]
    <3>1. PICK f : f = [s.index EXCEPT ![Last(L)] = x]
      OBVIOUS
    <3>2. f \in [Item -> Nat]
      BY <1>0, <1>1, <3>1
    <3>3. t.index = [f EXCEPT ![i] = 0]
      BY <1>3, <3>1
    <3> QED
      BY <3>2, <3>3
  <2>4. t.owner \in [Item -> Inventory \cup {None}] /\ t.count \in [Item -> Nat]
    BY <1>0, <1>3
  <2> QED
    BY <1>3, <2>1, <2>2, <2>3, <2>4 DEF StoreType
<1>7. RowsTell(t)
  BY <1>0, <1>3 DEF Sound, RowsTell, Told
<1>8. Apart(t)
  BY <1>0, <1>3 DEF Sound, Apart
<1>9. Listing(t)
  <2> PICK n : n = Len(L)
    OBVIOUS
  <2> PICK last : last = L[n]
    OBVIOUS
  <2>0. /\ n \in Nat \ {0} /\ x \in 1..n /\ L[x] = i /\ last \in Item
        /\ Len(M) = n - 1 /\ Last(L) = last
        /\ \A k \in 1..(n - 1) : M[k] = IF k = x THEN last ELSE L[k]
    <3>1. n \in Nat \ {0} /\ x \in 1..n /\ L[x] = i /\ Last(L) = last /\ last \in Item
      BY <1>0, <1>1, <1>2
    <3> QED
      BY <1>4, <3>1
  <2>1. /\ t.list[v] = M
        /\ \A w \in Inventory : w # v => t.list[w] = s.list[w]
        /\ \A j \in Item : j # i => t.owner[j] = s.owner[j]
        /\ t.owner[i] = None
        /\ \A j \in Item : j # i => t.index[j] = IF j = last THEN x ELSE s.index[j]
    BY <1>0, <1>3, <2>0
  <2>2. \A k \in 1..n : s.owner[L[k]] = v /\ s.index[L[k]] = k /\ L[k] \in Item
    BY <1>5
  <2>3. s.index[last] = n /\ s.index[i] = x /\ s.owner[last] = v
    BY <2>0, <2>2
  <2>4. ASSUME NEW w \in Inventory, NEW k \in 1..Len(t.list[w])
        PROVE  t.owner[t.list[w][k]] = w /\ t.index[t.list[w][k]] = k
    <3>1. CASE w = v
      <4>1. k \in 1..(n - 1) /\ t.list[w] = M /\ k \in 1..n /\ k # n
        BY <2>0, <2>1, <2>4, <3>1
      <4>2. CASE k = x
        <5>1. M[k] = last
          BY <2>0, <4>1, <4>2
        <5>2. last # i
          BY <2>3, <4>1, <4>2
        <5>3. t.owner[last] = v /\ t.index[last] = x
          BY <2>0, <2>1, <2>3, <5>2
        <5> QED
          BY <3>1, <4>1, <4>2, <5>1, <5>3
      <4>3. CASE k # x
        <5>1. M[k] = L[k] /\ s.index[L[k]] = k /\ s.owner[L[k]] = v /\ L[k] \in Item
          BY <2>0, <2>2, <4>1, <4>3
        <5>2. L[k] # i /\ L[k] # last
          BY <2>3, <4>1, <4>3, <5>1
        <5>3. t.owner[L[k]] = v /\ t.index[L[k]] = k
          BY <2>1, <5>1, <5>2
        <5> QED
          BY <3>1, <4>1, <5>1, <5>3
      <4> QED
        BY <4>2, <4>3
    <3>2. CASE w # v
      <4>1. t.list[w] = s.list[w]
        BY <2>1, <3>2
      <4>2. s.owner[s.list[w][k]] = w /\ s.index[s.list[w][k]] = k
        BY <2>4, <4>1 DEF Sound, Listing
      <4>3. s.list[w][k] \in Item
        BY <1>0, <2>4, <4>1
      <4>4. s.list[w][k] # i /\ s.list[w][k] # last
        BY <2>3, <3>2, <4>2
      <4> QED
        BY <2>1, <4>1, <4>2, <4>3, <4>4
    <3> QED
      BY <3>1, <3>2
  <2>5. ASSUME NEW j \in Item, t.owner[j] # None
        PROVE  /\ t.index[j] \in 1..Len(t.list[t.owner[j]])
               /\ t.list[t.owner[j]][t.index[j]] = j
    <3>1. j # i /\ t.owner[j] = s.owner[j] /\ s.owner[j] \in Inventory
      BY <1>0, <2>1, <2>5
    <3>2. s.index[j] \in 1..Len(s.list[s.owner[j]]) /\ s.list[s.owner[j]][s.index[j]] = j
      BY <2>5, <3>1 DEF Sound, Listing
    <3>3. CASE j = last
      <4>1. t.index[j] = x /\ t.owner[j] = v
        BY <2>1, <2>3, <3>1, <3>3
      <4>2. x # n
        BY <2>0, <3>1, <3>3
      <4>3. x \in 1..(n - 1)
        BY <2>0, <4>2
      <4>4. x \in 1..Len(M) /\ M[x] = j
        BY <2>0, <3>3, <4>3
      <4>5. t.list[t.owner[j]] = M
        BY <2>1, <4>1
      <4> QED
        BY <4>1, <4>4, <4>5
    <3>4. CASE j # last
      <4>1. t.index[j] = s.index[j]
        BY <2>1, <3>1, <3>4
      <4>2. CASE s.owner[j] = v
        <5>1. s.index[j] \in 1..n /\ L[s.index[j]] = j
          BY <3>2, <4>2
        <5>2. s.index[j] # x /\ s.index[j] # n
          BY <2>0, <3>1, <3>4, <5>1
        <5>3. s.index[j] \in 1..(n - 1)
          BY <2>0, <5>1, <5>2
        <5>4. s.index[j] \in 1..Len(M) /\ M[s.index[j]] = j
          BY <2>0, <5>1, <5>2, <5>3
        <5> QED
          BY <2>1, <3>1, <4>1, <4>2, <5>4
      <4>3. CASE s.owner[j] # v
        BY <2>1, <3>1, <3>2, <4>1, <4>3
      <4> QED
        BY <4>2, <4>3
    <3> QED
      BY <3>3, <3>4
  <2> QED
    BY <2>4, <2>5 DEF Listing
<1> QED
  BY <1>3, <1>6, <1>7, <1>8, <1>9 DEF Sound

\* Inventory::FindByCode, for a code that may be joined: its only stack, if any.
LEMMA Found ==
    ASSUME NEW s, Sound(s), NEW v \in Inventory, NEW i \in Item, IsJoinable(i),
           NEW k, k = FindByCode(s, v, KindOf[i])
    PROVE  /\ k = 0 => \A j \in Item : s.owner[j] = v => KindOf[j] # KindOf[i]
           /\ k # 0 => /\ s.list[v][k] \in Item
                       /\ s.owner[s.list[v][k]] = v
                       /\ KindOf[s.list[v][k]] = KindOf[i]
<1> DEFINE L == s.list[v]
           I == {m \in 1..Len(L) : KindOf[L[m]] = KindOf[i]}
<1>0. L \in Seq(Item) /\ Len(L) \in Nat /\ v # None
  BY NoneApart DEF Sound, StoreType
<1>1. k = IF I # {} THEN Min(I) ELSE 0
  BY DEF FindByCode, SelectInSeq
<1>2. \A m \in 1..Len(L) : L[m] \in Item /\ s.owner[L[m]] = v /\ s.index[L[m]] = m
  BY <1>0 DEF Sound, Listing
<1>3. ASSUME NEW m \in I
      PROVE  I = {m}
  <2>1. ASSUME NEW n \in I
        PROVE  n = m
    <3>1. /\ L[m] \in Item /\ L[n] \in Item
          /\ s.owner[L[m]] = v /\ s.owner[L[n]] = v
          /\ s.index[L[m]] = m /\ s.index[L[n]] = n
          /\ KindOf[L[m]] = KindOf[i] /\ KindOf[L[n]] = KindOf[i]
      BY <1>2
    <3>2. L[m] = L[n]
      BY <1>0, <3>1 DEF Sound, Apart, IsJoinable
    <3> QED
      BY <3>1, <3>2
  <2> QED
    BY <2>1
<1>4. CASE I = {}
  <2>1. k = 0
    BY <1>1, <1>4
  <2>2. ASSUME NEW j \in Item, s.owner[j] = v
        PROVE  KindOf[j] # KindOf[i]
    <3>1. s.index[j] \in 1..Len(L) /\ L[s.index[j]] = j
      BY <1>0, <2>2 DEF Sound, Listing
    <3> QED
      BY <1>4, <3>1
  <2> QED
    BY <2>1, <2>2
<1>5. CASE I # {}
  <2>1. PICK m \in I : TRUE
    BY <1>5
  <2>2. I = {m} /\ m \in 1..Len(L)
    BY <1>3
  <2>3. Min({m}) = m
    BY <2>2, <1>0 DEF Min
  <2>4. k = m
    BY <1>1, <1>5, <2>2, <2>3
  <2> QED
    BY <1>0, <1>2, <2>2, <2>4
<1> QED
  BY <1>4, <1>5

\* Items other than i stay with their owners, with units or without.
But(s, t, i) == \A j \in Item \ {i} : t.owner[j] = s.owner[j] /\ (t.count[j] > 0 <=> s.count[j] > 0)

\* Inventory::Push: the item is in the list, or its units are and it is given up.
LEMMA Pushed ==
    ASSUME NEW s, Sound(s), NEW v \in Inventory, NEW i \in Item, s.owner[i] = None,
           NEW n \in Nat \ {0}, s.count[i] > 0
    PROVE  /\ Sound(Push(s, v, i, n))
           /\ But(s, Push(s, v, i, n), i)
           /\ \/ Push(s, v, i, n).owner[i] = v
              \/ Push(s, v, i, n).owner[i] = None /\ Push(s, v, i, n).count[i] = 0
<1> PICK k : k = FindByCode(s, v, KindOf[i])
  OBVIOUS
<1>0. s.owner \in [Item -> Inventory \cup {None}] /\ s.count \in [Item -> Nat]
  BY DEF Sound, StoreType
<1>1. CASE IsJoinable(i) /\ k # 0
  <2>1. PICK j : j = s.list[v][k]
    OBVIOUS
  <2>2. j \in Item /\ s.owner[j] = v /\ j # i
    BY <1>1, <2>1, Found, NoneApart
  <2>3. s.count[j] \in Nat /\ s.count[j] > 0
    BY <1>0, <2>2, NoneApart DEF Sound, RowsTell, Told
  <2>4. PICK c : c = s.count[j] + n
    OBVIOUS
  <2>5. c \in Nat \ {0}
    BY <2>3, <2>4
  <2>6. PICK t : t = SetCount(s, v, j, c)
    OBVIOUS
  <2>7. Sound(t) /\ t.owner = s.owner /\ t.count = [s.count EXCEPT ![j] = c]
    BY <2>2, <2>5, <2>6, Recounted
  <2>8. Push(s, v, i, n) = GiveUp(t, i)
    BY <1>1, <2>1, <2>4, <2>6 DEF Push
  <2>9. PICK u : u = GiveUp(t, i)
    OBVIOUS
  <2>10. Sound(u) /\ u.owner = t.owner /\ u.count = [t.count EXCEPT ![i] = 0]
    BY <2>7, <2>9, GivenUp
  <2>11. \A m \in Item : t.count[m] \in Nat /\ (t.count[m] > 0 <=> s.count[m] > 0)
    BY <1>0, <2>2, <2>3, <2>5, <2>7
  <2>12. DOMAIN t.count = Item
    BY <1>0, <2>7
  <2>13. u.count[i] = 0 /\ \A m \in Item \ {i} : u.count[m] = t.count[m]
    BY <2>10, <2>12
  <2>14. But(s, u, i)
    BY <2>7, <2>10, <2>11, <2>13 DEF But
  <2>15. Sound(u) /\ u.owner[i] = None /\ Push(s, v, i, n) = u
    BY <2>7, <2>8, <2>9, <2>10
  <2> QED
    BY <2>13, <2>14, <2>15
<1>2. CASE ~(IsJoinable(i) /\ k # 0)
  <2>1. IsJoinable(i) => \A j \in Item : s.owner[j] = v => KindOf[j] # KindOf[i]
    BY <1>2, Found
  <2>2. Push(s, v, i, n) = push(s, v, i)
    BY <1>2 DEF Push
  <2>3. /\ Sound(push(s, v, i)) /\ push(s, v, i).owner = [s.owner EXCEPT ![i] = v]
        /\ push(s, v, i).count = s.count
    BY <2>1, PushedEnd
  <2> QED
    BY <1>0, <2>2, <2>3 DEF But
<1> QED
  BY <1>1, <1>2

\* Inventory::Pop: the part has no owner and n units, whether it is the item
\* or a new one.
LEMMA Popped ==
    ASSUME NEW s, Sound(s), NEW v \in Inventory, NEW i \in Item, s.owner[i] = v,
           NEW n \in 1..s.count[i], NEW new \in Item,
           s.count[i] > n => s.owner[new] = None /\ s.count[new] = 0,
           s.count[i] <= n => new = i
    PROVE  /\ Sound(Pop(s, v, i, n, new))
           /\ But(s, Pop(s, v, i, n, new), new)
           /\ Pop(s, v, i, n, new).owner[new] = None
           /\ Pop(s, v, i, n, new).count[new] = n
<1>0. /\ s.owner \in [Item -> Inventory \cup {None}] /\ s.count \in [Item -> Nat]
      /\ v # None /\ n \in Nat \ {0}
  BY NoneApart DEF Sound, StoreType
<1>1. CASE s.count[i] > n
  <2>1. s.owner[new] = None /\ s.count[new] = 0 /\ new # i /\ n \in Nat
    BY <1>0, <1>1
  <2>2. PICK t : t = [s EXCEPT !.count[new] = n]
    OBVIOUS
  <2>3. Sound(t) /\ t.owner = s.owner /\ t.count = [s.count EXCEPT ![new] = n]
    BY <2>1, <2>2, Loose
  <2>4. PICK m : m = s.count[i] - n
    OBVIOUS
  <2>5. m \in Nat \ {0}
    BY <1>0, <1>1, <2>4
  <2>6. PICK u : u = SetCount(t, v, i, m)
    OBVIOUS
  <2>7. t.owner[i] = v
    BY <2>3
  <2>8. Sound(u) /\ u.owner = t.owner /\ u.count = [t.count EXCEPT ![i] = m]
    BY <2>3, <2>5, <2>6, <2>7, Recounted
  <2>9. Pop(s, v, i, n, new) = u
    BY <1>1, <2>2, <2>4, <2>6 DEF Pop
  <2>10. t.count[new] = n /\ \A j \in Item \ {new} : t.count[j] = s.count[j]
    BY <1>0, <2>3
  <2>11. DOMAIN t.count = Item
    BY <1>0, <2>3
  <2>12. u.count[i] = m /\ \A j \in Item \ {i} : u.count[j] = t.count[j]
    BY <2>8, <2>11
  <2>13. u.owner = s.owner
    BY <2>3, <2>8
  <2>14. But(s, u, new)
    BY <1>0, <1>1, <2>5, <2>10, <2>12, <2>13 DEF But
  <2>15. u.owner[new] = None /\ u.count[new] = n /\ Sound(u)
    BY <2>1, <2>8, <2>10, <2>12, <2>13
  <2> QED
    BY <2>9, <2>14, <2>15
<1>2. CASE ~(s.count[i] > n)
  <2>1. new = i /\ s.count[i] = n
    BY <1>0, <1>2
  <2>2. Pop(s, v, i, n, new) = pop(s, v, i)
    BY <1>2 DEF Pop
  <2>3. /\ Sound(pop(s, v, i)) /\ pop(s, v, i).owner = [s.owner EXCEPT ![i] = None]
        /\ pop(s, v, i).count = s.count
    BY TakenOut
  <2> QED
    BY <1>0, <2>1, <2>2, <2>3 DEF But
<1> QED
  BY <1>1, <1>2

\* Player::Save writes the rows of the bag.
LEMMA Saved ==
    ASSUME NEW s, Sound(s), NEW p \in Player
    PROVE  /\ Sound(Save(s, p)) /\ Save(s, p).owner = s.owner /\ Save(s, p).count = s.count
           /\ \A i \in Item : s.owner[i] = Bag(p) => Save(s, p).row[i].n = s.count[i]
<1> PICK t : t = Save(s, p)
  OBVIOUS
<1> PICK B : B = ToSet(s.list[Bag(p)])
  OBVIOUS
<1>0. /\ s.owner \in [Item -> Inventory \cup {None}] /\ s.count \in [Item -> Nat]
      /\ s.row \in [Item -> [of : Inventory, n : Nat] \cup {None}]
      /\ Bag(p) \in Inventory
  BY DEF Sound, StoreType, Bag, Inventory
<1>1. /\ t.list = s.list /\ t.index = s.index /\ t.owner = s.owner /\ t.count = s.count
      /\ t.row = [i \in Item |-> IF i \in B THEN [of |-> s.owner[i], n |-> s.count[i]] ELSE s.row[i]]
      /\ t = [list |-> t.list, index |-> t.index, owner |-> t.owner,
              count |-> t.count, row |-> t.row]
  BY DEF Save, Sound, StoreType
<1>2. \A i \in B : i \in Item /\ s.owner[i] = Bag(p) /\ s.owner[i] # None
  BY <1>0, NoneApart DEF Sound, StoreType, Listing, ToSet
<1>3. \A i \in B : [of |-> s.owner[i], n |-> s.count[i]] \in [of : Inventory, n : Nat]
  BY <1>0, <1>2
<1>4. t \in StoreType
  <2>1. t.row \in [Item -> [of : Inventory, n : Nat] \cup {None}]
    BY <1>0, <1>1, <1>3
  <2> QED
    BY <1>1, <2>1 DEF Sound, StoreType
<1>5. RowsTell(t)
  BY <1>0, <1>1, <1>2, <1>3, NoneApart DEF Sound, RowsTell, Told
<1>6. Listing(t) /\ Apart(t)
  BY <1>1 DEF Sound, Listing, Apart
<1>7. ASSUME NEW i \in Item, s.owner[i] = Bag(p)
      PROVE  t.row[i].n = s.count[i]
  <2>1. s.index[i] \in 1..Len(s.list[Bag(p)]) /\ s.list[Bag(p)][s.index[i]] = i
    BY <1>0, <1>7, NoneApart DEF Sound, Listing
  <2>2. s.list[Bag(p)] \in Seq(Item)
    BY <1>0 DEF Sound, StoreType
  <2>3. i \in B
    BY <2>1, <2>2 DEF ToSet
  <2> QED
    BY <1>1, <2>3
<1>8. Sound(t)
  BY <1>1, <1>4, <1>5, <1>6 DEF Sound
<1> QED
  BY <1>1, <1>7, <1>8

\* The list of a set names each of its members once.
LEMMA ListOfSet ==
    ASSUME NEW S, IsFiniteSet(S)
    PROVE  /\ SetToSeq(S) \in Seq(S)
           /\ \A i, j \in DOMAIN SetToSeq(S) : SetToSeq(S)[i] = SetToSeq(S)[j] => i = j
           /\ \A x \in S : \E i \in DOMAIN SetToSeq(S) : SetToSeq(S)[i] = x
<1> DEFINE D == 1 .. Cardinality(S)
<1>1. Cardinality(S) \in Nat /\ ExistsBijection(D, S)
  BY FS_CardinalityType
<1>2. \E f \in [D -> S] : IsInjective(f)
  BY <1>1, Zenon DEF ExistsBijection, Bijection, Injection
<1>3. SetToSeq(S) \in [D -> S] /\ IsInjective(SetToSeq(S))
  BY <1>2 DEF SetToSeq
<1>4. SetToSeq(S) \in Injection(D, S)
  BY <1>3 DEF Injection
<1>5. Cardinality(D) = Cardinality(S)
  BY <1>1, FS_Interval
<1>6. SetToSeq(S) \in Surjection(D, S)
  BY <1>4, <1>5, FS_Injection
<1> QED
  BY <1>1, <1>3, <1>6 DEF Surjection, IsInjective

\* The rows of a sound store have units.
LEMMA RowsAre ==
    ASSUME NEW s, Sound(s)
    PROVE  s.row \in [Item -> Row]
<1>1. \A i \in Item : s.row[i] \in [of : Inventory, n : Nat] \cup {None}
  BY DEF Sound, StoreType
<1>2. \A i \in Item : s.row[i] # None => s.row[i].n > 0
  BY DEF Sound, RowsTell, Told
<1>3. \A i \in Item : s.row[i] \in Row
  BY <1>1, <1>2 DEF Row
<1> QED
  BY <1>3 DEF Sound, StoreType

\* What is read again: of each stack the item that was kept, with all its units,
\* and what belongs to other inventories.
StackOf(s, vs, i) == {j \in Rows(s, vs) : Joins(s, j, i)}

LEMMA StackUnits ==
    ASSUME NEW s, NEW vs, s.row \in [Item -> Row], NEW kept \in Firsts(s, vs), NEW i \in kept
    PROVE  UnitsOf(s.row, StackOf(s, vs, i)) \in Nat \ {0}
<1>1. PICK P : P = StackOf(s, vs, i)
  OBVIOUS
<1>2. i \in P /\ P \subseteq Item /\ IsFiniteSet(P)
  BY <1>1, ItemAssumption, FS_Subset DEF StackOf, Firsts, Rows, Joins
<1>3. \A j \in P : s.row[j].n \in Nat \ {0}
  <2>1. \A j \in P : s.row[j] # None /\ s.row[j] \in Row
    BY <1>1 DEF StackOf, Rows
  <2> QED
    BY <2>1 DEF Row
<1>4. PICK f : f = [j \in P |-> s.row[j].n]
  OBVIOUS
<1>5. \A j \in P : f[j] = s.row[j].n /\ f[j] \in Nat \ {0}
  BY <1>3, <1>4
<1>6. UnitsOf(s.row, P) = SumOf(f, P)
  BY <1>2, <1>5, RowsAdd
<1>7. SumOf(f, P) = f[i] + SumOf(f, P \ {i})
  BY <1>2, <1>5, SumTakes
<1>8. SumOf(f, P \ {i}) \in Nat
  <2>1. IsFiniteSet(P \ {i}) /\ \A j \in P \ {i} : f[j] \in Nat
    BY <1>2, <1>5, FS_Subset
  <2> QED
    BY <2>1, SumNat
<1> QED
  BY <1>1, <1>2, <1>5, <1>6, <1>7, <1>8

LEMMA Reread ==
    ASSUME NEW s \in StoreType, Listing(s), s.row \in [Item -> Row],
           NEW vs \in SUBSET Inventory,
           \A i \in Rows(s, vs) : s.owner[i] \in vs \cup {None},
           \A i \in Item \ Rows(s, vs) : s.owner[i] \notin vs => Told(s, i),
           \A i, j \in Item :
               /\ s.owner[i] \notin vs \cup {None} /\ s.owner[i] = s.owner[j]
               /\ IsJoinable(i) /\ KindOf[i] = KindOf[j]
               => i = j,
           NEW kept \in Firsts(s, vs)
    PROVE  /\ Sound(Reload(s, vs, kept))
           /\ \A i \in Item :
                 /\ Reload(s, vs, kept).owner[i] =
                        IF i \in kept THEN s.row[i].of
                        ELSE IF s.owner[i] \in vs THEN None ELSE s.owner[i]
                 /\ Reload(s, vs, kept).count[i] =
                        IF i \in kept THEN UnitsOf(s.row, StackOf(s, vs, i))
                        ELSE IF i \in Rows(s, vs) \/ s.owner[i] \in vs THEN 0 ELSE s.count[i]
<1> DEFINE read == Rows(s, vs)
           gone == (read \cup UNION {ToSet(s.list[v]) : v \in vs}) \ kept
           lists == [v \in vs |-> SetToSeq({i \in kept : s.row[i].of = v})]
           place(i) == CHOOSE k \in DOMAIN lists[s.row[i].of] : lists[s.row[i].of][k] = i
           units(i) == UnitsOf(s.row, StackOf(s, vs, i))
<1>1. Reload(s, vs, kept) =
        [list |-> [v \in Inventory |-> IF v \in vs THEN lists[v] ELSE s.list[v]],
         index |-> [i \in Item |-> IF i \in kept THEN place(i) ELSE IF i \in gone THEN 0 ELSE s.index[i]],
         owner |-> [i \in Item |-> IF i \in kept THEN s.row[i].of ELSE IF i \in gone THEN None ELSE s.owner[i]],
         count |-> [i \in Item |-> IF i \in kept THEN units(i) ELSE IF i \in gone THEN 0 ELSE s.count[i]],
         row |-> [i \in Item |-> IF i \in kept THEN [of |-> s.row[i].of, n |-> units(i)]
                                 ELSE IF i \in gone THEN None ELSE s.row[i]]]
  BY Zenon DEF Reload, StackOf
<1>0. /\ s.list \in [Inventory -> Seq(Item)] /\ s.index \in [Item -> Nat]
      /\ s.owner \in [Item -> Inventory \cup {None}] /\ s.count \in [Item -> Nat]
      /\ s.row \in [Item -> [of : Inventory, n : Nat] \cup {None}]
  BY DEF StoreType
<1>2. /\ kept \subseteq read /\ read \subseteq Item
      /\ \A i \in read : s.row[i] # None /\ s.row[i].of \in vs
      /\ \A i \in read : s.row[i] \in [of : Inventory, n : Nat]
  BY <1>0 DEF Firsts, Rows
<1>3. \A i, j \in kept : Joins(s, i, j) => i = j
  <2> SUFFICES ASSUME NEW i \in kept, NEW j \in kept, Joins(s, i, j)
               PROVE  i = j
    OBVIOUS
  <2>1. PICK m \in kept : \A k \in kept : Joins(s, i, k) => k = m
    BY <1>2 DEF Firsts
  <2>2. Joins(s, i, i)
    BY DEF Joins
  <2> QED
    BY <2>1, <2>2
<1>4. \A i \in kept : units(i) \in Nat \ {0}
  BY StackUnits
<1>5. \A i \in Item : i \in UNION {ToSet(s.list[v]) : v \in vs} <=> s.owner[i] \in vs
  <2>1. ASSUME NEW v \in vs, NEW i \in ToSet(s.list[v])
        PROVE  s.owner[i] = v
    <3>1. PICK k \in 1..Len(s.list[v]) : i = s.list[v][k]
      BY <1>0 DEF ToSet
    <3> QED
      BY <1>0, <3>1 DEF Listing
  <2>2. ASSUME NEW i \in Item, s.owner[i] \in vs
        PROVE  i \in ToSet(s.list[s.owner[i]])
    <3>1. s.index[i] \in 1..Len(s.list[s.owner[i]]) /\ s.list[s.owner[i]][s.index[i]] = i
      BY <2>2, NoneApart DEF Listing
    <3>2. s.list[s.owner[i]] \in Seq(Item)
      BY <1>0, <2>2
    <3> QED
      BY <3>1, <3>2 DEF ToSet
  <2> QED
    BY <2>1, <2>2
<1>6. \A i \in Item : i \in gone <=> i \notin kept /\ (i \in read \/ s.owner[i] \in vs)
  BY <1>5
<1>7. \A i \in Item \ kept : i \notin gone => Told(s, i) /\ s.owner[i] \notin vs
  BY <1>6
<1>8. ASSUME NEW v \in vs
      PROVE  /\ lists[v] \in Seq(Item)
             /\ \A k \in DOMAIN lists[v] : lists[v][k] \in kept /\ s.row[lists[v][k]].of = v
             /\ \A j, k \in DOMAIN lists[v] : lists[v][j] = lists[v][k] => j = k
             /\ \A i \in kept : s.row[i].of = v => \E k \in DOMAIN lists[v] : lists[v][k] = i
  <2>1. PICK S : S = {i \in kept : s.row[i].of = v}
    OBVIOUS
  <2>2. lists[v] = SetToSeq(S)
    BY <2>1
  <2>3. IsFiniteSet(S) /\ S \subseteq Item
    BY <1>2, <2>1, FS_Subset, ItemAssumption
  <2>4. /\ SetToSeq(S) \in Seq(S)
        /\ \A i, j \in DOMAIN SetToSeq(S) : SetToSeq(S)[i] = SetToSeq(S)[j] => i = j
        /\ \A x \in S : \E i \in DOMAIN SetToSeq(S) : SetToSeq(S)[i] = x
    BY <2>3, ListOfSet
  <2>5. SetToSeq(S) \in Seq(Item) /\ \A k \in DOMAIN SetToSeq(S) : SetToSeq(S)[k] \in S
    BY <2>3, <2>4
  <2>6. PICK f : f = SetToSeq(S)
    OBVIOUS
  <2>7. /\ f \in Seq(Item) /\ \A k \in DOMAIN f : f[k] \in S
        /\ \A j, k \in DOMAIN f : f[j] = f[k] => j = k
        /\ \A x \in S : \E k \in DOMAIN f : f[k] = x
    BY <2>4, <2>5, <2>6
  <2>8. lists[v] = f
    BY <2>2, <2>6
  <2> HIDE DEF lists, read
  <2> QED
    BY <2>1, <2>7, <2>8
<1>9. ASSUME NEW i \in kept
      PROVE  /\ s.row[i].of \in vs
             /\ place(i) \in DOMAIN lists[s.row[i].of]
             /\ lists[s.row[i].of][place(i)] = i
             /\ place(i) \in Nat
  <2>1. s.row[i].of \in vs
    BY <1>2
  <2>2. \E k \in DOMAIN lists[s.row[i].of] : lists[s.row[i].of][k] = i
    BY <1>8, <2>1
  <2>3. place(i) \in DOMAIN lists[s.row[i].of] /\ lists[s.row[i].of][place(i)] = i
    BY <2>2
  <2>4. lists[s.row[i].of] \in Seq(Item)
    BY <1>8, <2>1
  <2> HIDE DEF place, lists
  <2> QED
    BY <2>1, <2>3, <2>4
<1>10. PICK t : t = Reload(s, vs, kept)
  OBVIOUS
<1> HIDE DEF gone, lists, place, units, read
<1>11. /\ t.list = [v \in Inventory |-> IF v \in vs THEN lists[v] ELSE s.list[v]]
       /\ t.index = [i \in Item |-> IF i \in kept THEN place(i) ELSE IF i \in gone THEN 0 ELSE s.index[i]]
       /\ t.owner = [i \in Item |-> IF i \in kept THEN s.row[i].of ELSE IF i \in gone THEN None ELSE s.owner[i]]
       /\ t.count = [i \in Item |-> IF i \in kept THEN units(i) ELSE IF i \in gone THEN 0 ELSE s.count[i]]
       /\ t.row = [i \in Item |-> IF i \in kept THEN [of |-> s.row[i].of, n |-> units(i)]
                                  ELSE IF i \in gone THEN None ELSE s.row[i]]
       /\ t = [list |-> t.list, index |-> t.index, owner |-> t.owner,
               count |-> t.count, row |-> t.row]
  BY <1>1, <1>10
<1>12. t \in StoreType
  <2>1. t.list \in [Inventory -> Seq(Item)]
    BY <1>0, <1>8, <1>11
  <2>2. t.index \in [Item -> Nat]
    BY <1>0, <1>9, <1>11
  <2>3. t.count \in [Item -> Nat]
    BY <1>0, <1>4, <1>11
  <2>4. t.owner \in [Item -> Inventory \cup {None}]
    BY <1>0, <1>9, <1>11
  <2>5. \A i \in kept : [of |-> s.row[i].of, n |-> units(i)] \in [of : Inventory, n : Nat]
    BY <1>4, <1>9
  <2>6. t.row \in [Item -> [of : Inventory, n : Nat] \cup {None}]
    BY <1>0, <1>11, <2>5
  <2> QED
    BY <1>11, <2>1, <2>2, <2>3, <2>4, <2>6 DEF StoreType
<1>13. RowsTell(t)
  <2>1. ASSUME NEW i \in Item
        PROVE  Told(t, i)
    <3>1. CASE i \in kept
      <4>1. /\ t.owner[i] = s.row[i].of /\ t.count[i] = units(i)
            /\ t.row[i] = [of |-> s.row[i].of, n |-> units(i)]
        BY <1>11, <3>1
      <4>2. s.row[i].of \in Inventory /\ units(i) \in Nat \ {0}
        BY <1>4, <1>9, <3>1
      <4>3. [of |-> s.row[i].of, n |-> units(i)] \in [of : Inventory, n : Nat]
        BY <4>2
      <4> QED
        BY <4>1, <4>2, <4>3, NoneApart DEF Told
    <3>2. CASE i \notin kept /\ i \in gone
      BY <1>11, <3>2 DEF Told
    <3>3. CASE i \notin kept /\ i \notin gone
      <4>1. Told(s, i) /\ t.owner[i] = s.owner[i] /\ t.count[i] = s.count[i] /\ t.row[i] = s.row[i]
        BY <1>7, <1>11, <3>3
      <4> QED
        BY <4>1 DEF Told
    <3> QED
      BY <3>1, <3>2, <3>3
  <2> QED
    BY <2>1 DEF RowsTell
<1>14. ASSUME NEW i \in Item, t.owner[i] # None
       PROVE  \/ i \in kept /\ t.owner[i] = s.row[i].of /\ t.owner[i] \in vs
              \/ i \notin kept /\ i \notin gone /\ t.owner[i] = s.owner[i] /\ t.owner[i] \notin vs
  BY <1>7, <1>9, <1>11, <1>14
<1>15. Apart(t)
  <2> SUFFICES ASSUME NEW i \in Item, NEW j \in Item, t.owner[i] # None, t.owner[i] = t.owner[j],
                      IsJoinable(i), KindOf[i] = KindOf[j]
               PROVE  i = j
    BY DEF Apart
  <2>1. CASE t.owner[i] \in vs
    <3>1. i \in kept /\ j \in kept /\ s.row[i].of = s.row[j].of
      BY <1>14, <2>1
    <3> QED
      BY <1>3, <3>1 DEF Joins
  <2>2. CASE t.owner[i] \notin vs
    <3>1. s.owner[i] = t.owner[i] /\ s.owner[j] = t.owner[j]
      BY <1>14, <2>2
    <3> QED
      BY <2>2, <3>1
  <2> QED
    BY <2>1, <2>2
<1>16. Listing(t)
  <2>1. ASSUME NEW v \in Inventory, NEW k \in 1..Len(t.list[v])
        PROVE  t.owner[t.list[v][k]] = v /\ t.index[t.list[v][k]] = k
    <3>1. CASE v \in vs
      <4>1. t.list[v] = lists[v] /\ lists[v] \in Seq(Item)
        BY <1>8, <1>11, <3>1
      <4>2. k \in DOMAIN lists[v]
        BY <2>1, <4>1
      <4>3. PICK i : i = lists[v][k]
        OBVIOUS
      <4>4. i \in kept /\ i \in Item /\ s.row[i].of = v
        BY <1>2, <1>8, <3>1, <4>2, <4>3
      <4>5. place(i) \in DOMAIN lists[v] /\ lists[v][place(i)] = lists[v][k]
        BY <1>9, <4>3, <4>4
      <4>6. place(i) = k
        BY <1>8, <3>1, <4>2, <4>5
      <4>7. t.index[i] = place(i) /\ t.owner[i] = v
        BY <1>11, <4>4
      <4> QED
        BY <4>1, <4>3, <4>6, <4>7
    <3>2. CASE v \notin vs
      <4>1. t.list[v] = s.list[v]
        BY <1>11, <3>2
      <4>2. PICK i : i = s.list[v][k]
        OBVIOUS
      <4>3. i \in Item /\ s.owner[i] = v /\ s.index[i] = k
        BY <1>0, <2>1, <4>1, <4>2 DEF Listing
      <4>4. i \notin read
        BY <3>2, <4>3, NoneApart DEF read
      <4>5. i \notin kept /\ i \notin gone
        BY <1>2, <1>6, <3>2, <4>3, <4>4
      <4>6. t.index[i] = s.index[i] /\ t.owner[i] = s.owner[i]
        BY <1>11, <4>3, <4>5
      <4> QED
        BY <4>1, <4>2, <4>3, <4>6
    <3> QED
      BY <3>1, <3>2
  <2>2. ASSUME NEW i \in Item, t.owner[i] # None
        PROVE  /\ t.index[i] \in 1..Len(t.list[t.owner[i]])
               /\ t.list[t.owner[i]][t.index[i]] = i
    <3>1. PICK v : v = t.owner[i]
      OBVIOUS
    <3>2. CASE i \in kept
      <4>1. v \in vs /\ v = s.row[i].of /\ v \in Inventory
        BY <1>14, <2>2, <3>1, <3>2
      <4>2. t.list[v] = lists[v] /\ t.index[i] = place(i)
        BY <1>11, <3>2, <4>1
      <4>3. place(i) \in DOMAIN lists[v] /\ lists[v][place(i)] = i /\ lists[v] \in Seq(Item)
        BY <1>8, <1>9, <3>2, <4>1
      <4>4. place(i) \in 1..Len(lists[v])
        BY <4>3
      <4> QED
        BY <3>1, <4>2, <4>3, <4>4
    <3>3. CASE i \notin kept
      <4>1. i \notin gone /\ v = s.owner[i] /\ v \notin vs /\ v \in Inventory /\ v # None
        BY <1>0, <1>14, <2>2, <3>1, <3>3
      <4>2. t.list[v] = s.list[v] /\ t.index[i] = s.index[i]
        BY <1>11, <3>3, <4>1
      <4>3. s.index[i] \in 1..Len(s.list[v]) /\ s.list[v][s.index[i]] = i
        BY <4>1 DEF Listing
      <4> QED
        BY <3>1, <4>2, <4>3
    <3> QED
      BY <3>2, <3>3
  <2> QED
    BY <2>1, <2>2 DEF Listing
<1>17. Sound(t)
  BY <1>12, <1>13, <1>15, <1>16 DEF Sound
<1>18. ASSUME NEW i \in Item
       PROVE  /\ t.owner[i] = IF i \in kept THEN s.row[i].of
                              ELSE IF s.owner[i] \in vs THEN None ELSE s.owner[i]
              /\ t.count[i] = IF i \in kept THEN UnitsOf(s.row, StackOf(s, vs, i))
                              ELSE IF i \in Rows(s, vs) \/ s.owner[i] \in vs THEN 0 ELSE s.count[i]
  <2>1. i \in read => s.owner[i] \in vs \/ s.owner[i] = None
    BY DEF read
  <2>2. t.owner[i] = IF i \in kept THEN s.row[i].of ELSE IF i \in gone THEN None ELSE s.owner[i]
    BY <1>11
  <2>3. t.count[i] = IF i \in kept THEN units(i) ELSE IF i \in gone THEN 0 ELSE s.count[i]
    BY <1>11
  <2> QED
    BY <1>6, <2>1, <2>2, <2>3 DEF units, read
<1> QED
  BY <1>10, <1>17, <1>18

\* A player that is logged in again has what its rows said.
LEMMA Reloaded ==
    ASSUME NEW s, Sound(s), NEW vs \in SUBSET Inventory, NEW kept \in Firsts(s, vs)
    PROVE  /\ Sound(Reload(s, vs, kept))
           /\ Reload(s, vs, kept).owner = s.owner
           /\ \A i \in Item : Reload(s, vs, kept).count[i] > 0 <=> s.count[i] > 0
           /\ \A i \in Item : Reload(s, vs, kept).count[i] = IF s.owner[i] \in vs THEN s.row[i].n
                                                            ELSE s.count[i]
<1>0. /\ s \in StoreType /\ Listing(s) /\ s.row \in [Item -> Row]
      /\ s.owner \in [Item -> Inventory \cup {None}] /\ s.count \in [Item -> Nat]
  BY RowsAre DEF Sound, StoreType
<1>1. \A i \in Item : Told(s, i)
  BY DEF Sound, RowsTell
<1>2. Rows(s, vs) = {i \in Item : s.owner[i] \in vs}
  BY <1>1, NoneApart DEF Told, Rows
<1>3. \A i, j \in Rows(s, vs) : Joins(s, i, j) => i = j
  <2> SUFFICES ASSUME NEW i \in Rows(s, vs), NEW j \in Rows(s, vs), Joins(s, i, j)
               PROVE  i = j
    OBVIOUS
  <2>1. /\ i \in Item /\ j \in Item /\ s.owner[i] # None /\ s.owner[j] # None
        /\ s.row[i].of = s.owner[i] /\ s.row[j].of = s.owner[j]
    BY <1>1, <1>2, NoneApart DEF Told
  <2> QED
    BY <2>1 DEF Joins, Sound, Apart
<1>4. kept = Rows(s, vs)
  <2>1. kept \subseteq Rows(s, vs)
    BY DEF Firsts
  <2>2. ASSUME NEW i \in Rows(s, vs)
        PROVE  i \in kept
    <3>1. PICK j \in kept : Joins(s, i, j)
      BY DEF Firsts
    <3> QED
      BY <1>3, <2>1, <3>1
  <2> QED
    BY <2>1, <2>2
<1>5. ASSUME NEW i \in kept
      PROVE  UnitsOf(s.row, StackOf(s, vs, i)) = s.row[i].n
  <2>1. PICK P : P = {i}
    OBVIOUS
  <2>2. StackOf(s, vs, i) = P
    BY <1>3, <1>4, <2>1 DEF StackOf, Joins
  <2>3. IsFiniteSet(P) /\ i \in P /\ P \ {i} = {}
    BY <2>1, FS_Singleton
  <2>4. s.row[i].n \in Nat
    <3>1. s.row[i] \in Row /\ s.row[i] # None
      BY <1>0, <1>4 DEF Rows
    <3> QED
      BY <3>1 DEF Row
  <2>5. PICK f : f = [j \in P |-> s.row[j].n]
    OBVIOUS
  <2>6. \A j \in P : f[j] = s.row[j].n /\ f[j] \in Nat
    BY <2>1, <2>4, <2>5
  <2>7. UnitsOf(s.row, P) = SumOf(f, P)
    BY <2>3, <2>6, RowsAdd
  <2>8. SumOf(f, P) = f[i] + SumOf(f, P \ {i})
    BY <2>3, <2>6, SumTakes
  <2>9. SumOf(f, {}) = 0
    BY FS_EmptySet, SumSolves
  <2> QED
    BY <2>2, <2>3, <2>4, <2>6, <2>7, <2>8, <2>9
<1>6. PICK t : t = Reload(s, vs, kept)
  OBVIOUS
<1>7. /\ Sound(t)
      /\ \A i \in Item :
            /\ t.owner[i] = IF i \in kept THEN s.row[i].of
                            ELSE IF s.owner[i] \in vs THEN None ELSE s.owner[i]
            /\ t.count[i] = IF i \in kept THEN UnitsOf(s.row, StackOf(s, vs, i))
                            ELSE IF i \in Rows(s, vs) \/ s.owner[i] \in vs THEN 0 ELSE s.count[i]
  <2>1. \A i \in Rows(s, vs) : s.owner[i] \in vs \cup {None}
    BY <1>2
  <2>2. \A i \in Item \ Rows(s, vs) : s.owner[i] \notin vs => Told(s, i)
    BY <1>1
  <2>3. \A i, j \in Item :
            /\ s.owner[i] \notin vs \cup {None} /\ s.owner[i] = s.owner[j]
            /\ IsJoinable(i) /\ KindOf[i] = KindOf[j]
            => i = j
    BY DEF Sound, Apart
  <2> QED
    BY <1>0, <1>6, <2>1, <2>2, <2>3, Reread
<1>8. \A i \in Item : t.count[i] = IF s.owner[i] \in vs THEN s.row[i].n ELSE s.count[i]
  BY <1>2, <1>4, <1>5, <1>7
<1>9. \A i \in Item : t.owner[i] = s.owner[i]
  BY <1>1, <1>2, <1>4, <1>7, NoneApart DEF Told
<1>10. t.owner = s.owner
  <2>1. t.owner \in [Item -> Inventory \cup {None}]
    BY <1>7 DEF Sound, StoreType
  <2> QED
    BY <1>0, <1>9, <2>1
<1>11. \A i \in Item : t.count[i] > 0 <=> s.count[i] > 0
  BY <1>1, <1>8, NoneApart DEF Told
<1> QED
  BY <1>6, <1>7, <1>8, <1>10, <1>11

\* A server that starts again has the units its table says.
LEMMA Restarted ==
    ASSUME NEW rows \in [Item -> Row], NEW kept \in Firsts(Bare(rows), Inventory)
    PROVE  /\ Sound(Reload(Bare(rows), Inventory, kept))
           /\ \A i \in Item : Reload(Bare(rows), Inventory, kept).count[i] > 0
                              => Reload(Bare(rows), Inventory, kept).owner[i] # None
           /\ \A k : /\ Tally(Reload(Bare(rows), Inventory, kept).count, k) = InRows(rows, k)
                     /\ InRows(rows, k) \in Nat
<1>1. PICK s : s = Bare(rows)
  OBVIOUS
<1>2. PICK vs : vs = Inventory
  OBVIOUS
<1>3. PICK t : t = Reload(s, vs, kept)
  OBVIOUS
<1>4. /\ s = [list |-> s.list, index |-> s.index, owner |-> s.owner, count |-> s.count, row |-> s.row]
      /\ s.list = [v \in Inventory |-> <<>>] /\ s.index = [i \in Item |-> 0]
      /\ s.owner = [i \in Item |-> None] /\ s.count = [i \in Item |-> 0] /\ s.row = rows
  BY <1>1 DEF Bare
<1>5. s \in StoreType
  <2>1. s.row \in [Item -> [of : Inventory, n : Nat] \cup {None}]
    <3>1. Row \subseteq [of : Inventory, n : Nat] \cup {None}
      BY DEF Row
    <3> HIDE DEF Row
    <3> QED
      BY <1>4, <3>1
  <2>2. s.list \in [Inventory -> Seq(Item)]
    BY <1>4
  <2>3. s.index \in [Item -> Nat] /\ s.count \in [Item -> Nat]
    BY <1>4
  <2>4. s.owner \in [Item -> Inventory \cup {None}]
    BY <1>4
  <2>5. s = [list |-> s.list, index |-> s.index, owner |-> s.owner, count |-> s.count, row |-> s.row]
    BY <1>4
  <2> QED
    BY <2>1, <2>2, <2>3, <2>4, <2>5 DEF StoreType
<1>6. Listing(s)
  BY <1>4 DEF Listing
<1>7. Rows(s, vs) = {i \in Item : rows[i] # None}
  BY <1>2, <1>4 DEF Rows, Row
<1>8. \A i \in Item \ Rows(s, vs) : Told(s, i)
  BY <1>4, <1>7 DEF Told
<1>9. kept \in Firsts(s, vs)
  BY <1>1, <1>2
<1>10. /\ Sound(t)
       /\ \A i \in Item :
             /\ t.owner[i] = IF i \in kept THEN s.row[i].of
                             ELSE IF s.owner[i] \in vs THEN None ELSE s.owner[i]
             /\ t.count[i] = IF i \in kept THEN UnitsOf(s.row, StackOf(s, vs, i))
                             ELSE IF i \in Rows(s, vs) \/ s.owner[i] \in vs THEN 0 ELSE s.count[i]
  <2>1. vs \in SUBSET Inventory /\ s.row \in [Item -> Row]
    BY <1>2, <1>4
  <2>2. \A i \in Item : s.owner[i] = None
    BY <1>4
  <2>3. \A i \in Rows(s, vs) : s.owner[i] \in vs \cup {None}
    BY <1>7, <2>2
  <2>4. \A i \in Item \ Rows(s, vs) : s.owner[i] \notin vs => Told(s, i)
    BY <1>8
  <2>5. \A i, j \in Item :
            /\ s.owner[i] \notin vs \cup {None} /\ s.owner[i] = s.owner[j]
            /\ IsJoinable(i) /\ KindOf[i] = KindOf[j]
            => i = j
    BY <2>2
  <2> QED
    BY <1>3, <1>5, <1>6, <1>9, <2>1, <2>3, <2>4, <2>5, Reread
<1>11. \A i \in Item : t.count[i] = IF i \in kept THEN UnitsOf(rows, StackOf(s, vs, i)) ELSE 0
  BY <1>4, <1>10
<1>12. \A i \in kept : i \in Item /\ t.owner[i] # None
  <2>1. \A i \in kept : i \in Rows(s, vs)
    BY <1>9 DEF Firsts
  <2>2. \A i \in kept : i \in Item /\ s.row[i].of \in Inventory
    BY <1>2, <2>1 DEF Rows
  <2> QED
    BY <1>10, <2>2, NoneApart
<1>13. \A i \in Item : t.count[i] > 0 => t.owner[i] # None
  BY <1>11, <1>12
<1>14. ASSUME NEW k
       PROVE  Tally(t.count, k) = InRows(rows, k) /\ InRows(rows, k) \in Nat
  <2>1. PICK S : S = {i \in Item : KindOf[i] = k}
    OBVIOUS
  <2>2. PICK R : R = {i \in Item : KindOf[i] = k /\ rows[i] # None}
    OBVIOUS
  <2>3. PICK K : K = {i \in kept : KindOf[i] = k}
    OBVIOUS
  <2>4. /\ K \in SUBSET S /\ R \subseteq Item
        /\ IsFiniteSet(S) /\ IsFiniteSet(R) /\ IsFiniteSet(K)
    BY <1>12, <2>1, <2>2, <2>3, ItemAssumption, FS_Subset
  <2>5. \A i \in Item : rows[i] # None => rows[i].n \in Nat
    BY DEF Row
  <2>6. PICK f : f = [i \in Item |-> IF rows[i] = None THEN 0 ELSE rows[i].n]
    OBVIOUS
  <2>7. f \in [Item -> Nat] /\ \A i \in Item : rows[i] # None => f[i] = rows[i].n
    BY <2>5, <2>6
  <2>8. PICK part : part = [i \in K |-> StackOf(s, vs, i)]
    OBVIOUS
  <2>9. ASSUME NEW i \in K
        PROVE  /\ part[i] \subseteq R /\ part[i] = StackOf(s, vs, i)
               /\ \A j \in part[i] : Joins(s, j, i)
    BY <1>7, <1>12, <2>2, <2>3, <2>8 DEF StackOf, Joins
  <2>10. part \in [K -> SUBSET R]
    BY <2>8, <2>9
  <2>11. ASSUME NEW i \in K, NEW j \in K, NEW x \in part[i] \cap part[j]
         PROVE  i = j
    <3>1. x \in Rows(s, vs) /\ Joins(s, x, i) /\ Joins(s, x, j) /\ i \in kept /\ j \in kept
      BY <2>3, <2>9 DEF StackOf
    <3> QED
      BY <1>9, <3>1 DEF Firsts
  <2>12. \A i, j \in K : i # j => part[i] \cap part[j] = {}
    BY <2>11
  <2>13. UNION {part[i] : i \in K} = R
    <3>1. ASSUME NEW x \in R
          PROVE  \E i \in K : x \in part[i]
      <4>1. x \in Rows(s, vs) /\ KindOf[x] = k
        BY <1>7, <2>2
      <4>2. PICK i \in kept : Joins(s, x, i)
        BY <1>9, <4>1 DEF Firsts
      <4>3. i \in K
        BY <2>3, <4>1, <4>2 DEF Joins
      <4> QED
        BY <2>9, <4>1, <4>2, <4>3 DEF StackOf
    <3> QED
      BY <2>9, <3>1
  <2>14. PICK c : c = t.count
    OBVIOUS
  <2>15. c \in [Item -> Nat]
    BY <1>10, <2>14 DEF Sound, StoreType
  <2>16. ASSUME NEW i \in K
         PROVE  c[i] = SumOf(f, part[i])
    <3>1. PICK P : P = part[i]
      OBVIOUS
    <3>2. IsFiniteSet(P) /\ \A j \in P : f[j] = rows[j].n
      BY <2>2, <2>4, <2>7, <2>9, <3>1, FS_Subset
    <3>3. UnitsOf(rows, P) = SumOf(f, P)
      BY <3>2, RowsAdd
    <3>4. c[i] = UnitsOf(rows, P)
      BY <1>11, <1>12, <2>3, <2>9, <2>14, <3>1
    <3> QED
      BY <3>1, <3>3, <3>4
  <2>17. \A i \in R : f[i] \in Nat
    BY <2>4, <2>7
  <2>18. SumOf(c, K) = SumOf(f, R)
    <3>1. SumOf(c, K) = SumOf(f, UNION {part[i] : i \in K})
      BY <2>4, <2>10, <2>12, <2>16, <2>17, SumParts
    <3> QED
      BY <2>13, <3>1
  <2>19. SumOf(c, S) = SumOf(c, K)
    <3>1. \A i \in S : c[i] \in Nat
      BY <2>1, <2>15
    <3>2. \A i \in S \ K : c[i] = 0
      BY <1>11, <2>1, <2>3, <2>14
    <3> QED
      BY <2>4, <3>1, <3>2, SumSame
  <2>20. InRows(rows, k) = SumOf(f, R)
    <3>1. \A i \in R : f[i] = rows[i].n
      BY <2>2, <2>7
    <3>2. UnitsOf(rows, R) = SumOf(f, R)
      BY <2>4, <3>1, RowsAdd
    <3> QED
      BY <2>2, <3>2 DEF InRows
  <2>21. SumOf(f, R) \in Nat
    BY <2>4, <2>17, SumNat
  <2> QED
    BY <2>1, <2>14, <2>18, <2>19, <2>20, <2>21 DEF Tally
<1>15. t = Reload(Bare(rows), Inventory, kept)
  BY <1>1, <1>2, <1>3
<1> QED
  BY <1>10, <1>13, <1>14, <1>15

-----------------------------------------------------------------------------
(* The steps *)

\* The store of a state, by its variables.
LEMMA StoreIs ==
    ASSUME Sound(Store)
    PROVE  /\ owner \in [Item -> Inventory \cup {None}]
           /\ count \in [Item -> Nat]
           /\ \A i \in Item : count[i] = 0 => owner[i] = None
           /\ \A v \in Inventory : \A i \in Listed(v) : i \in Item /\ owner[i] = v
           /\ \A v \in Inventory : \A i \in Item : owner[i] = v => i \in Listed(v)
<1>1. /\ list \in [Inventory -> Seq(Item)]
      /\ owner \in [Item -> Inventory \cup {None}]
      /\ count \in [Item -> Nat]
  BY DEF Sound, StoreType, Store
<1>2. \A i \in Item : count[i] = 0 => owner[i] = None
  BY <1>1 DEF Sound, RowsTell, Told, Store
<1>3. ASSUME NEW v \in Inventory, NEW i \in Listed(v)
      PROVE  i \in Item /\ owner[i] = v
  <2>1. PICK k \in 1..Len(list[v]) : i = list[v][k]
    BY <1>1, <1>3 DEF Listed, ToSet
  <2>2. owner[list[v][k]] = v
    BY DEF Sound, Listing, Store
  <2>3. list[v][k] \in Item
    BY <1>1
  <2> QED
    BY <2>1, <2>2, <2>3
<1>4. ASSUME NEW v \in Inventory, NEW i \in Item, owner[i] = v
      PROVE  i \in Listed(v)
  <2>1. index[i] \in 1..Len(list[v]) /\ list[v][index[i]] = i
    BY <1>4, NoneApart DEF Sound, Listing, Store
  <2> QED
    BY <1>1, <2>1 DEF Listed, ToSet
<1> QED
  BY <1>1, <1>2, <1>3, <1>4

LEMMA LagIs ==
    ASSUME NEW old \in [Item -> Row], NEW new \in [Item -> Row], NEW l \in [Item -> SUBSET Row]
    PROVE  Lag(old, new, l) \in [Item -> SUBSET Row]
<1>1. None \in Row
  BY DEF Row
<1>2. ASSUME NEW i \in Item
      PROVE  Lag(old, new, l)[i] \subseteq Row
  <2>1. l[i] \subseteq Row /\ old[i] \in Row
    OBVIOUS
  <2> HIDE DEF Row
  <2> QED
    BY <1>1, <2>1 DEF Lag
<1> QED
  BY <1>2 DEF Lag

LEMMA StoreHas ==
    ASSUME NEW t, Sound(t), Has(t)
    PROVE  Sound(Store)' /\ owner' = t.owner /\ count' = t.count
<1>1. /\ list' = t.list /\ index' = t.index /\ owner' = t.owner
      /\ count' = t.count /\ row' = t.row
  BY DEF Has
<1>2. (Store \in StoreType)'
  BY <1>1 DEF Sound, StoreType, Store
<1>3. Listing(Store)'
  BY <1>1 DEF Sound, Listing, Store
<1>4. RowsTell(Store)' /\ Apart(Store)'
  BY <1>1 DEF Sound, RowsTell, Told, Apart, Store
<1> QED
  BY <1>1, <1>2, <1>3, <1>4 DEF Sound

LEMMA StoreBecomes ==
    ASSUME IInv, NEW t, Sound(t), Becomes(t)
    PROVE  Sound(Store)' /\ Older' /\ owner' = t.owner /\ count' = t.count
<1>1. Has(t) /\ late' = Lag(row, row', late) /\ row' = t.row
  BY DEF Becomes, Has
<1>2. row \in [Item -> Row]
  <2>1. PICK s : s = Store
    OBVIOUS
  <2>2. Sound(s) /\ s.row = row
    BY <2>1 DEF IInv, Store
  <2> QED
    BY <2>2, RowsAre
<1>3. t.row \in [Item -> Row]
  BY RowsAre
<1>4. Older'
  BY <1>1, <1>2, <1>3, LagIs DEF IInv, Older
<1> QED
  BY <1>1, <1>4, StoreHas

LEMMA StoreStays ==
    ASSUME IInv, UNCHANGED store
    PROVE  Sound(Store)' /\ Older'
<1>1. Sound(Store)'
  BY DEF IInv, Sound, StoreType, Listing, RowsTell, Told, Apart, Store, store
<1>2. Older'
  BY DEF IInv, Older, store
<1> QED
  BY <1>1, <1>2

\* Steps that leave alone what is on the ground or in a hand.
LEMMA Aside ==
    ASSUME IInv, NEW t, Sound(t), Becomes(t), UNCHANGED <<registered, inWorld, at, hand>>,
           \A j \in Item : j \in registered \/ Held(j) =>
               t.owner[j] = owner[j] /\ (t.count[j] > 0 <=> count[j] > 0),
           \A j \in Item : t.count[j] > 0 /\ t.owner[j] = None => j \in registered \/ Held(j)
    PROVE  IInv'
<1>1. Sound(Store)' /\ Older' /\ owner' = t.owner /\ count' = t.count
  BY StoreBecomes
<1>2. Types'
  BY DEF IInv, Types
<1>3. Hands'
  <2>1. \A p \in Player : at[p] \in {"popped", "won"} => hand[p] \in Item /\ Held(hand[p])
    BY DEF IInv, Hands, Held
  <2> QED
    BY <1>1, <2>1 DEF IInv, Hands
<1>4. Ground'
  BY <1>1 DEF IInv, Ground, Types
<1>5. Somewhere'
  BY <1>1 DEF Somewhere, Held
<1>6. Visible'
  BY DEF IInv, Visible
<1> QED
  BY <1>1, <1>2, <1>3, <1>4, <1>5, <1>6 DEF IInv

\* What Pop returns is nobody else's.
LEMMA PartOut ==
    ASSUME IInv, NEW v \in Inventory, NEW i \in Listed(v), NEW n \in 1..count[i],
           NEW part \in Parts(i, n)
    PROVE  /\ part \in Item /\ n \in Nat \ {0} /\ i \in Item
           /\ part \notin registered /\ ~Held(part)
           /\ Sound(Pop(Store, v, i, n, part))
           /\ But(Store, Pop(Store, v, i, n, part), part)
           /\ Pop(Store, v, i, n, part).owner[part] = None
           /\ Pop(Store, v, i, n, part).count[part] = n
<1>1. /\ i \in Item /\ owner[i] = v /\ owner[i] # None
      /\ owner \in [Item -> Inventory \cup {None}] /\ count \in [Item -> Nat]
      /\ n \in Nat \ {0} /\ n <= count[i]
  BY StoreIs, NoneApart DEF IInv
<1>2. Store.owner = owner /\ Store.count = count /\ Sound(Store)
  BY DEF Store, IInv
<1>3. /\ part \in Item /\ part \notin registered /\ ~Held(part)
      /\ count[i] > n => owner[part] = None /\ count[part] = 0
      /\ count[i] <= n => part = i
  <2>1. CASE count[i] > n
    <3>1. part \in Item /\ count[part] = 0
      BY <2>1 DEF Parts, Free
    <3>2. owner[part] = None
      BY <1>2, <3>1, StoreIs
    <3> QED
      BY <1>1, <2>1, <3>1, <3>2 DEF IInv, Hands, Ground, Held
  <2>2. CASE ~(count[i] > n)
    <3>1. part = i
      BY <2>2 DEF Parts
    <3> QED
      BY <1>1, <2>2, <3>1 DEF IInv, Hands, Ground, Held
  <2> QED
    BY <2>1, <2>2
<1>4. PICK s : s = Store
  OBVIOUS
<1>5. /\ Sound(s) /\ s.owner[i] = v /\ n \in 1..s.count[i]
      /\ s.count[i] > n => s.owner[part] = None /\ s.count[part] = 0
      /\ s.count[i] <= n => part = i
  <2>1. Sound(s)
    BY <1>2, <1>4
  <2>2. s.owner = owner /\ s.count = count
    BY <1>2, <1>4
  <2> QED
    BY <1>1, <1>3, <2>1, <2>2
<1>6. /\ Sound(Pop(s, v, i, n, part))
      /\ But(s, Pop(s, v, i, n, part), part)
      /\ Pop(s, v, i, n, part).owner[part] = None
      /\ Pop(s, v, i, n, part).count[part] = n
  BY <1>1, <1>3, <1>5, Popped
<1> QED
  BY <1>1, <1>3, <1>4, <1>6

LEMMA DropItemKeeps ==
    ASSUME IInv, NEW p \in Player, DropItem(p)
    PROVE  IInv'
<1> SUFFICES ASSUME NEW i \in Listed(Bag(p)), NEW n \in 1..count[i], NEW part \in Parts(i, n),
                    Idle(p), Becomes(Pop(Store, Bag(p), i, n, part)),
                    Goes(p, "popped", part), UNCHANGED <<registered, inWorld, due>>
             PROVE  IInv'
  BY DEF DropItem
<1>2. Bag(p) \in Inventory
  BY DEF Bag, Inventory
<1>3. PICK t : t = Pop(Store, Bag(p), i, n, part)
  OBVIOUS
<1>4. /\ part \in Item /\ n \in Nat \ {0} /\ part \notin registered /\ ~Held(part)
      /\ Sound(t) /\ But(Store, t, part) /\ t.owner[part] = None /\ t.count[part] = n
  BY <1>2, <1>3, PartOut
<1>5. Sound(Store)' /\ Older' /\ owner' = t.owner /\ count' = t.count
  BY <1>3, <1>4, StoreBecomes
<1>6. /\ owner'[part] = None /\ count'[part] > 0
      /\ \A j \in Item \ {part} : owner'[j] = owner[j] /\ (count'[j] > 0 <=> count[j] > 0)
  BY <1>4, <1>5 DEF But, Store
<1>7. /\ at[p] = "idle" /\ UNCHANGED <<registered, inWorld>>
      /\ at' = [at EXCEPT ![p] = "popped"] /\ hand' = [hand EXCEPT ![p] = part]
  BY DEF Idle, Goes
<1>8. Types'
  BY <1>4, <1>7 DEF IInv, Types
<1>9. /\ at'[p] = "popped" /\ hand'[p] = part
      /\ \A q \in Player \ {p} : at'[q] = at[q] /\ hand'[q] = hand[q]
  BY <1>7 DEF IInv, Types
<1>10. \A q \in Player \ {p} : at[q] \in {"popped", "won"} => hand[q] \in Item \ {part}
  BY <1>4 DEF IInv, Hands, Held
<1>11. Hands'
  BY <1>4, <1>6, <1>7, <1>9, <1>10 DEF IInv, Hands
<1>12. Ground'
  BY <1>4, <1>6, <1>7 DEF IInv, Ground, Types
<1>13. Somewhere'
  <2>1. \A j \in Item : Held(j) => Held(j)'
    BY <1>7, <1>9 DEF Held
  <2>2. Held(part)'
    BY <1>9 DEF Held
  <2> QED
    BY <1>6, <1>7, <2>1, <2>2 DEF IInv, Somewhere
<1>14. Visible'
  BY <1>7, <1>9 DEF IInv, Visible
<1> QED
  BY <1>5, <1>8, <1>11, <1>12, <1>13, <1>14 DEF IInv

LEMMA RegisterItemKeeps ==
    ASSUME IInv, NEW p \in Player, RegisterItem(p)
    PROVE  IInv'
<1>1. /\ at[p] = "popped" /\ UNCHANGED <<store, inWorld>>
      /\ registered' = registered \cup {hand[p]}
      /\ at' = [at EXCEPT ![p] = "listed"] /\ hand' = [hand EXCEPT ![p] = hand[p]]
  BY DEF RegisterItem, Goes
<1>2. Sound(Store)' /\ Older' /\ UNCHANGED <<owner, count>>
  BY <1>1, StoreStays DEF IInv, store
<1>3. /\ at'[p] = "listed" /\ hand' = hand /\ hand[p] \in Item
      /\ \A q \in Player \ {p} : at'[q] = at[q]
  BY <1>1 DEF IInv, Types, Hands
<1>4. Types'
  BY <1>1, <1>3 DEF IInv, Types
<1>5. Hands'
  BY <1>1, <1>2, <1>3 DEF IInv, Hands
<1>6. Ground'
  BY <1>1, <1>2 DEF IInv, Ground, Hands
<1>7. Somewhere'
  <2>1. \A j \in Item : Held(j) => j = hand[p] \/ Held(j)'
    BY <1>3 DEF Held
  <2> QED
    BY <1>1, <1>2, <2>1 DEF IInv, Somewhere
<1>8. Visible'
  BY <1>1, <1>3 DEF IInv, Visible
<1> QED
  BY <1>2, <1>4, <1>5, <1>6, <1>7, <1>8 DEF IInv

LEMMA AddObjectToWorldKeeps ==
    ASSUME IInv, NEW p \in Player, AddObjectToWorld(p)
    PROVE  IInv'
<1>1. /\ at[p] = "listed" /\ UNCHANGED <<store, registered>>
      /\ inWorld' = inWorld \cup {hand[p]}
      /\ at' = [at EXCEPT ![p] = "idle"] /\ hand' = [hand EXCEPT ![p] = None]
  BY DEF AddObjectToWorld, Goes
<1>2. Sound(Store)' /\ Older' /\ UNCHANGED <<owner, count>>
  BY <1>1, StoreStays DEF IInv, store
<1>3. /\ at'[p] = "idle" /\ hand[p] \in Item
      /\ \A q \in Player \ {p} : at'[q] = at[q] /\ hand'[q] = hand[q]
  BY <1>1 DEF IInv, Types, Hands
<1>4. Types'
  BY <1>1, <1>3 DEF IInv, Types
<1>5. Hands'
  BY <1>1, <1>2, <1>3 DEF IInv, Hands
<1>6. Ground'
  BY <1>1, <1>2 DEF IInv, Ground
<1>7. Somewhere'
  <2>1. \A j \in Item : Held(j) => Held(j)'
    BY <1>1, <1>3 DEF Held
  <2> QED
    BY <1>1, <1>2, <2>1 DEF IInv, Somewhere
<1>8. Visible'
  BY <1>1, <1>3 DEF IInv, Visible
<1> QED
  BY <1>2, <1>4, <1>5, <1>6, <1>7, <1>8 DEF IInv

LEMMA TakeItemKeeps ==
    ASSUME IInv, NEW p \in Player, TakeItem(p)
    PROVE  IInv'
<1>1. PICK i \in inWorld :
          /\ at[p] = "idle" /\ UNCHANGED <<store, registered, inWorld>>
          /\ at' = [at EXCEPT ![p] = "found"] /\ hand' = [hand EXCEPT ![p] = i]
  BY DEF TakeItem, Goes, Idle
<1>2. Sound(Store)' /\ Older' /\ UNCHANGED <<owner, count>>
  BY <1>1, StoreStays DEF IInv, store
<1>3. /\ at'[p] = "found" /\ hand'[p] = i /\ i \in Item
      /\ \A q \in Player \ {p} : at'[q] = at[q] /\ hand'[q] = hand[q]
  BY <1>1 DEF IInv, Types
<1>4. Types'
  BY <1>1, <1>3 DEF IInv, Types
<1>5. Hands'
  BY <1>1, <1>2, <1>3 DEF IInv, Hands
<1>6. Ground'
  BY <1>1, <1>2 DEF IInv, Ground
<1>7. Somewhere'
  <2>1. \A j \in Item : Held(j) => Held(j)'
    BY <1>1, <1>3 DEF Held
  <2> QED
    BY <1>1, <1>2, <2>1 DEF IInv, Somewhere
<1>8. Visible'
  BY <1>1, <1>3 DEF IInv, Visible
<1> QED
  BY <1>2, <1>4, <1>5, <1>6, <1>7, <1>8 DEF IInv

LEMMA UnregisterItemKeeps ==
    ASSUME IInv, NEW p \in Player, UnregisterItem(p)
    PROVE  IInv'
<1>1. /\ at[p] = "found" /\ UNCHANGED <<store, inWorld>>
      /\ registered' = registered \ {hand[p]}
      /\ hand[p] \in registered => Goes(p, "won", hand[p])
      /\ hand[p] \notin registered => Goes(p, "idle", None)
  BY DEF UnregisterItem
<1>2. Sound(Store)' /\ Older' /\ UNCHANGED <<owner, count>>
  BY <1>1, StoreStays DEF IInv, store
<1>3. /\ \A q \in Player \ {p} : at'[q] = at[q] /\ hand'[q] = hand[q]
      /\ hand[p] \in registered => at'[p] = "won" /\ hand'[p] = hand[p]
      /\ hand[p] \notin registered => at'[p] = "idle" /\ hand'[p] = None
      /\ hand[p] \in Item
  BY <1>1 DEF IInv, Types, Hands, Goes
<1>4. Types'
  BY <1>1, <1>3 DEF IInv, Types, Goes
<1>5. Hands'
  BY <1>1, <1>2, <1>3 DEF IInv, Hands, Ground
<1>6. Ground'
  BY <1>1, <1>2 DEF IInv, Ground
<1>7. Somewhere'
  <2>1. \A j \in Item : Held(j) => Held(j)'
    BY <1>1, <1>3 DEF Held
  <2>2. \A j \in Item : j = hand[p] /\ j \in registered => Held(j)'
    BY <1>3 DEF Held
  <2> QED
    BY <1>1, <1>2, <2>1, <2>2 DEF IInv, Somewhere
<1>8. Visible'
  BY <1>1, <1>3 DEF IInv, Visible
<1> QED
  BY <1>2, <1>4, <1>5, <1>6, <1>7, <1>8 DEF IInv

LEMMA TakeInKeeps ==
    ASSUME IInv, NEW p \in Player, TakeIn(p)
    PROVE  IInv'
<1>0. PICK q \in Player :
          /\ at[p] = "won"
          /\ inWorld' = inWorld \ {hand[p]}
          /\ Becomes(PushItem(Store, q, hand[p], count[hand[p]]))
          /\ Goes(p, "idle", None)
          /\ UNCHANGED <<registered, due>>
  BY ItemAssumption DEF TakeIn
<1>1. PICK i : i = hand[p]
  OBVIOUS
<1>2. i \in Item /\ owner[i] = None /\ count[i] > 0 /\ i \notin registered
  BY <1>0, <1>1 DEF IInv, Hands
<1>3. Bag(q) \in Inventory /\ Bag(q) # None
  BY NoneApart DEF Bag, Inventory
<1>4. count \in [Item -> Nat] /\ Store.owner = owner /\ Store.count = count
  BY StoreIs DEF IInv, Store
<1>5. PICK s : s = Store
  OBVIOUS
<1>6. PICK n : n = count[i]
  OBVIOUS
<1>7. PICK t : t = Push(s, Bag(q), i, n)
  OBVIOUS
<1>8. PushItem(Store, q, hand[p], count[hand[p]]) = t
  BY <1>1, <1>2, <1>3, <1>4, <1>5, <1>6, <1>7 DEF PushItem
<1>9. Sound(s)
  BY <1>5 DEF IInv
<1>10. s.owner[i] = None /\ s.count[i] > 0 /\ n \in Nat \ {0}
  BY <1>2, <1>4, <1>5, <1>6
<1>11. /\ Sound(t) /\ But(s, t, i)
       /\ t.owner[i] = Bag(q) \/ (t.owner[i] = None /\ t.count[i] = 0)
  <2>1. /\ Sound(Push(s, Bag(q), i, n))
        /\ But(s, Push(s, Bag(q), i, n), i)
        /\ \/ Push(s, Bag(q), i, n).owner[i] = Bag(q)
           \/ Push(s, Bag(q), i, n).owner[i] = None /\ Push(s, Bag(q), i, n).count[i] = 0
    BY <1>2, <1>3, <1>9, <1>10, Pushed
  <2> QED
    BY <1>7, <2>1
<1>12. Sound(Store)' /\ Older' /\ owner' = t.owner /\ count' = t.count
  BY <1>0, <1>8, <1>11, StoreBecomes
<1>13. /\ \A j \in Item \ {i} : owner'[j] = owner[j] /\ (count'[j] > 0 <=> count[j] > 0)
       /\ count'[i] > 0 => owner'[i] # None
  BY <1>3, <1>4, <1>5, <1>11, <1>12 DEF But
<1>14. /\ at' = [at EXCEPT ![p] = "idle"] /\ hand' = [hand EXCEPT ![p] = None]
       /\ UNCHANGED registered
  BY <1>0 DEF Goes
<1>15. at'[p] = "idle" /\ \A r \in Player \ {p} : at'[r] = at[r] /\ hand'[r] = hand[r]
  BY <1>14 DEF IInv, Types
<1>16. Types'
  BY <1>0, <1>14 DEF IInv, Types
<1>17. Hands'
  <2>1. \A r \in Player \ {p} : at[r] \in {"popped", "won"} => hand[r] \in Item \ {i}
    BY <1>0, <1>1 DEF IInv, Hands
  <2> QED
    BY <1>13, <1>14, <1>15, <2>1 DEF IInv, Hands
<1>18. Ground'
  BY <1>2, <1>13, <1>14 DEF IInv, Ground, Types
<1>19. Somewhere'
  <2>1. \A j \in Item \ {i} : Held(j) => Held(j)'
    BY <1>1, <1>15 DEF Held
  <2> QED
    BY <1>13, <1>14, <2>1 DEF IInv, Somewhere
<1>20. Visible'
  BY <1>0, <1>1, <1>2, <1>14, <1>15 DEF IInv, Visible
<1> QED
  BY <1>12, <1>16, <1>17, <1>18, <1>19, <1>20 DEF IInv

\* An item joins the list of w after it left that of v.
LEMMA Carried ==
    ASSUME IInv, NEW v \in Inventory, NEW w \in Inventory, NEW i \in Listed(v), NEW n \in 1..count[i],
           NEW part \in Parts(i, n),
           NEW t, t = Push(Pop(Store, v, i, n, part), w, part, n)
    PROVE  /\ Sound(t) /\ But(Store, t, part)
           /\ t.owner[part] # None \/ t.count[part] = 0
<1>1. PICK s : s = Pop(Store, v, i, n, part)
  OBVIOUS
<1>2. /\ part \in Item /\ n \in Nat \ {0}
      /\ Sound(s) /\ But(Store, s, part) /\ s.owner[part] = None /\ s.count[part] = n
  BY <1>1, PartOut
<1>3. s.count[part] > 0
  BY <1>2
<1>4. PICK u : u = Push(s, w, part, n)
  OBVIOUS
<1>5. /\ Sound(u) /\ But(s, u, part)
      /\ u.owner[part] = w \/ (u.owner[part] = None /\ u.count[part] = 0)
  <2>1. /\ Sound(Push(s, w, part, n))
        /\ But(s, Push(s, w, part, n), part)
        /\ \/ Push(s, w, part, n).owner[part] = w
           \/ Push(s, w, part, n).owner[part] = None /\ Push(s, w, part, n).count[part] = 0
    BY <1>2, <1>3, Pushed
  <2> QED
    BY <1>4, <2>1
<1>6. But(Store, u, part)
  BY <1>2, <1>5 DEF But
<1> QED
  BY <1>1, <1>4, <1>5, <1>6, NoneApart

\* A step that changes the place of one item only, which nobody holds.
LEMMA OneMoves ==
    ASSUME IInv, NEW part \in Item, part \notin registered, ~Held(part),
           NEW t, Sound(t), Becomes(t), UNCHANGED <<registered, inWorld, at, hand>>,
           But(Store, t, part), t.owner[part] # None \/ t.count[part] = 0
    PROVE  IInv'
<1>1. /\ Store.owner = owner /\ Store.count = count
      /\ t.count \in [Item -> Nat]
  BY DEF Store, Sound, StoreType
<1>2. \A j \in Item : j \in registered \/ Held(j) =>
          t.owner[j] = owner[j] /\ (t.count[j] > 0 <=> count[j] > 0)
  BY <1>1 DEF But
<1>3. \A j \in Item : t.count[j] > 0 /\ t.owner[j] = None => j \in registered \/ Held(j)
  BY <1>1 DEF But, IInv, Somewhere
<1> QED
  BY <1>2, <1>3, Aside

LEMMA MoveKeeps ==
    ASSUME IInv, NEW p \in Player, NEW v \in Inventory, NEW w \in Inventory, Move(p, v, w)
    PROVE  IInv'
<1> SUFFICES ASSUME NEW i \in Listed(v), NEW n \in 1..count[i], NEW part \in Parts(i, n),
                    NEW s, s = Push(Pop(Store, v, i, n, part), w, part, n),
                    Becomes(IF part # i THEN DBUpdate(s, i) ELSE s),
                    UNCHANGED <<registered, inWorld, at, hand, due>>
             PROVE  IInv'
  BY DEF Move
<1>1. part \in Item /\ i \in Item /\ part \notin registered /\ ~Held(part)
  BY PartOut
<1>2. /\ Sound(s) /\ But(Store, s, part)
      /\ s.owner[part] # None \/ s.count[part] = 0
  BY Carried
<1>3. PICK t : t = IF part # i THEN DBUpdate(s, i) ELSE s
  OBVIOUS
<1>4. Sound(t) /\ t.owner = s.owner /\ t.count = s.count
  BY <1>1, <1>2, <1>3, Rewritten
<1>5. But(Store, t, part) /\ (t.owner[part] # None \/ t.count[part] = 0)
  BY <1>2, <1>4 DEF But
<1>6. Becomes(t)
  BY <1>3
<1> QED
  BY <1>1, <1>4, <1>5, <1>6, OneMoves

\* An item of an inventory is in no hand and not on the ground.
LEMMA ListedAside ==
    ASSUME IInv, NEW v \in Inventory, NEW i \in Listed(v)
    PROVE  /\ i \in Item /\ owner[i] = v /\ owner[i] # None
           /\ i \notin registered /\ ~Held(i)
<1>1. i \in Item /\ owner[i] = v /\ owner[i] # None
  BY StoreIs, NoneApart DEF IInv
<1> QED
  BY <1>1 DEF IInv, Hands, Ground, Held

LEMMA GiveItemKeeps ==
    ASSUME IInv, NEW p \in Player, GiveItem(p)
    PROVE  IInv'
<1> SUFFICES ASSUME NEW q \in Player \ {p}, NEW i \in Listed(Bag(p)), NEW n \in 1..count[i],
                    NEW part \in Parts(i, n),
                    Becomes(Save(Save(PushItem(Pop(Store, Bag(p), i, n, part), q, part, n), p), q)),
                    UNCHANGED <<registered, inWorld, at, hand, due>>
             PROVE  IInv'
  BY DEF GiveItem
<1>1. Bag(p) \in Inventory /\ Bag(q) \in Inventory /\ Bag(q) # None
  BY NoneApart DEF Bag, Inventory
<1>2. /\ part \in Item /\ part \notin registered /\ ~Held(part)
      /\ Pop(Store, Bag(p), i, n, part).owner[part] = None
  BY <1>1, PartOut
<1>3. PICK s : s = Push(Pop(Store, Bag(p), i, n, part), Bag(q), part, n)
  OBVIOUS
<1>4. PushItem(Pop(Store, Bag(p), i, n, part), q, part, n) = s
  BY <1>1, <1>2, <1>3 DEF PushItem
<1>5. /\ Sound(s) /\ But(Store, s, part)
      /\ s.owner[part] # None \/ s.count[part] = 0
  BY <1>1, <1>3, Carried
<1>6. PICK t : t = Save(s, p)
  OBVIOUS
<1>7. Sound(t) /\ t.owner = s.owner /\ t.count = s.count
  BY <1>5, <1>6, Saved
<1>8. PICK u : u = Save(t, q)
  OBVIOUS
<1>9. Sound(u) /\ u.owner = s.owner /\ u.count = s.count
  BY <1>7, <1>8, Saved
<1>10. But(Store, u, part) /\ (u.owner[part] # None \/ u.count[part] = 0)
  BY <1>5, <1>9 DEF But
<1>11. Becomes(u)
  BY <1>4, <1>6, <1>8
<1> QED
  BY <1>2, <1>9, <1>10, <1>11, OneMoves

LEMMA EraseItemKeeps ==
    ASSUME IInv, NEW p \in Player, EraseItem(p)
    PROVE  IInv'
<1> SUFFICES ASSUME NEW i \in Listed(Bag(p)), NEW n \in 1..count[i],
                    Becomes(IF count[i] > n THEN SetCount(Store, Bag(p), i, count[i] - n)
                            ELSE GiveUp(pop(Store, Bag(p), i), i)),
                    UNCHANGED <<registered, inWorld, at, hand>>
             PROVE  IInv'
  BY DEF EraseItem
<1>1. Bag(p) \in Inventory
  BY DEF Bag, Inventory
<1>2. /\ i \in Item /\ owner[i] = Bag(p) /\ owner[i] # None
      /\ i \notin registered /\ ~Held(i)
  BY <1>1, ListedAside
<1>3. count \in [Item -> Nat] /\ owner \in [Item -> Inventory \cup {None}]
  BY StoreIs DEF IInv
<1>4. Sound(Store) /\ Store.owner = owner /\ Store.count = count
  BY DEF IInv, Store
<1>5. PICK s : s = Store
  OBVIOUS
<1>6. Sound(s) /\ s.owner[i] = Bag(p)
  BY <1>2, <1>4, <1>5
<1>7. CASE count[i] > n
  <2>1. PICK m : m = count[i] - n
    OBVIOUS
  <2>2. m \in Nat \ {0}
    BY <1>2, <1>3, <1>7, <2>1
  <2>3. PICK t : t = SetCount(s, Bag(p), i, m)
    OBVIOUS
  <2>4. Sound(t) /\ t.owner = s.owner /\ t.count = [s.count EXCEPT ![i] = m]
    BY <1>1, <1>2, <1>6, <2>2, <2>3, Recounted
  <2>5. Becomes(t)
    BY <1>5, <1>7, <2>1, <2>3
  <2>6. t.owner = owner /\ t.count = [count EXCEPT ![i] = m]
    BY <1>4, <1>5, <2>4
  <2>7. But(Store, t, i) /\ t.owner[i] # None
    BY <1>2, <1>3, <1>4, <2>6 DEF But
  <2> QED
    BY <1>2, <2>4, <2>5, <2>7, OneMoves
<1>8. CASE ~(count[i] > n)
  <2>1. PICK t : t = pop(s, Bag(p), i)
    OBVIOUS
  <2>2. Sound(t) /\ t.owner = [s.owner EXCEPT ![i] = None] /\ t.count = s.count
    BY <1>1, <1>2, <1>6, <2>1, TakenOut
  <2>3. t.owner = [owner EXCEPT ![i] = None] /\ t.count = count
    BY <1>4, <1>5, <2>2
  <2>4. t.owner[i] = None
    BY <1>2, <1>3, <2>3
  <2>5. PICK u : u = GiveUp(t, i)
    OBVIOUS
  <2>6. Sound(u) /\ u.owner = t.owner /\ u.count = [t.count EXCEPT ![i] = 0]
    BY <1>2, <2>2, <2>4, <2>5, GivenUp
  <2>7. Becomes(u)
    BY <1>5, <1>8, <2>1, <2>5
  <2>8. But(Store, u, i) /\ u.count[i] = 0
    BY <1>2, <1>3, <1>4, <2>3, <2>6 DEF But
  <2> QED
    BY <1>2, <2>6, <2>7, <2>8, OneMoves
<1> QED
  BY <1>7, <1>8

LEMMA ReloginKeeps ==
    ASSUME IInv, NEW p \in Player, Relogin(p)
    PROVE  IInv'
<1>1. PICK s : s = Store
  OBVIOUS
<1>2. Sound(s) /\ s.owner = owner /\ s.count = count
  BY <1>1 DEF IInv, Store
<1>3. PICK t : t = Save(s, p)
  OBVIOUS
<1>4. Sound(t) /\ t.owner = owner /\ t.count = count
  BY <1>2, <1>3, Saved
<1>5. PICK vs : vs = {Bag(p), Storage(p)}
  OBVIOUS
<1>6. vs \in SUBSET Inventory
  BY <1>5 DEF Bag, Storage, Inventory
<1>7. /\ UNCHANGED <<registered, inWorld, at, hand>>
      /\ Becomes(t) \/ \E kept \in Firsts(t, vs) : Becomes(Reload(t, vs, kept))
  BY <1>1, <1>3, <1>5 DEF Relogin
<1>8. ASSUME NEW u, Sound(u), Becomes(u), u.owner = t.owner,
             \A i \in Item : u.count[i] > 0 <=> t.count[i] > 0
      PROVE  IInv'
  <2>1. \A j \in Item : u.owner[j] = owner[j] /\ (u.count[j] > 0 <=> count[j] > 0)
    BY <1>4, <1>8
  <2>2. \A j \in Item : u.count[j] > 0 /\ u.owner[j] = None => j \in registered \/ Held(j)
    BY <2>1 DEF IInv, Somewhere
  <2> QED
    BY <1>7, <1>8, <2>1, <2>2, Aside
<1>9. CASE Becomes(t)
  BY <1>4, <1>8, <1>9
<1>10. ASSUME NEW kept \in Firsts(t, vs), Becomes(Reload(t, vs, kept))
       PROVE  IInv'
  <2>1. PICK u : u = Reload(t, vs, kept)
    OBVIOUS
  <2>2. Sound(u) /\ u.owner = t.owner /\ \A i \in Item : u.count[i] > 0 <=> t.count[i] > 0
    BY <1>4, <1>6, <2>1, Reloaded
  <2>3. Becomes(u)
    BY <1>10, <2>1
  <2> QED
    BY <1>8, <2>2, <2>3
<1> QED
  BY <1>7, <1>9, <1>10

LEMMA MonsterDropKeeps ==
    ASSUME IInv, NEW k \in Kind, MonsterDrop(k)
    PROVE  IInv'
<1> SUFFICES ASSUME NEW i \in Free(k), NEW n \in (IF IsJoinable(i) THEN 1..MaxUnits ELSE {1}),
                    Becomes([Store EXCEPT !.count[i] = n, !.owner[i] = None, !.row[i] = None]),
                    registered' = registered \cup {i}, inWorld' = inWorld \cup {i},
                    UNCHANGED <<at, hand>>
             PROVE  IInv'
  BY DEF MonsterDrop
<1>1. /\ n \in Nat \ {0} /\ i \in Item /\ count[i] = 0 /\ i \notin inWorld
      /\ \A p \in Player : hand[p] # i
  <2>1. CASE IsJoinable(i)
    BY <2>1, ItemAssumption DEF Free
  <2>2. CASE ~IsJoinable(i)
    BY <2>2 DEF Free
  <2> QED
    BY <2>1, <2>2
<1>2. PICK s : s = Store
  OBVIOUS
<1>3. Sound(s) /\ s.owner = owner /\ s.count = count
  BY <1>2 DEF IInv, Store
<1>4. owner[i] = None /\ count \in [Item -> Nat]
  BY <1>1, StoreIs DEF IInv
<1>5. s.owner[i] = None /\ s.row[i] = None
  BY <1>1, <1>3, <1>4 DEF Sound, RowsTell, Told
<1>6. PICK t : t = [s EXCEPT !.count[i] = n]
  OBVIOUS
<1>7. Sound(t) /\ t.owner = s.owner /\ t.count = [s.count EXCEPT ![i] = n]
  BY <1>1, <1>3, <1>5, <1>6, Loose
<1>8. [s EXCEPT !.count[i] = n, !.owner[i] = None, !.row[i] = None] = t
  <2>1. /\ s = [list |-> s.list, index |-> s.index, owner |-> s.owner, count |-> s.count, row |-> s.row]
        /\ s.owner \in [Item -> Inventory \cup {None}]
        /\ s.row \in [Item -> [of : Inventory, n : Nat] \cup {None}]
    BY <1>3 DEF Sound, StoreType
  <2>2. [s.owner EXCEPT ![i] = None] = s.owner
    BY <1>5, <2>1
  <2>3. [s.row EXCEPT ![i] = None] = s.row
    BY <1>5, <2>1
  <2> QED
    BY <1>6, <2>1, <2>2, <2>3
<1>9. Becomes(t)
  BY <1>2, <1>8
<1>10. Sound(Store)' /\ Older' /\ owner' = owner /\ count' = [count EXCEPT ![i] = n]
  BY <1>3, <1>7, <1>9, StoreBecomes
<1>11. count'[i] > 0 /\ \A j \in Item \ {i} : count'[j] = count[j]
  BY <1>1, <1>4, <1>10
<1>12. Types'
  BY <1>1 DEF IInv, Types
<1>13. Hands'
  BY <1>1, <1>10, <1>11 DEF IInv, Hands
<1>14. Ground'
  BY <1>4, <1>10, <1>11 DEF IInv, Ground, Types
<1>15. Somewhere'
  <2>1. \A j \in Item : Held(j) => Held(j)'
    BY DEF Held
  <2> QED
    BY <1>10, <1>11, <2>1 DEF IInv, Somewhere
<1>16. Visible'
  BY DEF IInv, Visible
<1> QED
  BY <1>10, <1>12, <1>13, <1>14, <1>15, <1>16 DEF IInv

LEMMA CollectorUpdateKeeps ==
    ASSUME IInv, CollectorUpdate
    PROVE  IInv'
<1>1. PICK i \in registered :
          /\ inWorld' = inWorld \ {i}
          /\ registered' = registered \ {i}
          /\ Becomes(GiveUp(Store, i))
          /\ UNCHANGED <<at, hand>>
  BY DEF CollectorUpdate
<1>2. i \in Item /\ owner[i] = None /\ count[i] > 0 /\ ~Held(i)
  BY DEF IInv, Types, Ground, Hands, Held
<1>3. PICK s : s = Store
  OBVIOUS
<1>4. Sound(s) /\ s.owner = owner /\ s.count = count
  BY <1>3 DEF IInv, Store
<1>5. PICK t : t = GiveUp(s, i)
  OBVIOUS
<1>6. Sound(t) /\ t.owner = s.owner /\ t.count = [s.count EXCEPT ![i] = 0]
  BY <1>2, <1>4, <1>5, GivenUp
<1>7. Becomes(t)
  BY <1>1, <1>3, <1>5
<1>8. Sound(Store)' /\ Older' /\ owner' = owner /\ count' = [count EXCEPT ![i] = 0]
  BY <1>4, <1>6, <1>7, StoreBecomes
<1>9. count'[i] = 0 /\ \A j \in Item \ {i} : count'[j] = count[j]
  BY <1>2, <1>8, StoreIs DEF IInv
<1>10. Types'
  BY <1>1 DEF IInv, Types
<1>11. Hands'
  <2>1. \A p \in Player : at[p] \in {"popped", "won"} => hand[p] \in Item \ {i}
    BY <1>2 DEF IInv, Hands, Held
  <2> QED
    BY <1>1, <1>8, <1>9, <2>1 DEF IInv, Hands
<1>12. Ground'
  BY <1>1, <1>8, <1>9 DEF IInv, Ground, Types
<1>13. Somewhere'
  <2>1. \A j \in Item : Held(j) => Held(j)'
    BY <1>1 DEF Held
  <2> QED
    BY <1>1, <1>8, <1>9, <2>1 DEF IInv, Somewhere
<1>14. Visible'
  BY <1>1 DEF IInv, Visible
<1> QED
  BY <1>8, <1>10, <1>11, <1>12, <1>13, <1>14 DEF IInv

\* The workers come so far as to leave only what was last written.
LEMMA ExecuteKeeps ==
    ASSUME IInv, NEW i \in Item, Execute(i)
    PROVE  IInv'
<1>1. /\ late' = [late EXCEPT ![i] = {}]
      /\ UNCHANGED <<list, index, owner, count, row, registered, inWorld, at, hand>>
  BY DEF Execute
<1>2. Sound(Store)'
  BY <1>1 DEF IInv, Sound, StoreType, Listing, RowsTell, Told, Apart, Store
<1>3. Older'
  BY <1>1 DEF IInv, Older
<1> QED
  BY <1>1, <1>2, <1>3 DEF IInv, Types, Hands, Ground, Somewhere, Visible, Held

\* The table, whatever it says when it is read.
LEMMA TableRows ==
    ASSUME IInv, NEW rows \in Tables
    PROVE  rows \in [Item -> Row]
<1>1. late \in [Item -> SUBSET Row]
  BY DEF IInv, Older
<1>2. row \in [Item -> Row]
  <2>1. PICK s : s = Store
    OBVIOUS
  <2>2. Sound(s) /\ s.row = row
    BY <2>1 DEF IInv, Store
  <2> QED
    BY <2>2, RowsAre
<1>3. PICK unsure : unsure = {i \in Item : late[i] # {}}
  OBVIOUS
<1>4. PICK old : /\ \A i \in unsure : old[i] \in late[i] \cup {row[i]}
                 /\ rows = [i \in Item |-> IF i \in unsure THEN old[i] ELSE row[i]]
  BY <1>3 DEF Tables
<1>5. \A i \in unsure : late[i] \subseteq Row /\ row[i] \in Row
  BY <1>1, <1>2, <1>3
<1>6. \A i \in Item : rows[i] \in Row
  BY <1>2, <1>4, <1>5
<1> QED
  BY <1>4, <1>6

\* After a crash there is what has an owner, that is, what has a row.
LEMMA CrashKeeps ==
    ASSUME IInv, Crash
    PROVE  IInv'
<1>1. PICK rows \in Tables : \E kept \in Firsts(Bare(rows), Inventory) :
          /\ Has(Reload(Bare(rows), Inventory, kept))
          /\ late' = Lag(rows, Reload(Bare(rows), Inventory, kept).row, [i \in Item |-> {}])
          /\ registered' = {} /\ inWorld' = {}
          /\ at' = [p \in Player |-> "idle"]
          /\ hand' = [p \in Player |-> None]
  BY DEF Crash
<1>2. rows \in [Item -> Row]
  BY TableRows
<1>3. PICK kept \in Firsts(Bare(rows), Inventory) :
          /\ Has(Reload(Bare(rows), Inventory, kept))
          /\ late' = Lag(rows, Reload(Bare(rows), Inventory, kept).row, [i \in Item |-> {}])
          /\ registered' = {} /\ inWorld' = {}
          /\ at' = [p \in Player |-> "idle"]
          /\ hand' = [p \in Player |-> None]
  BY <1>1
<1>4. PICK u : u = Reload(Bare(rows), Inventory, kept)
  OBVIOUS
<1>5. Sound(u) /\ \A i \in Item : u.count[i] > 0 => u.owner[i] # None
  BY <1>2, <1>4, Restarted
<1>6. Has(u)
  BY <1>3, <1>4
<1>7. Sound(Store)' /\ owner' = u.owner /\ count' = u.count
  BY <1>5, <1>6, StoreHas
<1>8. Older'
  <2>1. u.row \in [Item -> Row]
    BY <1>5, RowsAre
  <2>2. PICK l : l = [i \in Item |-> {}]
    OBVIOUS
  <2>3. l \in [Item -> SUBSET Row] /\ late' = Lag(rows, u.row, l)
    BY <1>3, <1>4, <2>2
  <2>4. late' \in [Item -> SUBSET Row]
    BY <1>2, <2>1, <2>3, LagIs
  <2> QED
    BY <2>4 DEF Older
<1>9. Types' /\ Hands' /\ Ground' /\ Visible'
  BY <1>3 DEF Types, Hands, Ground, Visible
<1>10. Somewhere'
  BY <1>5, <1>7 DEF Somewhere
<1> QED
  BY <1>7, <1>8, <1>9, <1>10 DEF IInv

LEMMA StutterKeeps ==
    ASSUME IInv, UNCHANGED vars
    PROVE  IInv'
<1>1. Sound(Store)' /\ Older' /\ UNCHANGED <<owner, count, registered, inWorld, at, hand>>
  BY StoreStays DEF IInv, vars, store
<1> QED
  BY <1>1 DEF IInv, Types, Hands, Ground, Somewhere, Visible, Held

LEMMA InitHolds == Init => IInv
<1> SUFFICES ASSUME Init PROVE IInv
  OBVIOUS
<1> USE DEF Init
<1>1. Store \in StoreType
  BY DEF Store, StoreType
<1>2. Listing(Store) /\ RowsTell(Store) /\ Apart(Store)
  BY DEF Store, Listing, RowsTell, Told, Apart
<1>3. Older /\ Types /\ Hands /\ Ground /\ Somewhere /\ Visible
  BY DEF Older, Types, Hands, Ground, Somewhere, Visible
<1> QED
  BY <1>1, <1>2, <1>3 DEF IInv, Sound

LEMMA StepKeeps == IInv /\ [Next]_vars => IInv'
<1> SUFFICES ASSUME IInv, [Next]_vars PROVE IInv'
  OBVIOUS
<1>1. ASSUME NEW p \in Player, Session(p) PROVE IInv'
  <2>1. CASE DropItem(p)
    BY <2>1, DropItemKeeps
  <2>2. CASE RegisterItem(p)
    BY <2>2, RegisterItemKeeps
  <2>3. CASE AddObjectToWorld(p)
    BY <2>3, AddObjectToWorldKeeps
  <2>4. CASE TakeItem(p)
    BY <2>4, TakeItemKeeps
  <2>5. CASE UnregisterItem(p)
    BY <2>5, UnregisterItemKeeps
  <2>6. CASE TakeIn(p)
    BY <2>6, TakeInKeeps
  <2>7. Bag(p) \in Inventory /\ Storage(p) \in Inventory
    BY DEF Bag, Storage, Inventory
  <2>8. CASE MoveInventoryToStorage(p) \/ MoveStorageToInventory(p)
    BY <2>7, <2>8, MoveKeeps DEF MoveInventoryToStorage, MoveStorageToInventory
  <2>9. CASE GiveItem(p)
    BY <2>9, GiveItemKeeps
  <2>10. CASE EraseItem(p)
    BY <2>10, EraseItemKeeps
  <2>11. CASE Relogin(p)
    BY <2>11, ReloginKeeps
  <2>12. CASE DropOther(p)
    BY <2>12, CrashKeeps DEF DropOther
  <2> QED
    BY <1>1, <2>1, <2>2, <2>3, <2>4, <2>5, <2>6, <2>8, <2>9, <2>10, <2>11, <2>12 DEF Session
<1>2. ASSUME NEW k \in Kind, MonsterDrop(k) PROVE IInv'
  BY <1>2, MonsterDropKeeps
<1>3. CASE CollectorUpdate
  BY <1>3, CollectorUpdateKeeps
<1>4. CASE Crash
  BY <1>4, CrashKeeps
<1>5. CASE UNCHANGED vars
  BY <1>5, StutterKeeps
<1>6. ASSUME NEW i \in Item, Execute(i) PROVE IInv'
  BY <1>6, ExecuteKeeps
<1> QED
  BY <1>1, <1>2, <1>3, <1>4, <1>5, <1>6 DEF Next

-----------------------------------------------------------------------------
(* What follows *)

\* However drops, pick-ups, the collector, logins and crashes interleave, list
\* and items point to each other, a hand that popped or won an item has it
\* alone, and what has units is somewhere.
THEOREM ItemsInvariance == Spec => []IInv
BY InitHolds, StepKeeps, PTL DEF Spec

\* A list holds the item that points to a place of it at that place, and only
\* items that point to it.
LEMMA ListedAt ==
    ASSUME Sound(Store), NEW v \in Inventory
    PROVE  /\ list[v] \in Seq(Item)
           /\ \A k \in 1..Len(list[v]) : owner[list[v][k]] = v /\ index[list[v][k]] = k
           /\ \A i \in Listed(v) : index[i] \in 1..Len(list[v]) /\ list[v][index[i]] = i
<1>1. list \in [Inventory -> Seq(Item)] /\ list[v] \in Seq(Item)
  BY DEF Sound, StoreType, Store
<1>2. \A k \in 1..Len(list[v]) : owner[list[v][k]] = v /\ index[list[v][k]] = k
  BY DEF Sound, Listing, Store
<1>3. ASSUME NEW i \in Listed(v)
      PROVE  index[i] \in 1..Len(list[v]) /\ list[v][index[i]] = i
  <2>1. PICK k \in 1..Len(list[v]) : i = list[v][k]
    BY <1>1 DEF Listed, ToSet
  <2> QED
    BY <1>2, <2>1
<1> QED
  BY <1>1, <1>2, <1>3

Marked == misread \in BOOLEAN

LEMMA MisreadType == Spec => []Marked
<1>1. Init => Marked
  BY DEF Init, Marked
<1>2. Marked /\ [Next]_vars => Marked'
  <2> SUFFICES ASSUME misread \in BOOLEAN, [Next]_vars PROVE misread' \in BOOLEAN
    BY DEF Marked
  <2>1. ASSUME NEW p \in Player, Session(p) PROVE misread' \in BOOLEAN
    <3>1. CASE DropItem(p) \/ RegisterItem(p) \/ AddObjectToWorld(p) \/ TakeItem(p) \/ UnregisterItem(p)
      BY <3>1 DEF DropItem, RegisterItem, AddObjectToWorld, TakeItem, UnregisterItem
    <3>2. CASE TakeIn(p) \/ GiveItem(p) \/ EraseItem(p) \/ Relogin(p)
      BY <3>2 DEF TakeIn, GiveItem, EraseItem, Relogin
    <3>3. CASE MoveInventoryToStorage(p) \/ MoveStorageToInventory(p)
      BY <3>3 DEF MoveInventoryToStorage, MoveStorageToInventory, Move
    <3>4. CASE DropOther(p)
      BY <3>4 DEF DropOther, Crash
    <3> QED
      BY <2>1, <3>1, <3>2, <3>3, <3>4 DEF Session
  <2>2. ASSUME NEW k \in Kind, MonsterDrop(k) PROVE misread' \in BOOLEAN
    BY <2>2 DEF MonsterDrop
  <2>3. CASE CollectorUpdate \/ Crash
    BY <2>3 DEF CollectorUpdate, Crash
  <2>4. ASSUME NEW i \in Item, Execute(i) PROVE misread' \in BOOLEAN
    BY <2>4 DEF Execute
  <2>5. CASE UNCHANGED vars
    BY <2>5 DEF vars
  <2> QED
    BY <2>1, <2>2, <2>3, <2>4, <2>5 DEF Next
<1> QED
  BY <1>1, <1>2, PTL DEF Spec

LEMMA TypesFollow == IInv /\ Marked => TypeOK
<1> SUFFICES ASSUME IInv, misread \in BOOLEAN PROVE TypeOK
  BY DEF Marked
<1>1. /\ list \in [Inventory -> Seq(Item)]
      /\ index \in [Item -> Nat]
      /\ owner \in [Item -> Inventory \cup {None}]
      /\ count \in [Item -> Nat]
      /\ row \in [Item -> [of : Inventory, n : Nat] \cup {None}]
  BY DEF IInv, Sound, StoreType, Store
<1>2. \A v \in Inventory : \A i \in Listed(v) : count[i] > 0
  BY <1>1, StoreIs, NoneApart DEF IInv
<1>3. late \in [Item -> SUBSET ([of : Inventory, n : Nat] \cup {None})]
  <2>1. Row \subseteq [of : Inventory, n : Nat] \cup {None}
    BY DEF Row
  <2>2. late \in [Item -> SUBSET Row]
    BY DEF IInv, Older
  <2> HIDE DEF Row
  <2> QED
    BY <2>1, <2>2
<1>4. Types
  BY DEF IInv
<1> QED
  BY <1>1, <1>2, <1>3, <1>4 DEF Types, TypeOK

\* An item is in one inventory at most, once, knows which and where, and can be
\* picked up by nobody then; an inventory has one stack of a code.
THEOREM ItemsOnePlace == Spec => []OnePlace
<1>1. ASSUME IInv, Marked PROVE OnePlace
  <2>1. TypeOK /\ Sound(Store)
    BY <1>1, TypesFollow DEF IInv
  <2>2. Placed
    BY <2>1, ListedAt DEF Placed
  <2>3. \A v \in Inventory : \A i \in Listed(v) :
            i \in Item /\ owner[i] = v /\ owner[i] # None /\ i \notin registered
    BY <1>1, ListedAside
  <2>4. OneStack
    <3>1. \A i, j \in Item : owner[i] # None /\ owner[i] = owner[j] /\ IsJoinable(i)
                             /\ KindOf[i] = KindOf[j] => i = j
      BY <2>1 DEF Sound, Apart, Store
    <3> QED
      BY <2>3, <3>1 DEF OneStack
  <2>5. ASSUME NEW v \in Inventory
        PROVE  IsInjective(list[v])
    <3>1. list[v] \in Seq(Item) /\ \A k \in 1..Len(list[v]) : index[list[v][k]] = k
      BY <2>1, ListedAt
    <3> QED
      BY <3>1 DEF IsInjective
  <2>6. \A v, w \in Inventory : v # w => Listed(v) \cap Listed(w) = {}
    BY <2>3
  <2> QED
    BY <2>1, <2>2, <2>3, <2>4, <2>5, <2>6 DEF OnePlace
<1> QED
  BY <1>1, ItemsInvariance, MisreadType, PTL

\* An item that exists is in an inventory, on the ground for the collector, or
\* with a session that is dropping it or has won it; and what the collector
\* lists can be seen, or is about to be.
THEOREM ItemsNoneStranded == Spec => []NoneStranded
<1>1. ASSUME IInv PROVE NoneStranded
  <2>1. \A i \in Item : owner[i] # None => \E v \in Inventory : i \in Listed(v)
    BY <1>1, StoreIs DEF IInv
  <2> QED
    BY <1>1, <2>1 DEF IInv, Somewhere, Held, Visible, NoneStranded
<1> QED
  BY <1>1, ItemsInvariance, PTL

\* The rows tell at any time which inventory an item is in, and how many units
\* are in a storage: what a crash would leave.
THEOREM ItemsRowsFollow == Spec => []RowsFollow
<1>1. ASSUME IInv PROVE RowsFollow
  <2>1. \A i \in Item :
            /\ owner[i] = None => row[i] = None
            /\ owner[i] # None => /\ row[i] # None /\ row[i].of = owner[i]
                                  /\ Stored(owner[i]) => row[i].n = count[i]
    BY <1>1 DEF IInv, Sound, RowsTell, Told, Store
  <2>2. \A v \in Inventory : \A i \in Item : i \in Listed(v) <=> owner[i] = v
    BY <1>1, StoreIs DEF IInv
  <2> QED
    BY <2>1, <2>2, NoneApart DEF RowsFollow
<1> QED
  BY <1>1, ItemsInvariance, PTL

-----------------------------------------------------------------------------
(* Nothing is made or lost *)

Even == /\ due \in [Kind -> 0..MaxUnits]
        /\ ~misread => \A k \in Kind : Tally(count, k) = due[k]

LEMMA PoppedEven ==
    ASSUME NEW s, Sound(s), NEW v \in Inventory, NEW i \in Item, s.owner[i] = v,
           NEW n \in 1..s.count[i], NEW new \in Item,
           s.count[i] > n => s.count[new] = 0 /\ KindOf[new] = KindOf[i], NEW k
    PROVE  Tally(Pop(s, v, i, n, new).count, k) = Tally(s.count, k)
<1>1. s.count \in [Item -> Nat] /\ n \in Nat /\ n <= s.count[i]
  BY DEF Sound, StoreType
<1>2. CASE s.count[i] > n
  <2>1. PICK f : f = [s.count EXCEPT ![new] = n]
    OBVIOUS
  <2>2. PICK m : m = s.count[i] - n
    OBVIOUS
  <2>3. Pop(s, v, i, n, new).count = [f EXCEPT ![i] = m]
    BY <1>2, <2>1, <2>2 DEF Pop, SetCount, DBUpdate, Sound, StoreType
  <2>4. f \in [Item -> Nat] /\ f[i] = s.count[i] /\ m \in Nat
    BY <1>1, <1>2, <2>1, <2>2
  <2>5. OnlyAt(s.count, f, new) /\ f[new] = n
    BY <1>1, <2>1 DEF OnlyAt
  <2>6. PICK g : g = [f EXCEPT ![i] = m]
    OBVIOUS
  <2>7. OnlyAt(f, g, i) /\ g[i] = m
    BY <2>4, <2>6 DEF OnlyAt
  <2>8. Tally(f, k) = IF KindOf[new] = k THEN Tally(s.count, k) - s.count[new] + n
                                         ELSE Tally(s.count, k)
    BY <2>5, OneChanges
  <2>9. Tally(g, k) = IF KindOf[i] = k THEN Tally(f, k) - s.count[i] + m ELSE Tally(f, k)
    BY <2>4, <2>7, OneChanges
  <2>10. Tally(s.count, k) \in Nat
    BY <1>1, TallyNat
  <2> QED
    BY <1>1, <1>2, <2>2, <2>3, <2>6, <2>8, <2>9, <2>10
<1>3. CASE ~(s.count[i] > n)
  BY <1>3, TakenOut DEF Pop
<1> QED
  BY <1>2, <1>3

LEMMA PushedEven ==
    ASSUME NEW s, Sound(s), NEW v \in Inventory, NEW i \in Item, s.owner[i] = None,
           NEW n \in Nat \ {0}, s.count[i] = n, NEW k
    PROVE  Tally(Push(s, v, i, n).count, k) = Tally(s.count, k)
<1>0. s.count \in [Item -> Nat]
  BY DEF Sound, StoreType
<1>1. PICK m : m = FindByCode(s, v, KindOf[i])
  OBVIOUS
<1>2. CASE IsJoinable(i) /\ m # 0
  <2>1. PICK j : j = s.list[v][m]
    OBVIOUS
  <2>2. j \in Item /\ s.owner[j] = v /\ KindOf[j] = KindOf[i] /\ j # i
    BY <1>1, <1>2, <2>1, Found, NoneApart
  <2>3. PICK f : f = [s.count EXCEPT ![j] = s.count[j] + n]
    OBVIOUS
  <2>4. PICK z : z = 0
    OBVIOUS
  <2>5. Push(s, v, i, n).count = [f EXCEPT ![i] = z]
    BY <1>1, <1>2, <2>1, <2>3, <2>4 DEF Push, GiveUp, SetCount, DBUpdate, Sound, StoreType
  <2>6. f \in [Item -> Nat] /\ f[i] = n /\ z \in Nat /\ s.count[j] + n \in Nat
    BY <1>0, <2>2, <2>3, <2>4
  <2>7. OnlyAt(s.count, f, j) /\ f[j] = s.count[j] + n
    BY <1>0, <2>2, <2>3, <2>6 DEF OnlyAt
  <2>8. PICK g : g = [f EXCEPT ![i] = z]
    OBVIOUS
  <2>9. OnlyAt(f, g, i) /\ g[i] = 0
    BY <2>4, <2>6, <2>8 DEF OnlyAt
  <2>10. Tally(f, k) = IF KindOf[j] = k THEN Tally(s.count, k) - s.count[j] + (s.count[j] + n)
                                        ELSE Tally(s.count, k)
    BY <2>7, OneChanges
  <2>11. Tally(g, k) = IF KindOf[i] = k THEN Tally(f, k) - n + 0 ELSE Tally(f, k)
    BY <2>6, <2>9, OneChanges
  <2>12. Tally(s.count, k) \in Nat
    BY <1>0, TallyNat
  <2> QED
    BY <1>0, <2>2, <2>5, <2>8, <2>10, <2>11, <2>12
<1>3. CASE ~(IsJoinable(i) /\ m # 0)
  <2>1. Push(s, v, i, n) = push(s, v, i)
    BY <1>1, <1>3 DEF Push
  <2>2. push(s, v, i).count = s.count
    BY DEF push, DBUpdate, Sound, StoreType
  <2> QED
    BY <2>1, <2>2
<1> QED
  BY <1>2, <1>3

\* Pop, for the step it is part of: the part is of the item's code.
LEMMA PartEven ==
    ASSUME IInv, NEW v \in Inventory, NEW i \in Listed(v), NEW n \in 1..count[i],
           NEW part \in Parts(i, n), NEW k
    PROVE  Tally(Pop(Store, v, i, n, part).count, k) = Tally(count, k)
<1>1. i \in Item /\ owner[i] = v /\ part \in Item
  BY ListedAside, PartOut
<1>2. count[i] > n => count[part] = 0 /\ KindOf[part] = KindOf[i]
  BY DEF Parts, Free
<1>3. PICK s : s = Store
  OBVIOUS
<1>4. Sound(s) /\ s.owner = owner /\ s.count = count
  BY <1>3 DEF IInv, Store
<1>5. s.owner[i] = v /\ n \in 1..s.count[i]
  BY <1>1, <1>4
<1>6. s.count[i] > n => s.count[part] = 0 /\ KindOf[part] = KindOf[i]
  BY <1>2, <1>4
<1>7. Tally(Pop(s, v, i, n, part).count, k) = Tally(s.count, k)
  BY <1>1, <1>4, <1>5, <1>6, PoppedEven
<1> QED
  BY <1>3, <1>4, <1>7

LEMMA CarriedEven ==
    ASSUME IInv, NEW v \in Inventory, NEW w \in Inventory, NEW i \in Listed(v), NEW n \in 1..count[i],
           NEW part \in Parts(i, n), NEW k
    PROVE  Tally(Push(Pop(Store, v, i, n, part), w, part, n).count, k) = Tally(count, k)
<1>1. PICK s : s = Pop(Store, v, i, n, part)
  OBVIOUS
<1>2. /\ part \in Item /\ n \in Nat \ {0}
      /\ Sound(s) /\ s.owner[part] = None /\ s.count[part] = n
  BY <1>1, PartOut
<1>3. Tally(s.count, k) = Tally(count, k)
  BY <1>1, PartEven
<1>4. Tally(Push(s, w, part, n).count, k) = Tally(s.count, k)
  BY <1>2, PushedEven
<1> QED
  BY <1>1, <1>3, <1>4

LEMMA EvenStays ==
    ASSUME Even, ~misread, UNCHANGED due, \A k \in Kind : Tally(count', k) = Tally(count, k)
    PROVE  Even'
BY DEF Even

LEMMA EvenInit == Init => Even
<1> SUFFICES ASSUME Init PROVE Even
  OBVIOUS
<1>1. due \in [Kind -> 0..MaxUnits] /\ \A k \in Kind : due[k] = 0
  BY ItemAssumption DEF Init
<1>2. ASSUME NEW k \in Kind
      PROVE  Tally(count, k) = 0
  <2>1. PICK S : S = {i \in Item : KindOf[i] = k}
    OBVIOUS
  <2>2. IsFiniteSet(S) /\ IsFiniteSet({}) /\ \A i \in S : count[i] = 0
    BY <2>1, ItemAssumption, FS_Subset, FS_EmptySet DEF Init
  <2>3. PICK R : R = {}
    OBVIOUS
  <2>4. R \in SUBSET S /\ IsFiniteSet(R) /\ \A i \in R : count[i] = count[i]
    BY <2>2, <2>3
  <2>5. \A i \in S : count[i] \in Nat /\ count[i] \in Nat
    BY <2>2
  <2>6. \A i \in S \ R : count[i] = 0
    BY <2>2
  <2>7. SumOf(count, S) = SumOf(count, R)
    BY <2>2, <2>4, <2>5, <2>6, SumSame
  <2>8. SumOf(count, R) = 0
    BY <2>3, <2>4, SumSolves
  <2> QED
    BY <2>1, <2>7, <2>8 DEF Tally
<1> QED
  BY <1>1, <1>2 DEF Even

LEMMA EvenStep == IInv /\ Even /\ [Next]_vars => Even'
<1> SUFFICES ASSUME IInv, Even, [Next]_vars PROVE Even'
  OBVIOUS
<1>0. /\ count \in [Item -> Nat] /\ owner \in [Item -> Inventory \cup {None}]
      /\ Sound(Store) /\ Store.owner = owner /\ Store.count = count /\ Store.row = row
  BY StoreIs DEF IInv, Store
<1>7. CASE UNCHANGED vars
  BY <1>7 DEF vars, store, Even
<1> SUFFICES ASSUME Next PROVE Even'
  BY <1>7
<1>8. ~misread
  BY DEF Next
<1>9. due \in [Kind -> 0..MaxUnits] /\ \A k \in Kind : Tally(count, k) = due[k]
  BY <1>8 DEF Even
<1>1. ASSUME NEW t, Becomes(t)
      PROVE  count' = t.count
  BY <1>1 DEF Becomes, Has
<1>5. ASSUME Crash PROVE Even'
  <2>1. PICK rows \in Tables : \E kept \in Firsts(Bare(rows), Inventory) :
            /\ \A k \in Kind : InRows(rows, k) <= MaxUnits
            /\ due' = [k \in Kind |-> InRows(rows, k)]
            /\ Has(Reload(Bare(rows), Inventory, kept))
    BY <1>5 DEF Crash
  <2>2. rows \in [Item -> Row]
    BY TableRows
  <2>3. PICK kept \in Firsts(Bare(rows), Inventory) :
            /\ \A k \in Kind : InRows(rows, k) <= MaxUnits
            /\ due' = [k \in Kind |-> InRows(rows, k)]
            /\ Has(Reload(Bare(rows), Inventory, kept))
    BY <2>1
  <2>4. \A k : /\ Tally(Reload(Bare(rows), Inventory, kept).count, k) = InRows(rows, k)
               /\ InRows(rows, k) \in Nat
    BY <2>2, Restarted
  <2>5. count' = Reload(Bare(rows), Inventory, kept).count
    BY <2>3 DEF Has
  <2> QED
    BY <2>3, <2>4, <2>5, ItemAssumption DEF Even
<1>2. ASSUME NEW p \in Player, Session(p) PROVE Even'
  <2>0. Bag(p) \in Inventory /\ Storage(p) \in Inventory /\ Bag(p) # None
    BY NoneApart DEF Bag, Storage, Inventory
  <2>1. CASE DropItem(p)
    <3> SUFFICES ASSUME NEW i \in Listed(Bag(p)), NEW n \in 1..count[i], NEW part \in Parts(i, n),
                        Becomes(Pop(Store, Bag(p), i, n, part)), UNCHANGED due
                 PROVE  Even'
      BY <2>1 DEF DropItem
    <3>1. \A k \in Kind : Tally(Pop(Store, Bag(p), i, n, part).count, k) = Tally(count, k)
      BY <2>0, PartEven
    <3>2. count' = Pop(Store, Bag(p), i, n, part).count
      BY <1>1
    <3> QED
      BY <3>1, <3>2, <1>8, EvenStays
  <2>2. CASE RegisterItem(p) \/ AddObjectToWorld(p) \/ TakeItem(p) \/ UnregisterItem(p)
    <3>1. UNCHANGED <<count, due>>
      BY <2>2 DEF RegisterItem, AddObjectToWorld, TakeItem, UnregisterItem, store
    <3> QED
      BY <1>9, <3>1 DEF Even
  <2>3. CASE TakeIn(p)
    <3>1. PICK q \in Player :
              /\ at[p] = "won" /\ UNCHANGED due
              /\ Becomes(PushItem(Store, q, hand[p], count[hand[p]]))
      BY <2>3, ItemAssumption DEF TakeIn
    <3>2. PICK i : i = hand[p]
      OBVIOUS
    <3>3. PICK n : n = count[i]
      OBVIOUS
    <3>4. i \in Item /\ owner[i] = None /\ n \in Nat \ {0}
      BY <1>0, <3>1, <3>2, <3>3 DEF IInv, Hands
    <3>5. Bag(q) \in Inventory /\ Bag(q) # None
      BY NoneApart DEF Bag, Inventory
    <3>6. PICK s : s = Store
      OBVIOUS
    <3>7. Sound(s) /\ s.owner[i] = None /\ s.count[i] = n /\ s.count = count
      BY <1>0, <3>3, <3>4, <3>6
    <3>8. PushItem(Store, q, hand[p], count[hand[p]]) = Push(s, Bag(q), i, n)
      BY <3>2, <3>3, <3>5, <3>6, <3>7 DEF PushItem
    <3>9. \A k \in Kind : Tally(Push(s, Bag(q), i, n).count, k) = Tally(s.count, k)
      BY <3>4, <3>5, <3>7, PushedEven
    <3>10. count' = Push(s, Bag(q), i, n).count
      BY <1>1, <3>1, <3>8
    <3> QED
      BY <3>1, <3>7, <3>9, <3>10, <1>8, EvenStays
  <2>4. ASSUME NEW v \in Inventory, NEW w \in Inventory, Move(p, v, w)
        PROVE  Even'
    <3> SUFFICES ASSUME NEW i \in Listed(v), NEW n \in 1..count[i], NEW part \in Parts(i, n),
                        NEW s, s = Push(Pop(Store, v, i, n, part), w, part, n),
                        Becomes(IF part # i THEN DBUpdate(s, i) ELSE s), UNCHANGED due
                 PROVE  Even'
      BY <2>4 DEF Move
    <3>1. Sound(s) /\ i \in Item
      BY Carried, ListedAside
    <3>2. PICK t : t = IF part # i THEN DBUpdate(s, i) ELSE s
      OBVIOUS
    <3>3. t.count = s.count
      BY <3>1, <3>2, Rewritten
    <3>4. \A k \in Kind : Tally(s.count, k) = Tally(count, k)
      BY CarriedEven
    <3>5. count' = t.count
      BY <1>1, <3>2
    <3> QED
      BY <3>3, <3>4, <3>5, <1>8, EvenStays
  <2>5. CASE MoveInventoryToStorage(p) \/ MoveStorageToInventory(p)
    BY <2>0, <2>4, <2>5 DEF MoveInventoryToStorage, MoveStorageToInventory
  <2>6. CASE GiveItem(p)
    <3> SUFFICES ASSUME NEW q \in Player \ {p}, NEW i \in Listed(Bag(p)), NEW n \in 1..count[i],
                        NEW part \in Parts(i, n), UNCHANGED due,
                        Becomes(Save(Save(PushItem(Pop(Store, Bag(p), i, n, part), q, part, n), p), q))
                 PROVE  Even'
      BY <2>6 DEF GiveItem
    <3>1. Bag(q) \in Inventory /\ Bag(q) # None
      BY NoneApart DEF Bag, Inventory
    <3>2. Pop(Store, Bag(p), i, n, part).owner[part] = None
      BY <2>0, PartOut
    <3>3. PICK s : s = Push(Pop(Store, Bag(p), i, n, part), Bag(q), part, n)
      OBVIOUS
    <3>4. PushItem(Pop(Store, Bag(p), i, n, part), q, part, n) = s
      BY <3>1, <3>2, <3>3 DEF PushItem
    <3>5. Sound(s)
      BY <2>0, <3>1, <3>3, Carried
    <3>6. PICK t : t = Save(s, p)
      OBVIOUS
    <3>7. Sound(t) /\ t.count = s.count
      BY <3>5, <3>6, Saved
    <3>8. PICK u : u = Save(t, q)
      OBVIOUS
    <3>9. u.count = s.count
      BY <3>7, <3>8, Saved
    <3>10. \A k \in Kind : Tally(s.count, k) = Tally(count, k)
      BY <2>0, <3>1, <3>3, CarriedEven
    <3>11. count' = u.count
      BY <1>1, <3>4, <3>6, <3>8
    <3> QED
      BY <3>9, <3>10, <3>11, <1>8, EvenStays
  <2>7. CASE EraseItem(p)
    <3> SUFFICES ASSUME NEW i \in Listed(Bag(p)), NEW n \in 1..count[i],
                        Becomes(IF count[i] > n THEN SetCount(Store, Bag(p), i, count[i] - n)
                                ELSE GiveUp(pop(Store, Bag(p), i), i)),
                        due' = [due EXCEPT ![KindOf[i]] = @ - n]
                 PROVE  Even'
      BY <2>7 DEF EraseItem
    <3>1. i \in Item
      BY <2>0, ListedAside
    <3>2. PICK m : m = count[i] - n
      OBVIOUS
    <3>3. m \in Nat /\ n \in Nat /\ count[i] \in Nat
      BY <1>0, <3>1, <3>2
    <3>4. count' = [count EXCEPT ![i] = m]
      <4>1. CASE count[i] > n
        <5>1. SetCount(Store, Bag(p), i, m).count = [count EXCEPT ![i] = m]
          BY DEF SetCount, DBUpdate, Store
        <5> QED
          BY <1>1, <3>2, <4>1, <5>1
      <4>2. CASE ~(count[i] > n)
        <5>1. m = 0
          BY <1>0, <3>1, <3>2, <4>2
        <5>2. GiveUp(pop(Store, Bag(p), i), i).count = [count EXCEPT ![i] = 0]
          BY DEF GiveUp, pop, DBUpdate, Store
        <5> QED
          BY <1>1, <4>2, <5>1, <5>2
      <4> QED
        BY <4>1, <4>2
    <3>5. \A k : Tally(count', k) = IF KindOf[i] = k THEN Tally(count, k) - count[i] + m
                                                     ELSE Tally(count, k)
      <4>1. OnlyAt(count, count', i) /\ count'[i] = m
        BY <1>0, <3>1, <3>3, <3>4 DEF OnlyAt
      <4> QED
        BY <4>1, OneChanges
    <3>6. count' \in [Item -> Nat]
      BY <1>0, <3>3, <3>4
    <3>7. \A k : Tally(count', k) \in Nat
      BY <3>6, TallyNat
    <3>8. KindOf[i] \in Kind
      BY <3>1 DEF Kind
    <3>9. \A k \in Kind : Tally(count', k) = due'[k] /\ due'[k] \in 0..MaxUnits
      BY <1>9, <3>2, <3>3, <3>5, <3>7, <3>8, ItemAssumption
    <3>10. due' = [k \in Kind |-> due'[k]]
      BY DEF Even
    <3> QED
      BY <3>9, <3>10 DEF Even
  <2>8. CASE Relogin(p)
    <3>1. PICK s : s = Save(Store, p)
      OBVIOUS
    <3>2. PICK vs : vs = {Bag(p), Storage(p)}
      OBVIOUS
    <3>3. /\ UNCHANGED due
          /\ misread' \/ \E kept \in Firsts(s, vs) : Becomes(Reload(s, vs, kept))
      BY <2>8, <3>1, <3>2 DEF Relogin
    <3>4. /\ Sound(s) /\ s.owner = owner /\ s.count = count
          /\ \A i \in Item : owner[i] = Bag(p) => s.row[i].n = count[i]
      BY <1>0, <3>1, Saved
    <3>5. vs \in SUBSET Inventory
      BY <2>0, <3>2
    <3>6. \A i \in Item : owner[i] = Storage(p) => s.row[i].n = count[i]
      <4>1. Storage(p) # None /\ Stored(Storage(p))
        BY NoneApart DEF Storage, Inventory, Stored
      <4> QED
        BY <3>4, <4>1 DEF Sound, RowsTell, Told
    <3>7. ASSUME NEW kept \in Firsts(s, vs), Becomes(Reload(s, vs, kept))
          PROVE  Even'
      <4>1. PICK t : t = Reload(s, vs, kept)
        OBVIOUS
      <4>2. /\ Sound(t)
            /\ \A i \in Item : t.count[i] = IF s.owner[i] \in vs THEN s.row[i].n ELSE s.count[i]
        BY <3>4, <3>5, <4>1, Reloaded
      <4>3. \A i \in Item : t.count[i] = count[i]
        BY <3>2, <3>4, <3>6, <4>2
      <4>4. t.count = count
        <5>1. t.count \in [Item -> Nat]
          BY <4>2 DEF Sound, StoreType
        <5> QED
          BY <1>0, <4>3, <5>1
      <4>5. count' = t.count
        BY <1>1, <3>7, <4>1
      <4> QED
        BY <3>3, <4>4, <4>5, <1>8, EvenStays
    <3>8. CASE misread'
      BY <1>9, <3>3, <3>8 DEF Even
    <3> QED
      BY <3>3, <3>7, <3>8
  <2> QED
    BY <1>2, <1>5, <2>1, <2>2, <2>3, <2>5, <2>6, <2>7, <2>8 DEF Session, DropOther
<1>3. ASSUME NEW k \in Kind, MonsterDrop(k) PROVE Even'
  <2> SUFFICES ASSUME NEW i \in Free(k), NEW n \in (IF IsJoinable(i) THEN 1..MaxUnits ELSE {1}),
                      due[k] + n <= MaxUnits, due' = [due EXCEPT ![k] = @ + n],
                      Becomes([Store EXCEPT !.count[i] = n, !.owner[i] = None, !.row[i] = None])
               PROVE  Even'
    BY <1>3 DEF MonsterDrop
  <2>1. n \in Nat /\ i \in Item /\ count[i] = 0 /\ KindOf[i] = k
    <3>1. CASE IsJoinable(i)
      BY <3>1, ItemAssumption DEF Free
    <3>2. CASE ~IsJoinable(i)
      BY <3>2 DEF Free
    <3> QED
      BY <3>1, <3>2
  <2>2. count' = [count EXCEPT ![i] = n]
    BY DEF Becomes, Has, Store
  <2>3. \A l : Tally(count', l) = IF KindOf[i] = l THEN Tally(count, l) - count[i] + n
                                                   ELSE Tally(count, l)
    <3>1. OnlyAt(count, count', i) /\ count'[i] = n
      BY <1>0, <2>1, <2>2 DEF OnlyAt
    <3> QED
      BY <3>1, OneChanges
  <2>4. \A l \in Kind : Tally(count', l) = due'[l] /\ due'[l] \in 0..MaxUnits
    BY <1>9, <2>1, <2>3, ItemAssumption
  <2>5. due' = [l \in Kind |-> due'[l]]
    BY DEF Even
  <2> QED
    BY <2>4, <2>5 DEF Even
<1>4. CASE CollectorUpdate
  <2> SUFFICES ASSUME NEW i \in registered, due' = [due EXCEPT ![KindOf[i]] = @ - count[i]],
                      Becomes(GiveUp(Store, i))
               PROVE  Even'
    BY <1>4 DEF CollectorUpdate
  <2>1. i \in Item /\ count[i] \in Nat /\ KindOf[i] \in Kind
    BY <1>0 DEF IInv, Types, Kind
  <2>2. PICK z : z = 0
    OBVIOUS
  <2>3. count' = [count EXCEPT ![i] = z]
    BY <2>2 DEF Becomes, Has, GiveUp, Store
  <2>4. z \in Nat
    BY <2>2
  <2>5. \A l : Tally(count', l) = IF KindOf[i] = l THEN Tally(count, l) - count[i] + z
                                                   ELSE Tally(count, l)
    <3>1. OnlyAt(count, count', i) /\ count'[i] = z
      BY <1>0, <2>1, <2>3, <2>4 DEF OnlyAt
    <3> QED
      BY <3>1, OneChanges
  <2>6. count' \in [Item -> Nat]
    BY <1>0, <2>3, <2>4
  <2>7. \A l : Tally(count', l) \in Nat
    BY <2>6, TallyNat
  <2>8. \A l \in Kind : Tally(count', l) = due'[l] /\ due'[l] \in 0..MaxUnits
    BY <1>9, <2>1, <2>2, <2>5, <2>7, ItemAssumption
  <2>9. due' = [l \in Kind |-> due'[l]]
    BY DEF Even
  <2> QED
    BY <2>8, <2>9 DEF Even
<1>6. ASSUME NEW i \in Item, Execute(i) PROVE Even'
  <2>1. UNCHANGED <<count, due>>
    BY <1>6 DEF Execute
  <2> QED
    BY <1>9, <2>1 DEF Even
<1> QED
  BY <1>2, <1>3, <1>4, <1>5, <1>6 DEF Next

\* Dividing, joining, dropping, picking up, storing, giving and logging in again
\* neither make nor lose units of a code, and a crash leaves those in the rows.
THEOREM ItemsConserved == Spec => []Conserved
<1>1. Even => Conserved
  BY UnitsAre DEF Even, Conserved
<1> QED
  BY <1>1, EvenInit, EvenStep, ItemsInvariance, PTL DEF Spec
=============================================================================
