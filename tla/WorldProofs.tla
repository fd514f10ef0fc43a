----------------------------- MODULE WorldProofs -----------------------------
(***************************************************************************)
(* Proofs about WorldRegions, for every map, every number of objects and   *)
(* threads, as long as no two threads work on one object at a time.        *)
(*                                                                         *)
(*   AddKeeps, RemoveKeeps   what Region::addObject and removeObject do to *)
(*                           the vectors and the indexes into them         *)
(*   Correct                 no ASSERT of Region.cpp fails                 *)
(*   ListsIndexed            the vectors and the objects agree             *)
(*                                                                         *)
(* And, as long as no two calls overlap and the loops over visible regions *)
(* reach all that a client sees (AllSeen), that between calls              *)
(*                                                                         *)
(*   EverybodyMet            clients draw every object they can see        *)
(*   NobodyGone              and none that has left the world              *)
(*                                                                         *)
(* For these ViewInv says how far a call under way has come in introducing *)
(* its object (Meeting).                                                   *)
(*                                                                         *)
(* About RespawnArea, for any number of monsters and players, every area   *)
(* and every health:                                                       *)
(*                                                                         *)
(*   Population   Populated; the strengthening says that a monster that    *)
(*                was never allocated is not in the area's list, and that  *)
(*                the list is empty until the area has been updated once   *)
(*   Taming       TamerKnows: a tamer in the game knows his monster; the   *)
(*                strengthening says that who has not entered tames        *)
(*                nothing                                                  *)
(***************************************************************************)
EXTENDS WorldRegions, RespawnArea, SequenceTheorems, FiniteSetTheorems, TLAPS

-----------------------------------------------------------------------------
(* WorldRegions *)

\* Two threads never work on one object at once.
Isolated == Isolation \in {"object", "world"}

RegionsTyped ==
  /\ pRegion \in [Objects -> Cells \cup {Nowhere}]
  /\ region_index \in [Objects -> Int]
  /\ list \in [Kinds -> [Cells -> Seq(Objects)]]

-----------------------------------------------------------------------------
(* The vectors of a region *)

LEMMA KindTyped == \A o : Kind(o) \in Kinds
BY DEF Kind, Kinds

\* Region::addObject keeps the vectors and the indexes consistent.
LEMMA AddKeeps ==
  ASSUME RegionsTyped, Indexed, NEW o \in Objects, NEW c \in Cells,
         ~InWorld(o), AddObject(o, c)
  PROVE  RegionsTyped' /\ Indexed'
<1> DEFINE v == list[Kind(o)][c]
           w == list'[Kind(o)][c]
<1>1. /\ v \in Seq(Objects) /\ Len(v) \in Nat
      /\ w = Append(v, o)
      /\ \A k \in Kinds, d \in Cells :
           ~(k = Kind(o) /\ d = c) => list'[k][d] = list[k][d]
  BY KindTyped DEF RegionsTyped, AddObject
<1>2. /\ w \in Seq(Objects)
      /\ Len(w) = Len(v) + 1
      /\ w[Len(w)] = o
      /\ \A i \in 1 .. Len(v) : w[i] = v[i]
  BY <1>1, AppendProperties
<1>3. RegionsTyped'
  BY <1>1, <1>2, KindTyped DEF RegionsTyped, AddObject
<1>4. ASSUME NEW q \in Objects, InWorld(q)'
      PROVE  /\ region_index'[q] \in 0 .. Len(list'[Kind(q)][pRegion'[q]]) - 1
             /\ list'[Kind(q)][pRegion'[q]][region_index'[q] + 1] = q
  <2>1. CASE q = o
    <3>1. pRegion'[q] = c /\ region_index'[q] = Len(v)
      BY <2>1 DEF AddObject, RegionsTyped
    <3> QED
      BY <2>1, <3>1, <1>1, <1>2
  <2>2. CASE q # o
    <3>1. pRegion'[q] = pRegion[q] /\ region_index'[q] = region_index[q]
      BY <2>2 DEF AddObject, RegionsTyped
    <3>2. InWorld(q) /\ pRegion[q] \in Cells
      BY <1>4, <3>1 DEF InWorld, RegionsTyped
    <3>3. /\ region_index[q] \in 0 .. Len(list[Kind(q)][pRegion[q]]) - 1
          /\ list[Kind(q)][pRegion[q]][region_index[q] + 1] = q
      BY <3>2 DEF Indexed
    <3>4. CASE Kind(q) = Kind(o) /\ pRegion[q] = c
      BY <3>1, <3>3, <3>4, <1>1, <1>2
    <3>5. CASE ~(Kind(q) = Kind(o) /\ pRegion[q] = c)
      BY <3>1, <3>2, <3>3, <3>5, <1>1, KindTyped
    <3> QED
      BY <3>4, <3>5
  <2> QED
    BY <2>1, <2>2
<1>5. ASSUME NEW k \in Kinds, NEW d \in Cells, NEW i \in 1 .. Len(list'[k][d])
      PROVE  LET q == list'[k][d][i]
             IN  Kind(q) = k /\ pRegion'[q] = d /\ region_index'[q] = i - 1
  <2>1. CASE k = Kind(o) /\ d = c /\ i = Len(w)
    BY <2>1, <1>1, <1>2 DEF AddObject, RegionsTyped
  <2>2. CASE k = Kind(o) /\ d = c /\ i # Len(w)
    <3>1. i \in 1 .. Len(v) /\ w[i] = v[i]
      BY <2>2, <1>1, <1>2
    <3>2. /\ v[i] \in Objects /\ Kind(v[i]) = k
          /\ pRegion[v[i]] = d /\ region_index[v[i]] = i - 1
      BY <3>1, <2>2, <1>1, ElementOfSeq DEF Indexed
    <3>3. v[i] # o
      BY <3>2 , GridAssumption DEF InWorld
    <3> QED
      BY <3>1, <3>2, <3>3, <2>2 DEF AddObject, RegionsTyped
  <2>3. CASE ~(k = Kind(o) /\ d = c)
    <3>1. list'[k][d] = list[k][d]
      BY <2>3, <1>1
    <3>2. LET q == list[k][d][i]
          IN  q \in Objects /\ Kind(q) = k /\ pRegion[q] = d /\ region_index[q] = i - 1
      BY <3>1, ElementOfSeq DEF Indexed, RegionsTyped
    <3>3. list[k][d][i] # o
      BY <3>2, GridAssumption DEF InWorld
    <3> QED
      BY <3>1, <3>2, <3>3 DEF AddObject, RegionsTyped
  <2> QED
    BY <2>1, <2>2, <2>3
<1> QED
  BY <1>3, <1>4, <1>5 DEF Indexed, InWorld

\* What removeObject leaves of the vector: one entry less, the last one moved to
\* the place of the removed one.
LEMMA RemoveEffect ==
  ASSUME RegionsTyped, NEW o \in Objects, NEW c \in Cells,
         CanRemove(o, c), RemoveObject(o, c)
  PROVE  LET v == list[Kind(o)][c]
             n == Len(v)
             j == region_index[o] + 1
         IN  /\ v \in Seq(Objects) /\ n \in Nat /\ j \in 1 .. n
             /\ v[j] = o /\ pRegion[o] = c /\ v[n] \in Objects
             /\ \E w \in Seq(Objects) :
                  /\ list' = [list EXCEPT ![Kind(o)][c] = w]
                  /\ Len(w) = n - 1
                  /\ \A i \in 1 .. n - 1 : w[i] = IF i = j THEN v[n] ELSE v[i]
             /\ pRegion' = [pRegion EXCEPT ![o] = Nowhere]
             /\ region_index' = [q \in Objects |->
                                   IF q = o THEN -1
                                   ELSE IF q = v[n] THEN j - 1 ELSE region_index[q]]
<1> DEFINE v == list[Kind(o)][c]
           j == region_index[o] + 1
           n == Len(v)
           last == v[n]
           x == [v EXCEPT ![j] = last]
           w == SubSeq(x, 1, n - 1)
<1>1. /\ v \in Seq(Objects) /\ n \in Nat /\ j \in 1 .. n
      /\ v[j] = o /\ pRegion[o] = c
  BY KindTyped DEF RegionsTyped, CanRemove
<1>2. last \in Objects /\ \A i \in 1 .. n : v[i] \in Objects
  BY <1>1, ElementOfSeq
<1>3. /\ x \in Seq(Objects) /\ Len(x) = n
      /\ \A i \in 1 .. n : x[i] = IF i = j THEN last ELSE v[i]
  BY <1>1, <1>2, ExceptSeq
<1>4. /\ w \in Seq(Objects) /\ Len(w) = n - 1
      /\ \A i \in 1 .. n - 1 : w[i] = IF i = j THEN last ELSE v[i]
  <2>1. \A i \in 1 .. n - 1 : x[i] \in Objects
    BY <1>1, <1>2, <1>3
  <2> HIDE DEF x, n
  <2>2. /\ w \in Seq(Objects)
        /\ Len(w) = IF 1 <= n - 1 THEN (n - 1) - 1 + 1 ELSE 0
        /\ \A i \in 1 .. (n - 1) - 1 + 1 : w[i] = x[1 + i - 1]
    <3>1. n - 1 \in Int
      BY <1>1
    <3> QED
      BY <2>1, <3>1, SubSeqProperties
  <2>3. Len(w) = n - 1
    BY <2>2, <1>1
  <2>4. ASSUME NEW i \in 1 .. n - 1
        PROVE  w[i] = x[i] /\ i \in 1 .. n
    BY <2>2, <1>1
  <2> QED
    BY <2>2, <2>3, <2>4, <1>3
<1>5. list' = [list EXCEPT ![Kind(o)][c] = w]
  BY DEF RemoveObject
<1>6. j - 1 = region_index[o]
  BY DEF RegionsTyped
<1> HIDE DEF w
<1> QED
  BY <1>1, <1>2, <1>4, <1>5, <1>6 DEF RemoveObject

\* Region::removeObject, swap included, keeps them consistent as well.
LEMMA RemoveKeeps ==
  ASSUME RegionsTyped, Indexed, NEW o \in Objects, NEW c \in Cells,
         CanRemove(o, c), RemoveObject(o, c)
  PROVE  RegionsTyped' /\ Indexed'
<1> DEFINE v == list[Kind(o)][c]
           n == Len(v)
           j == region_index[o] + 1
           last == v[n]
<1>1. /\ v \in Seq(Objects) /\ n \in Nat /\ j \in 1 .. n
      /\ v[j] = o /\ pRegion[o] = c /\ last \in Objects
  BY RemoveEffect
<1>2. /\ pRegion' = [pRegion EXCEPT ![o] = Nowhere]
      /\ region_index' = [q \in Objects |->
                            IF q = o THEN -1
                            ELSE IF q = last THEN j - 1 ELSE region_index[q]]
  BY RemoveEffect
<1>3. PICK w \in Seq(Objects) :
        /\ list' = [list EXCEPT ![Kind(o)][c] = w]
        /\ Len(w) = n - 1
        /\ \A i \in 1 .. n - 1 : w[i] = IF i = j THEN last ELSE v[i]
  BY RemoveEffect
<1>4. \A i \in 1 .. n : /\ v[i] \in Objects /\ Kind(v[i]) = Kind(o)
                        /\ pRegion[v[i]] = c /\ region_index[v[i]] = i - 1
  BY <1>1, KindTyped, ElementOfSeq DEF Indexed
<1>5. /\ list'[Kind(o)][c] = w
      /\ \A k \in Kinds, d \in Cells :
           ~(k = Kind(o) /\ d = c) => list'[k][d] = list[k][d]
  BY <1>3, KindTyped DEF RegionsTyped
<1>6. RegionsTyped'
  <2>1. region_index' \in [Objects -> Int]
    BY <1>1, <1>2 DEF RegionsTyped
  <2>2. list' \in [Kinds -> [Cells -> Seq(Objects)]]
    BY <1>3, KindTyped DEF RegionsTyped
  <2> QED
    BY <1>2, <2>1, <2>2 DEF RegionsTyped
<1> HIDE DEF n, j, last
<1>7. v[n] = last /\ j = region_index[o] + 1 /\ n = Len(v)
  BY DEF n, j, last
<1>10. Kind(last) = Kind(o) /\ pRegion[last] = c /\ region_index[last] = n - 1
  <2>1. n \in 1 .. n
    BY <1>1
  <2> QED
    BY <2>1, <1>4, <1>7
<1>8. ASSUME NEW q \in Objects, InWorld(q)'
      PROVE  /\ region_index'[q] \in 0 .. Len(list'[Kind(q)][pRegion'[q]]) - 1
             /\ list'[Kind(q)][pRegion'[q]][region_index'[q] + 1] = q
  <2>1. q # o /\ pRegion'[q] = pRegion[q] /\ pRegion[q] \in Cells
    BY <1>8, <1>2 DEF InWorld, RegionsTyped
  <2>2. /\ region_index[q] \in 0 .. Len(list[Kind(q)][pRegion[q]]) - 1
        /\ list[Kind(q)][pRegion[q]][region_index[q] + 1] = q
    BY <2>1, GridAssumption DEF Indexed, InWorld
  <2>3. CASE Kind(q) = Kind(o) /\ pRegion[q] = c
    <3>1. list'[Kind(q)][pRegion'[q]] = w
      BY <2>1, <2>3, <1>5
    <3>2. region_index[q] \in 0 .. n - 1 /\ v[region_index[q] + 1] = q
      BY <2>2, <2>3, <1>7
    <3>3. CASE q = last
      <4>1. j # n
        BY <3>3, <2>1, <1>1, <1>7
      <4>2. region_index'[q] = j - 1
        BY <3>3, <2>1, <1>2
      <4>3. j \in 1 .. n - 1
        BY <4>1, <1>1
      <4> QED
        BY <4>2, <4>3, <3>1, <3>3, <1>1, <1>3
    <3>4. CASE q # last
      <4>1. region_index'[q] = region_index[q]
        BY <3>4, <2>1, <1>2
      <4>2. region_index[q] + 1 # n /\ region_index[q] + 1 # j
        BY <3>4, <3>2, <2>1, <1>1, <1>7
      <4>3. region_index[q] + 1 \in 1 .. n - 1
        BY <4>2, <3>2, <1>1
      <4> QED
        BY <4>1, <4>2, <4>3, <3>1, <3>2, <1>1, <1>3
    <3> QED
      BY <3>3, <3>4
  <2>4. CASE ~(Kind(q) = Kind(o) /\ pRegion[q] = c)
    <3>1. q # last
      BY <2>4, <1>1, <1>4, <1>7
    <3>2. region_index'[q] = region_index[q]
      BY <3>1, <2>1, <1>2
    <3>3. list'[Kind(q)][pRegion'[q]] = list[Kind(q)][pRegion[q]]
      BY <2>1, <2>4, <1>5, KindTyped
    <3> QED
      BY <3>2, <3>3, <2>2
  <2> QED
    BY <2>3, <2>4
<1>9. ASSUME NEW k \in Kinds, NEW d \in Cells, NEW i \in 1 .. Len(list'[k][d])
      PROVE  LET q == list'[k][d][i]
             IN  Kind(q) = k /\ pRegion'[q] = d /\ region_index'[q] = i - 1
  <2>1. CASE k = Kind(o) /\ d = c
    <3>1. i \in 1 .. n - 1 /\ list'[k][d][i] = IF i = j THEN last ELSE v[i]
      BY <2>1, <1>3, <1>5
    <3>2. CASE i = j
      <4>1. last # o
        BY <3>1, <3>2, <1>1, <1>7, <1>10 DEF RegionsTyped
      <4>2. pRegion'[last] = c /\ region_index'[last] = j - 1 /\ Kind(last) = k
        BY <4>1, <2>1, <1>1, <1>2, <1>10 DEF RegionsTyped
      <4> QED
        BY <4>2, <3>1, <3>2, <2>1
    <3>3. CASE i # j
      <4>1. i \in 1 .. n
        BY <3>1, <1>1
      <4>2. v[i] # o /\ v[i] # last
        <5>1. region_index[v[i]] = i - 1 /\ region_index[o] = j - 1
          BY <4>1, <1>1, <1>4
        <5>2. region_index[last] = n - 1
          BY <1>10
        <5> QED
          BY <5>1, <5>2, <3>1, <3>3, <1>1
      <4>3. pRegion'[v[i]] = c /\ region_index'[v[i]] = i - 1 /\ Kind(v[i]) = k
        BY <4>1, <4>2, <2>1, <1>2, <1>4 DEF RegionsTyped
      <4> QED
        BY <4>3, <3>1, <3>3, <2>1
    <3> QED
      BY <3>2, <3>3
  <2>2. CASE ~(k = Kind(o) /\ d = c)
    <3>1. list'[k][d] = list[k][d]
      BY <2>2, <1>5
    <3>2. LET q == list[k][d][i]
          IN  q \in Objects /\ Kind(q) = k /\ pRegion[q] = d /\ region_index[q] = i - 1
      BY <3>1, ElementOfSeq DEF Indexed, RegionsTyped
    <3>3. list[k][d][i] # o
      BY <3>2, <2>2, <1>1
    <3>4. list[k][d][i] # last
      <4>1. n \in 1 .. n
        BY <1>1
      <4> QED
        BY <4>1, <3>2, <2>2, <1>4, <1>7
    <3> QED
      BY <3>1, <3>2, <3>3, <3>4, <1>2 DEF RegionsTyped
  <2> QED
    BY <2>1, <2>2
<1> QED
  BY <1>6, <1>8, <1>9 DEF Indexed, InWorld

-----------------------------------------------------------------------------
(* Typing *)

\* What the two functors send are objects of the world.
LEMMA IntroduceTyped ==
  ASSUME list \in [Kinds -> [Cells -> Seq(Objects)]],
         seen \in [Players -> SUBSET Objects],
         NEW o \in Objects, NEW cs \in SUBSET Cells, NEW where,
         \A p \in Players : p \notin seen[p]
  PROVE  /\ Introduce(o, cs, where) \in [Players -> SUBSET Objects]
         /\ \A p \in Players : p \notin Introduce(o, cs, where)[p]
<1>1. ASSUME NEW k \in Kinds PROVE Listed(k, cs) \subseteq Objects
  <2>1. ASSUME NEW c \in cs, NEW i \in 1 .. Len(list[k][c])
        PROVE  list[k][c][i] \in Objects
    BY ElementOfSeq
  <2> QED
    BY <2>1 DEF Listed
<1>2. Listed("client", cs) \subseteq Objects /\ Listed("movable", cs) \subseteq Objects
  BY <1>1 DEF Kinds
<1> QED
  BY <1>2 DEF Introduce, Drawn

LEMMA TypeInit == Init => TypeOK
<1> SUFFICES ASSUME Init PROVE TypeOK
  OBVIOUS
<1>1. list \in [Kinds -> [Cells -> Seq(Objects)]]
  BY EmptySeq DEF Init
<1>2. call \in [Threads -> {Idle}]
  BY DEF Init
<1>3. pRegion \in [Objects -> Cells \cup {Nowhere}]
  BY DEF Init
<1>4. region_index \in [Objects -> Int]
  BY DEF Init
<1>5. seen \in [Players -> SUBSET Objects]
  BY DEF Init
<1> QED
  BY <1>1, <1>2, <1>3, <1>4, <1>5 DEF Init, TypeOK

\* What the steps of a call have done to its object so far.
CallOK(t) ==
  LET o == call[t].obj
  IN  /\ call[t].pc = "add" => ~InWorld(o) /\ call[t].from = pos[o]
      /\ call[t].pc = "leave" => InWorld(o)
      /\ call[t].pc = "sayleave" => ~InWorld(o)
      /\ call[t].pc = "warpend" => ~InWorld(o) /\ call[t].to # Nowhere
      /\ call[t].pc = "remove" => pRegion[o] = call[t].from
      /\ call[t].pc = "readd" => ~InWorld(o)
      /\ call[t].pc = "introduce" => InWorld(o)

CallsOK == \A t \in Threads : CallOK(t)

LEMMA TypeStep ==
  ASSUME TypeOK, Indexed, CallsOK, [Next]_vars
  PROVE  TypeOK'
<1> USE DEF TypeOK, Call, Phases
<1>a. \A a, b : DoEachVisibleRegion(a) \subseteq Cells /\ DoEachNewRegion(a, b) \subseteq Cells
  BY DEF DoEachVisibleRegion, DoEachNewRegion
<1>b. RegionsTyped
  BY DEF RegionsTyped
<1>c. Crash => TypeOK'
  BY DEF Crash
<1>1. ASSUME NEW t \in Threads, NEW o \in Objects, NEW c \in Cells, AddObjectToWorld(t, o, c)
      PROVE  TypeOK'
  BY <1>1, <1>a, IntroduceTyped DEF AddObjectToWorld
<1>2. ASSUME NEW t \in Threads, NEW o \in Objects, NEW c \in Cells, PendWarp(t, o, c)
      PROVE  TypeOK'
  BY <1>2 DEF PendWarp
<1>3. ASSUME NEW t \in Threads, NEW o \in Objects, NEW c \in Cells, Move(t, o, c)
      PROVE  TypeOK'
  BY <1>3 DEF Move, Drawn
<1>4. ASSUME NEW t \in Threads, NEW o \in Objects, StartLeave(t, o)
      PROVE  TypeOK'
  BY <1>4 DEF StartLeave
<1> DEFINE Under(t) == call[t] \in [pc : Phases, obj : Objects, from : Cells,
                                    to : Cells \cup {Nowhere}]
<1>d. ASSUME NEW t \in Threads, call[t].pc # "idle" PROVE Under(t)
  BY <1>d DEF Idle
<1>e. ASSUME NEW t \in Threads, Under(t), NEW c \in Cells,
             CanAdd(call[t].obj), AddObject(call[t].obj, c)
      PROVE  RegionsTyped'
  BY <1>e, <1>b, AddKeeps DEF CanAdd
<1>f. ASSUME NEW t \in Threads, Under(t), NEW c \in Cells,
             CanRemove(call[t].obj, c), RemoveObject(call[t].obj, c)
      PROVE  RegionsTyped'
  BY <1>f, <1>b, RemoveKeeps
<1>g. ASSUME NEW t \in Threads, Under(t), NEW ph \in Phases,
             call' = [call EXCEPT ![t].pc = ph]
      PROVE  call' \in [Threads -> {Idle} \cup
                          [pc : Phases, obj : Objects, from : Cells, to : Cells \cup {Nowhere}]]
  <2>1. [call[t] EXCEPT !.pc = ph] \in
          [pc : Phases, obj : Objects, from : Cells, to : Cells \cup {Nowhere}]
    BY <1>g
  <2> QED
    BY <2>1, <1>g
<1>5. ASSUME NEW t \in Threads, FinishAdd(t)
      PROVE  TypeOK'
  BY <1>5, <1>c, <1>d, <1>e DEF FinishAdd, RegionsTyped
<1>6. ASSUME NEW t \in Threads, RemoveFromRegion(t)
      PROVE  TypeOK'
  <2>1. Under(t)
    BY <1>6, <1>d DEF RemoveFromRegion
  <2>2. CASE ~Crash
    <3>1. /\ RegionsTyped'
          /\ call' = [call EXCEPT ![t].pc = "sayleave"]
          /\ UNCHANGED <<pos, seen, crashed>>
      BY <1>6, <2>1, <2>2, <1>f DEF RemoveFromRegion
    <3> QED
      BY <3>1, <2>1, <1>g DEF RegionsTyped
  <2> QED
    BY <2>2, <1>c
<1>7. ASSUME NEW t \in Threads, SendLeave(t)
      PROVE  TypeOK'
  BY <1>7, <1>d DEF SendLeave
<1>8. ASSUME NEW t \in Threads, WarpEnd(t)
      PROVE  TypeOK'
  <2>1. Under(t) /\ call[t].to \in Cells
    BY <1>8, <1>d DEF WarpEnd, CallsOK, CallOK
  <2> QED
    BY <2>1, <1>8, <1>a, IntroduceTyped DEF WarpEnd
<1>9. ASSUME NEW t \in Threads, MoveRemove(t)
      PROVE  TypeOK'
  <2>1. Under(t)
    BY <1>9, <1>d DEF MoveRemove
  <2>2. CASE ~Crash
    <3>1. /\ RegionsTyped'
          /\ call' = [call EXCEPT ![t].pc = "readd"]
          /\ UNCHANGED <<pos, seen, crashed>>
      BY <1>9, <2>1, <2>2, <1>f DEF MoveRemove
    <3> QED
      BY <3>1, <2>1, <1>g DEF RegionsTyped
  <2> QED
    BY <2>2, <1>c
<1>10. ASSUME NEW t \in Threads, MoveAdd(t)
       PROVE  TypeOK'
  <2>1. Under(t)
    BY <1>10, <1>d DEF MoveAdd
  <2>2. CASE ~Crash
    <3>1. /\ RegionsTyped'
          /\ call' = [call EXCEPT ![t].pc = "introduce"]
          /\ UNCHANGED <<pos, seen, crashed>>
      BY <1>10, <2>1, <2>2, <1>e DEF MoveAdd
    <3> QED
      BY <3>1, <2>1, <1>g DEF RegionsTyped
  <2> QED
    BY <2>2, <1>c
<1>11. ASSUME NEW t \in Threads, enterProc(t)
       PROVE  TypeOK'
  BY <1>11, <1>a, <1>d, IntroduceTyped DEF enterProc
<1> QED
  BY <1>1, <1>2, <1>3, <1>4, <1>5, <1>6, <1>7, <1>8, <1>9, <1>10, <1>11
     DEF Next, ThreadStep, vars

-----------------------------------------------------------------------------
(* The invariant *)

\* No two calls are under way on one object.
Own ==
  \A t, u \in Threads :
    t # u /\ call[t] # Idle /\ call[u] # Idle => call[t].obj # call[u].obj

\* An object is listed in the region of its coordinates, unless a call has written
\* new coordinates and has yet to take the object out of the old region.
PlacedAt(o) ==
  InWorld(o) => \/ pRegion[o] = pos[o]
                \/ \E t \in Threads : call[t].pc = "remove" /\ call[t].obj = o

Placed == \A o \in Objects : PlacedAt(o)

RegionInv ==
  /\ TypeOK
  /\ Indexed
  /\ CallsOK
  /\ Own
  /\ Placed
  /\ ~crashed

\* A step of thread t on object o leaves the other calls and objects as they were.
LEMMA OthersUndisturbed ==
  ASSUME RegionInv, NEW t \in Threads, NEW o \in Objects,
         call[t] = Idle \/ call[t].obj = o,
         \A u \in Threads \ {t} : call[u] # Idle => call[u].obj # o,
         \A u \in Threads \ {t} : call'[u] = call[u],
         call'[t] = Idle \/ call'[t].obj = o,
         \A q \in Objects \ {o} : pos'[q] = pos[q] /\ pRegion'[q] = pRegion[q],
         CallOK(t)', PlacedAt(o)'
  PROVE  CallsOK' /\ Own' /\ Placed'
<1>1. ASSUME NEW u \in Threads \ {t} PROVE CallOK(u)'
  <2>1. CASE call[u] = Idle
    BY <2>1 DEF CallOK, Idle
  <2>2. CASE call[u] # Idle
    <3>1. call[u].obj \in Objects \ {o}
      BY <2>2 DEF RegionInv, TypeOK
    <3> QED
      BY <3>1 DEF CallOK, RegionInv, CallsOK, InWorld
  <2> QED
    BY <2>1, <2>2
<1>2. Own'
  BY DEF Own, RegionInv
<1>3. ASSUME NEW q \in Objects \ {o} PROVE PlacedAt(q)'
  <2>1. PlacedAt(q)
    BY DEF RegionInv, Placed
  <2>2. ASSUME NEW u \in Threads, call[u].pc = "remove", call[u].obj = q
        PROVE  call'[u] = call[u]
    BY <2>2 DEF Idle
  <2> QED
    BY <2>1, <2>2 DEF PlacedAt, InWorld
<1> QED
  BY <1>1, <1>2, <1>3 DEF CallsOK, Placed

LEMMA InvInit == Init => RegionInv
<1> SUFFICES ASSUME Init PROVE RegionInv
  OBVIOUS
<1>1. TypeOK /\ ~crashed
  BY TypeInit DEF Init
<1>2. \A o \in Objects : ~InWorld(o)
  BY DEF Init, InWorld
<1>3. \A k \in Kinds, c \in Cells : Len(list[k][c]) = 0
  BY EmptySeq DEF Init
<1>4. Indexed
  BY <1>2, <1>3 DEF Indexed
<1>5. \A t \in Threads : call[t] = Idle
  BY DEF Init
<1>6. CallsOK /\ Own
  BY <1>5 DEF CallsOK, CallOK, Own, Idle
<1> QED
  BY <1>1, <1>2, <1>4, <1>6 DEF RegionInv, Placed, PlacedAt

LEMMA InvStep ==
  ASSUME Isolated, RegionInv, [Next]_vars
  PROVE  RegionInv'
<1> USE DEF RegionInv
<1>t. TypeOK'
  BY TypeStep
<1>r. RegionsTyped
  BY DEF RegionsTyped, TypeOK
<1>i. UNCHANGED <<pRegion, region_index, list>> => Indexed'
  BY DEF Indexed, InWorld
<1>s. ASSUME NEW t \in Threads, NEW o \in Objects, MayStart(t, o)
      PROVE  /\ call[t] = Idle /\ ~crashed
             /\ \A u \in Threads \ {t} : call[u] # Idle => call[u].obj # o
  BY <1>s DEF MayStart, Isolated
<1>u. ASSUME NEW t \in Threads, call[t].pc # "idle"
      PROVE  /\ call[t] # Idle
             /\ call[t].obj \in Objects
             /\ call[t].from \in Cells /\ call[t].to \in Cells \cup {Nowhere}
             /\ call[t].pc \in Phases
             /\ CallOK(t) /\ PlacedAt(call[t].obj)
             /\ \A u \in Threads \ {t} : call[u] # Idle => call[u].obj # call[t].obj
  <2>1. call[t] # Idle
    BY <1>u DEF Idle
  <2>2. call[t] \in [pc : Phases, obj : Objects, from : Cells, to : Cells \cup {Nowhere}]
    BY <2>1 DEF TypeOK
  <2> QED
    BY <2>1, <2>2 DEF Own, CallsOK, Placed
<1>p. ASSUME NEW t \in Threads, call[t].pc \in Phases, call[t].pc # "remove",
             InWorld(call[t].obj)
      PROVE  pRegion[call[t].obj] = pos[call[t].obj]
  <2>1. call[t].pc # "idle"
    BY <1>p DEF Phases
  <2>2. ASSUME NEW u \in Threads, call[u].pc = "remove", call[u].obj = call[t].obj
        PROVE  FALSE
    BY <2>2, <2>1, <1>p, <1>u DEF Idle
  <2> QED
    BY <2>1, <2>2, <1>p, <1>u DEF PlacedAt
<1>1. ASSUME NEW t \in Threads, NEW o \in Objects, NEW c \in Cells, AddObjectToWorld(t, o, c)
      PROVE  RegionInv'
  <2>1. /\ call' = [call EXCEPT ![t] = Call(o, "add", c, c)]
        /\ pos' = [pos EXCEPT ![o] = c] /\ ~InWorld(o)
        /\ UNCHANGED <<pRegion, region_index, list, crashed>>
    BY <1>1 DEF AddObjectToWorld
  <2>2. CallOK(t)' /\ PlacedAt(o)'
    BY <2>1 DEF CallOK, Call, PlacedAt, InWorld, TypeOK
  <2>3. CallsOK' /\ Own' /\ Placed'
    BY <1>1, <1>s, <2>1, <2>2, OthersUndisturbed DEF AddObjectToWorld, Call, TypeOK
  <2> QED
    BY <1>t, <1>i, <2>1, <2>3
<1>2. ASSUME NEW t \in Threads, NEW o \in Objects, NEW c \in Cells, PendWarp(t, o, c)
      PROVE  RegionInv'
  <2>1. /\ call' = [call EXCEPT ![t] = Call(o, "leave", pos[o], c)]
        /\ InWorld(o) /\ MayStart(t, o)
        /\ UNCHANGED <<pos, pRegion, region_index, list, crashed>>
    BY <1>2 DEF PendWarp
  <2>2. pRegion[o] = pos[o]
    BY <2>1, <1>s DEF Placed, PlacedAt, Idle
  <2>3. CallOK(t)' /\ PlacedAt(o)'
    BY <2>1, <2>2 DEF CallOK, Call, PlacedAt, InWorld, TypeOK
  <2>4. CallsOK' /\ Own' /\ Placed'
    BY <1>s, <2>1, <2>3, OthersUndisturbed DEF Call, TypeOK
  <2> QED
    BY <1>t, <1>i, <2>1, <2>4
<1>3. ASSUME NEW t \in Threads, NEW o \in Objects, NEW c \in Cells, Move(t, o, c)
      PROVE  RegionInv'
  <2>1. /\ call' = [call EXCEPT ![t] = Call(o, "remove", pos[o], c)]
        /\ pos' = [pos EXCEPT ![o] = c]
        /\ InWorld(o) /\ MayStart(t, o)
        /\ UNCHANGED <<pRegion, region_index, list, crashed>>
    BY <1>3 DEF Move
  <2>2. pRegion[o] = pos[o]
    BY <2>1, <1>s DEF Placed, PlacedAt, Idle
  <2>3. call'[t].pc = "remove" /\ call'[t].obj = o /\ call'[t].from = pos[o]
    BY <2>1 DEF Call, TypeOK
  <2>4. CallOK(t)' /\ PlacedAt(o)'
    BY <2>1, <2>2, <2>3 DEF CallOK, PlacedAt
  <2>5. CallsOK' /\ Own' /\ Placed'
    BY <1>s, <2>1, <2>3, <2>4, OthersUndisturbed DEF TypeOK
  <2> QED
    BY <1>t, <1>i, <2>1, <2>5
<1>4. ASSUME NEW t \in Threads, NEW o \in Objects, StartLeave(t, o)
      PROVE  RegionInv'
  <2>1. /\ call' = [call EXCEPT ![t] = Call(o, "leave", pos[o], Nowhere)]
        /\ InWorld(o) /\ MayStart(t, o)
        /\ UNCHANGED <<pos, pRegion, region_index, list, crashed>>
    BY <1>4 DEF StartLeave
  <2>2. pRegion[o] = pos[o]
    BY <2>1, <1>s DEF Placed, PlacedAt, Idle
  <2>3. CallOK(t)' /\ PlacedAt(o)'
    BY <2>1, <2>2 DEF CallOK, Call, PlacedAt, InWorld, TypeOK
  <2>4. CallsOK' /\ Own' /\ Placed'
    BY <1>s, <2>1, <2>3, OthersUndisturbed DEF Call, TypeOK
  <2> QED
    BY <1>t, <1>i, <2>1, <2>4
<1>5. ASSUME NEW t \in Threads, FinishAdd(t)
      PROVE  RegionInv'
  <2>0. PICK o \in Objects : call[t].obj = o
    BY <1>5, <1>u DEF FinishAdd
  <2>1. call[t].pc = "add" /\ CanAdd(o) /\ call[t].from = pos[o]
    BY <2>0, <1>5, <1>u DEF FinishAdd, CallOK, CanAdd
  <2>2. /\ AddObject(o, pos[o])
        /\ call' = [call EXCEPT ![t] = Idle]
        /\ UNCHANGED <<pos, crashed>>
    BY <2>0, <1>5, <2>1 DEF FinishAdd
  <2>3. o \in Objects /\ pos[o] \in Cells /\ ~InWorld(o)
    BY <2>0, <2>1, <1>u DEF CanAdd, TypeOK
  <2>4. Indexed'
    BY <2>0, <1>r, <2>2, <2>3, AddKeeps
  <2>5. pRegion' = [pRegion EXCEPT ![o] = pos[o]] /\ call'[t] = Idle
    BY <2>0, <2>2 DEF AddObject, TypeOK
  <2>6. CallOK(t)' /\ PlacedAt(o)'
    BY <2>0, <2>2, <2>3, <2>5 DEF CallOK, PlacedAt, Idle, TypeOK
  <2>7. CallsOK' /\ Own' /\ Placed'
    BY <2>0, <1>u, <2>1, <2>2, <2>3, <2>5, <2>6, OthersUndisturbed DEF TypeOK
  <2> QED
    BY <2>0, <1>t, <2>2, <2>4, <2>7
<1>6. ASSUME NEW t \in Threads, RemoveFromRegion(t)
      PROVE  RegionInv'
  <2> DEFINE o == call[t].obj
  <2>1. call[t].pc = "leave" /\ o \in Objects /\ InWorld(o)
    BY <1>6, <1>u DEF RemoveFromRegion, CallOK
  <2>2. pRegion[o] = pos[o] /\ pos[o] \in Cells
    BY <2>1, <1>p DEF TypeOK, Phases
  <2>3. CanRemove(o, pos[o])
    BY <2>1, <2>2 DEF CanRemove, Indexed
  <2>4. /\ RemoveObject(o, pos[o])
        /\ call' = [call EXCEPT ![t].pc = "sayleave"]
        /\ UNCHANGED <<pos, crashed>>
    BY <1>6, <2>3 DEF RemoveFromRegion
  <2>5. Indexed'
    BY <1>r, <2>1, <2>2, <2>3, <2>4, RemoveKeeps
  <2>6. /\ pRegion' = [pRegion EXCEPT ![o] = Nowhere]
        /\ call'[t] = [call[t] EXCEPT !.pc = "sayleave"]
    BY <2>4 DEF RemoveObject, TypeOK
  <2>7. call'[t].pc = "sayleave" /\ call'[t].obj = o
    BY <2>1, <2>6, <1>u DEF TypeOK
  <2>8. CallOK(t)' /\ PlacedAt(o)'
    BY <2>1, <2>6, <2>7 DEF CallOK, PlacedAt, InWorld, TypeOK
  <2>9. CallsOK' /\ Own' /\ Placed'
    BY <1>u, <2>1, <2>4, <2>6, <2>7, <2>8, OthersUndisturbed DEF TypeOK
  <2> QED
    BY <1>t, <2>4, <2>5, <2>9
<1>7. ASSUME NEW t \in Threads, SendLeave(t)
      PROVE  RegionInv'
  <2>0. PICK o \in Objects : call[t].obj = o
    BY <1>7, <1>u DEF SendLeave
  <2>1. call[t].pc = "sayleave" /\ o \in Objects /\ ~InWorld(o)
    BY <2>0, <1>7, <1>u DEF SendLeave, CallOK
  <2>2. /\ call' = [call EXCEPT ![t] = IF @.to = Nowhere THEN Idle
                                       ELSE [@ EXCEPT !.pc = "warpend"]]
        /\ UNCHANGED <<pos, pRegion, region_index, list, crashed>>
    BY <2>0, <1>7 DEF SendLeave
  <2>3. call'[t] = IF call[t].to = Nowhere THEN Idle ELSE [call[t] EXCEPT !.pc = "warpend"]
    BY <2>0, <2>2 DEF TypeOK
  <2>4. \/ call'[t] = Idle
        \/ call'[t].pc = "warpend" /\ call'[t].obj = o /\ call'[t].to # Nowhere
    BY <2>0, <2>1, <2>3, <1>u DEF TypeOK, Idle
  <2>5. CallOK(t)' /\ PlacedAt(o)'
    BY <2>0, <2>1, <2>2, <2>4 DEF CallOK, PlacedAt, InWorld, Idle
  <2>6. CallsOK' /\ Own' /\ Placed'
    BY <2>0, <1>u, <2>1, <2>2, <2>4, <2>5, OthersUndisturbed DEF TypeOK
  <2> QED
    BY <2>0, <1>t, <1>i, <2>2, <2>6
<1>8. ASSUME NEW t \in Threads, WarpEnd(t)
      PROVE  RegionInv'
  <2> DEFINE o == call[t].obj
             c == call[t].to
  <2>1. /\ call[t].pc = "warpend" /\ o \in Objects /\ ~InWorld(o) /\ c \in Cells
    BY <1>8, <1>u DEF WarpEnd, CallOK
  <2>2. /\ call' = [call EXCEPT ![t] = Call(o, "add", c, c)]
        /\ pos' = [pos EXCEPT ![o] = c]
        /\ UNCHANGED <<pRegion, region_index, list, crashed>>
    BY <1>8 DEF WarpEnd
  <2>3. call'[t].pc = "add" /\ call'[t].obj = o /\ call'[t].from = c /\ pos'[o] = c
    BY <2>1, <2>2 DEF Call, TypeOK
  <2>4. CallOK(t)' /\ PlacedAt(o)'
    BY <2>1, <2>2, <2>3 DEF CallOK, PlacedAt, InWorld
  <2>5. CallsOK' /\ Own' /\ Placed'
    BY <1>u, <2>1, <2>2, <2>3, <2>4, OthersUndisturbed DEF TypeOK
  <2> QED
    BY <1>t, <1>i, <2>2, <2>5
<1>9. ASSUME NEW t \in Threads, MoveRemove(t)
      PROVE  RegionInv'
  <2> DEFINE o == call[t].obj
             c == call[t].from
  <2>1. call[t].pc = "remove" /\ o \in Objects /\ pRegion[o] = c /\ c \in Cells
    BY <1>9, <1>u DEF MoveRemove, CallOK
  <2>2. CanRemove(o, c)
    <3>1. InWorld(o)
      BY <2>1, GridAssumption DEF InWorld
    <3> QED
      BY <2>1, <3>1 DEF CanRemove, Indexed
  <2>3. /\ RemoveObject(o, c)
        /\ call' = [call EXCEPT ![t].pc = "readd"]
        /\ UNCHANGED <<pos, crashed>>
    BY <1>9, <2>2 DEF MoveRemove
  <2>4. Indexed'
    BY <1>r, <2>1, <2>2, <2>3, RemoveKeeps
  <2>5. /\ pRegion' = [pRegion EXCEPT ![o] = Nowhere]
        /\ call'[t] = [call[t] EXCEPT !.pc = "readd"]
    BY <2>3 DEF RemoveObject, TypeOK
  <2>6. call'[t].pc = "readd" /\ call'[t].obj = o
    BY <2>1, <2>5, <1>u DEF TypeOK
  <2>7. CallOK(t)' /\ PlacedAt(o)'
    BY <2>1, <2>5, <2>6 DEF CallOK, PlacedAt, InWorld, TypeOK
  <2>8. CallsOK' /\ Own' /\ Placed'
    BY <1>u, <2>1, <2>3, <2>5, <2>6, <2>7, OthersUndisturbed DEF TypeOK
  <2> QED
    BY <1>t, <2>3, <2>4, <2>8
<1>10. ASSUME NEW t \in Threads, MoveAdd(t)
       PROVE  RegionInv'
  <2> DEFINE o == call[t].obj
  <2>1. call[t].pc = "readd" /\ o \in Objects /\ ~InWorld(o) /\ pos[o] \in Cells
    BY <1>10, <1>u DEF MoveAdd, CallOK, TypeOK
  <2>2. /\ AddObject(o, pos[o])
        /\ call' = [call EXCEPT ![t].pc = "introduce"]
        /\ UNCHANGED <<pos, crashed>>
    BY <1>10, <2>1 DEF MoveAdd, CanAdd
  <2>3. Indexed'
    BY <1>r, <2>1, <2>2, AddKeeps
  <2>4. /\ pRegion' = [pRegion EXCEPT ![o] = pos[o]]
        /\ call'[t] = [call[t] EXCEPT !.pc = "introduce"]
    BY <2>2 DEF AddObject, TypeOK
  <2>5. call'[t].pc = "introduce" /\ call'[t].obj = o
    BY <2>1, <2>4, <1>u DEF TypeOK
  <2>6. CallOK(t)' /\ PlacedAt(o)'
    BY <2>1, <2>2, <2>4, <2>5, GridAssumption DEF CallOK, PlacedAt, InWorld, TypeOK
  <2>7. CallsOK' /\ Own' /\ Placed'
    BY <1>u, <2>1, <2>2, <2>4, <2>5, <2>6, OthersUndisturbed DEF TypeOK
  <2> QED
    BY <1>t, <2>2, <2>3, <2>7
<1>11. ASSUME NEW t \in Threads, enterProc(t)
       PROVE  RegionInv'
  <2>0. PICK o \in Objects : call[t].obj = o
    BY <1>11, <1>u DEF enterProc
  <2>1. call[t].pc = "introduce" /\ o \in Objects
    BY <1>11, <1>u DEF enterProc
  <2>2. /\ call' = [call EXCEPT ![t] = Idle]
        /\ UNCHANGED <<pos, pRegion, region_index, list, crashed>>
    BY <2>0, <1>11 DEF enterProc
  <2>3. call'[t] = Idle
    BY <2>0, <2>2 DEF TypeOK
  <2>4. CallOK(t)' /\ PlacedAt(o)'
    <3>1. InWorld(o) => pRegion[o] = pos[o]
      BY <2>0, <2>1, <1>p DEF Phases
    <3> QED
      BY <2>0, <3>1, <2>2, <2>3 DEF CallOK, PlacedAt, InWorld, Idle
  <2>5. CallsOK' /\ Own' /\ Placed'
    BY <2>0, <1>u, <2>1, <2>2, <2>3, <2>4, OthersUndisturbed DEF TypeOK
  <2> QED
    BY <2>0, <1>t, <1>i, <2>2, <2>5
<1>12. CASE UNCHANGED vars
  BY <1>12 DEF vars, TypeOK, Indexed, InWorld, CallsOK, CallOK, Own, Placed, PlacedAt
<1> QED
  BY <1>1, <1>2, <1>3, <1>4, <1>5, <1>6, <1>7, <1>8, <1>9, <1>10, <1>11, <1>12
     DEF Next, ThreadStep

\* If no two threads work on one object at once, the invariant holds throughout.
THEOREM RegionInvariance ==
  ASSUME Isolated
  PROVE  Spec => []RegionInv
<1>1. Init => RegionInv
  BY InvInit
<1>2. RegionInv /\ [Next]_vars => RegionInv'
  BY InvStep
<1> QED
  BY <1>1, <1>2, PTL DEF Spec

\* Region.cpp:93 - no ASSERT of addObject and removeObject fails, whatever calls
\* threads make on different objects.
THEOREM Correct ==
  ASSUME Isolated
  PROVE  Spec => []RegionAlwaysCorrect
<1>1. RegionInv => RegionAlwaysCorrect
  BY DEF RegionInv, RegionAlwaysCorrect
<1> QED
  BY <1>1, RegionInvariance, PTL

\* The vectors of Region and the pRegion and region_index of the objects agree.
THEOREM ListsIndexed ==
  ASSUME Isolated
  PROVE  Spec => []Indexed
<1>1. RegionInv => Indexed
  BY DEF RegionInv
<1> QED
  BY <1>1, RegionInvariance, PTL

\* Every variable of the world's regions keeps its type.
THEOREM Typing ==
  ASSUME Isolated
  PROVE  Spec => []TypeOK
<1>1. RegionInv => TypeOK
  BY DEF RegionInv
<1> QED
  BY <1>1, RegionInvariance, PTL
-----------------------------------------------------------------------------
(* What clients draw *)

\* Calls do not overlap, and the loops over visible regions reach all a client
\* sees (Reached): the objects keep above the last row of the map, within three
\* rows of each other.
Reached ==
  \A a, b \in Cells : IsVisibleRegion(a, b) => b \in DoEachVisibleRegion(a)

AllSeen == Isolation = "world" /\ Reached

ThreeRows ==
  \A a, b \in Cells : b[2] < a[2] + 3 /\ b[2] < RegionHeight - 1

Called(o) == \E t \in Threads : call[t] # Idle /\ call[t].obj = o

Standing(o) == InWorld(o) /\ ~Called(o)

Solo == \A t, u \in Threads : call[t] # Idle /\ call[u] # Idle => t = u

\* A client draws what it can see, and nothing that is neither in the world nor
\* on its way in or out.
InSight == \A p \in Players : \A o \in seen[p] : IsVisibleRegion(pos[p], pos[o])

Real ==
  \A p \in Players : \A o \in seen[p] :
    (InWorld(p) \/ Called(p)) /\ (InWorld(o) \/ Called(o))

\* Two objects without a call know each other if they can.
Met ==
  \A p \in Players, o \in Objects :
    p # o /\ Standing(p) /\ Standing(o) /\ IsVisibleRegion(pos[p], pos[o]) => o \in seen[p]

\* An object on its way in has met all it can see; one that moves, those it could
\* see from its old region too.
MetBy(t) ==
  LET x == call[t].obj
  IN  call[t].pc \in {"add", "remove", "readd", "introduce"} =>
        \A o \in Objects \ {x} :
          /\ Standing(o) /\ IsVisibleRegion(pos[x], pos[o])
          /\ call[t].pc = "add" \/ IsVisibleRegion(call[t].from, pos[o])
          => /\ x \in Players => o \in seen[x]
             /\ o \in Players => x \in seen[o]

Meeting == \A t \in Threads : MetBy(t)

ViewInv == Solo /\ InSight /\ Real /\ Met /\ Meeting

LEMMA VisibleSymmetric ==
  ASSUME NEW a \in Cells, NEW b \in Cells
  PROVE  IsVisibleRegion(a, b) <=> IsVisibleRegion(b, a)
<1>1. a[1] \in Int /\ a[2] \in Int /\ b[1] \in Int /\ b[2] \in Int
  BY GridAssumption
<1> QED
  BY <1>1 DEF IsVisibleRegion, Dist

\* Three rows above the last one are Reached.
LEMMA RowsReached == ThreeRows => Reached
<1> SUFFICES ASSUME ThreeRows, NEW a \in Cells, NEW b \in Cells
             PROVE  b[2] < Bottom(a)
  BY DEF Reached, DoEachVisibleRegion
<1>1. a[2] \in Int /\ b[2] \in Int /\ RegionHeight \in Int
  BY GridAssumption
<1>2. b[2] < a[2] + 3 /\ b[2] < RegionHeight - 1
  BY DEF ThreeRows
<1> QED
  BY <1>1, <1>2 DEF Bottom

\* The vectors of some regions hold the objects that stand there.
LEMMA WhoIsListed ==
  ASSUME TypeOK, Indexed, NEW k \in Kinds, NEW cs \in SUBSET Cells, NEW o \in Objects
  PROVE  o \in Listed(k, cs) <=> Kind(o) = k /\ pRegion[o] \in cs
<1>1. ASSUME o \in Listed(k, cs) PROVE Kind(o) = k /\ pRegion[o] \in cs
  <2>1. PICK c \in cs : \E i \in 1 .. Len(list[k][c]) : list[k][c][i] = o
    BY <1>1 DEF Listed
  <2> QED
    BY <2>1 DEF Indexed
<1>2. ASSUME Kind(o) = k, pRegion[o] \in cs PROVE o \in Listed(k, cs)
  <2>1. InWorld(o) /\ pRegion[o] \in Cells
    BY <1>2, GridAssumption DEF InWorld
  <2>2. /\ region_index[o] \in 0 .. Len(list[k][pRegion[o]]) - 1
        /\ list[k][pRegion[o]][region_index[o] + 1] = o
    BY <1>2, <2>1 DEF Indexed
  <2>3. PICK c \in cs : c = pRegion[o]
    BY <1>2
  <2>4. PICK j : j = region_index[o] + 1
    OBVIOUS
  <2>5. list[k][c] \in Seq(Objects) /\ region_index[o] \in Int
    BY <2>3 DEF TypeOK
  <2>6. j \in 1 .. Len(list[k][c]) /\ list[k][c][j] = o
    BY <2>2, <2>3, <2>4, <2>5, LenProperties
  <2> QED
    BY <2>6 DEF Listed
<1> QED
  BY <1>1, <1>2

\* Whom the functors introduce o to, and what the clients draw afterwards.
LEMMA IntroduceEffect ==
  ASSUME TypeOK, Indexed, NEW o \in Objects, NEW cs \in SUBSET Cells, NEW where,
         NEW p \in Players, NEW q \in Objects
  PROVE  q \in Introduce(o, cs, where)[p] <=>
           /\ IsVisibleRegion(where[p], where[q])
           /\ \/ q \in seen[p]
              \/ p = o /\ q # o /\ pRegion[q] \in cs
              \/ p # o /\ q = o /\ pRegion[p] \in cs
<1>1. p \in Objects /\ Kind(p) = "client"
  BY DEF Objects, Kind
<1>2. "client" \in Kinds /\ "movable" \in Kinds /\ Kind(q) \in {"client", "movable"}
  BY DEF Kinds, Kind
<1>3. p \in Listed("client", cs) <=> pRegion[p] \in cs
  BY <1>1, <1>2, WhoIsListed
<1>4. q \in Listed("client", cs) \cup Listed("movable", cs) <=> pRegion[q] \in cs
  BY <1>2, WhoIsListed
<1> QED
  BY <1>3, <1>4 DEF Introduce, Drawn

Knows(x, q) ==
  /\ x \in Players => q \in seen[x]
  /\ q \in Players => x \in seen[q]

\* What a step of thread t on x has to do for what clients draw.
LEMMA OthersSeeTheSame ==
  ASSUME ViewInv, TypeOK, TypeOK', NEW t \in Threads, NEW x \in Objects,
         \A u \in Threads \ {t} : call[u] = Idle /\ call'[u] = Idle,
         call[t] = Idle \/ call[t].obj = x,
         call'[t] = Idle \/ call'[t].obj = x,
         \A q \in Objects \ {x} : pos'[q] = pos[q] /\ pRegion'[q] = pRegion[q],
         \A p \in Players \ {x}, q \in Objects \ {x} : q \in seen'[p] <=> q \in seen[p],
         \A p \in Players : \A q \in seen'[p] :
            p = x \/ q = x => /\ IsVisibleRegion(pos'[p], pos'[q])
                              /\ p # x => InWorld(p)
                              /\ q # x => InWorld(q)
                              /\ pRegion'[x] # Nowhere \/ call'[t] # Idle,
         call'[t] = Idle /\ pRegion'[x] # Nowhere =>
            \A q \in Objects \ {x} :
               InWorld(q) /\ IsVisibleRegion(pos'[x], pos[q]) => Knows(x, q)',
         call'[t] # Idle => MetBy(t)'
  PROVE  ViewInv'
<1> USE DEF ViewInv
<1>0. Players \subseteq Objects
  BY DEF Objects
<1>1. Solo'
  BY DEF Solo
<1>2. ASSUME NEW q \in Objects \ {x}
      PROVE  /\ ~Called(q) /\ ~Called(q)'
             /\ Standing(q) <=> InWorld(q)
             /\ InWorld(q)' <=> InWorld(q)
             /\ Standing(q)' <=> InWorld(q)
  BY DEF Called, Standing, InWorld
<1>3. /\ Called(x)' <=> call'[t] # Idle
      /\ InWorld(x)' <=> pRegion'[x] # Nowhere
  BY DEF Called, InWorld
<1>4. InSight'
  <2> SUFFICES ASSUME NEW p \in Players, NEW q \in seen'[p]
               PROVE  IsVisibleRegion(pos'[p], pos'[q])
    BY DEF InSight
  <2>1. q \in Objects
    BY DEF TypeOK
  <2> QED
    BY <1>0, <2>1 DEF InSight
<1>5. Real'
  <2> SUFFICES ASSUME NEW p \in Players, NEW q \in seen'[p]
               PROVE  (InWorld(p)' \/ Called(p)') /\ (InWorld(q)' \/ Called(q)')
    BY DEF Real
  <2>1. q \in Objects
    BY DEF TypeOK
  <2>2. CASE p # x /\ q # x
    <3>1. q \in seen[p]
      BY <2>1, <2>2
    <3> QED
      BY <3>1, <1>0, <1>2, <2>1, <2>2 DEF Real
  <2>3. CASE p = x \/ q = x
    BY <2>3, <2>1, <1>0, <1>2, <1>3
  <2> QED
    BY <2>2, <2>3
<1>6. Met'
  <2> SUFFICES ASSUME NEW p \in Players, NEW q \in Objects, p # q,
                      Standing(p)', Standing(q)', IsVisibleRegion(pos'[p], pos'[q])
               PROVE  q \in seen'[p]
    BY DEF Met
  <2>1. CASE p # x /\ q # x
    BY <2>1, <1>0, <1>2 DEF Met
  <2>2. CASE p = x
    BY <2>2, <1>2, <1>3 DEF Standing, Knows
  <2>3. CASE q = x
    <3>1. IsVisibleRegion(pos'[q], pos'[p])
      BY <1>0, VisibleSymmetric DEF TypeOK
    <3> QED
      BY <3>1, <2>3, <1>0, <1>2, <1>3 DEF Standing, Knows
  <2> QED
    BY <2>1, <2>2, <2>3
<1>7. Meeting'
  <2> SUFFICES ASSUME NEW u \in Threads PROVE MetBy(u)'
    BY DEF Meeting
  <2>1. CASE call'[u] = Idle
    BY <2>1 DEF MetBy, Idle
  <2> QED
    BY <2>1
<1> QED
  BY <1>1, <1>4, <1>5, <1>6, <1>7

\* The steps of a call start from here.
LEMMA OneCall ==
  ASSUME ViewInv, TypeOK, NEW t \in Threads, call[t] # Idle
  PROVE  /\ \A u \in Threads \ {t} : call[u] = Idle
         /\ call[t].obj \in Objects
         /\ \A q \in Objects \ {call[t].obj} : ~Called(q)
<1>1. \A u \in Threads \ {t} : call[u] = Idle
  BY DEF ViewInv, Solo
<1> QED
  BY <1>1 DEF Called, TypeOK

\* An object that enters the world, or comes out of a warp, at c: it is introduced
\* to everybody around, and everybody to it.
LEMMA ComesIn ==
  ASSUME Reached, RegionInv, TypeOK', ViewInv,
         NEW t \in Threads, NEW x \in Objects, NEW c \in Cells,
         \A u \in Threads \ {t} : call[u] = Idle,
         call[t] = Idle \/ call[t].obj = x,
         ~InWorld(x),
         pos' = [pos EXCEPT ![x] = c],
         seen' = Introduce(x, DoEachVisibleRegion(c), pos'),
         call' = [call EXCEPT ![t] = Call(x, "add", c, c)],
         UNCHANGED pRegion
  PROVE  ViewInv'
<1> USE DEF RegionInv
<1>0. Players \subseteq Objects
  BY DEF Objects
<1>1. /\ \A u \in Threads \ {t} : call'[u] = Idle
      /\ call'[t] # Idle /\ call'[t].pc = "add" /\ call'[t].obj = x
  BY DEF TypeOK, Call, Idle
<1>2. /\ pos'[x] = c
      /\ \A q \in Objects \ {x} : pos'[q] = pos[q]
  BY DEF TypeOK
<1>3. ASSUME NEW q \in Objects \ {x}
      PROVE  ~Called(q) /\ ~Called(q)' /\ InWorld(q)' = InWorld(q)
  BY <1>1 DEF Called, InWorld
<1>4. ASSUME NEW q \in Objects \ {x}, InWorld(q) PROVE pRegion[q] = pos[q]
  <2>1. ASSUME NEW u \in Threads PROVE ~(call[u].pc = "remove" /\ call[u].obj = q)
    BY DEF Idle
  <2> QED
    BY <2>1, <1>4 DEF Placed, PlacedAt
<1>5. PICK around \in SUBSET Cells : around = DoEachVisibleRegion(c)
  BY DEF DoEachVisibleRegion
<1>6. ASSUME NEW p \in Players, NEW q \in Objects
      PROVE  q \in seen'[p] <=>
               /\ IsVisibleRegion(pos'[p], pos'[q])
               /\ \/ q \in seen[p]
                  \/ p = x /\ q # x /\ pRegion[q] \in around
                  \/ p # x /\ q = x /\ pRegion[p] \in around
  <2>1. seen' = Introduce(x, around, pos')
    BY <1>5
  <2>2. PICK where : where = pos'
    OBVIOUS
  <2>3. q \in Introduce(x, around, where)[p] <=>
           /\ IsVisibleRegion(where[p], where[q])
           /\ \/ q \in seen[p]
              \/ p = x /\ q # x /\ pRegion[q] \in around
              \/ p # x /\ q = x /\ pRegion[p] \in around
    BY IntroduceEffect
  <2> QED
    BY <2>1, <2>2, <2>3
<1>7. ASSUME NEW q \in Objects, pRegion[q] \in around
      PROVE  InWorld(q)
  BY <1>7, <1>5, GridAssumption DEF InWorld
<1>8. ASSUME NEW p \in Players \ {x}, NEW q \in Objects \ {x}
      PROVE  q \in seen'[p] <=> q \in seen[p]
  BY <1>0, <1>2, <1>6 DEF ViewInv, InSight
<1>9. ASSUME NEW p \in Players, NEW q \in seen'[p], p = x \/ q = x
      PROVE  /\ IsVisibleRegion(pos'[p], pos'[q])
             /\ p # x => InWorld(p)
             /\ q # x => InWorld(q)
  <2>1. q \in Objects
    BY DEF TypeOK
  <2>2. CASE q \in seen[p]
    BY <2>1, <2>2, <1>0, <1>3, <1>6, <1>9 DEF ViewInv, Real
  <2>3. CASE q \notin seen[p]
    BY <2>1, <2>3, <1>0, <1>6, <1>7, <1>9
  <2> QED
    BY <2>2, <2>3
<1>10. ASSUME NEW q \in Objects \ {x}, InWorld(q), IsVisibleRegion(c, pos[q])
       PROVE  Knows(x, q)'
  <2>1. pos[q] \in Cells /\ IsVisibleRegion(pos[q], c)
    BY <1>10, VisibleSymmetric DEF TypeOK
  <2>2. pRegion[q] \in around
    BY <2>1, <1>4, <1>5, <1>10 DEF Reached
  <2>3. IsVisibleRegion(pos'[x], pos'[q]) /\ IsVisibleRegion(pos'[q], pos'[x])
    BY <2>1, <1>2, <1>10
  <2>4. x \in Players => q \in seen'[x]
    BY <2>2, <2>3, <1>6
  <2>5. q \in Players => x \in seen'[q]
    BY <2>2, <2>3, <1>6
  <2> QED
    BY <2>4, <2>5 DEF Knows
<1>11. MetBy(t)'
  <2>1. ASSUME NEW q \in Objects \ {x}, Standing(q)', IsVisibleRegion(pos'[x], pos'[q])
        PROVE  /\ x \in Players => q \in seen'[x]
               /\ q \in Players => x \in seen'[q]
    <3>1. InWorld(q) /\ IsVisibleRegion(c, pos[q])
      BY <2>1, <1>2, <1>3 DEF Standing
    <3> QED
      BY <3>1, <1>10 DEF Knows
  <2> QED
    BY <2>1, <1>1 DEF MetBy
<1>12. \A q \in Objects \ {x} : pos'[q] = pos[q] /\ pRegion'[q] = pRegion[q]
  BY <1>2
<1> QED
  <2>1. /\ \A u \in Threads \ {t} : call[u] = Idle /\ call'[u] = Idle
        /\ call'[t] = Idle \/ call'[t].obj = x
        /\ call'[t] = Idle /\ pRegion'[x] # Nowhere =>
              \A q \in Objects \ {x} :
                 InWorld(q) /\ IsVisibleRegion(pos'[x], pos[q]) => Knows(x, q)'
    BY <1>1
  <2>2. \A p \in Players : \A q \in seen'[p] :
           p = x \/ q = x => /\ IsVisibleRegion(pos'[p], pos'[q])
                             /\ p # x => InWorld(p)
                             /\ q # x => InWorld(q)
                             /\ pRegion'[x] # Nowhere \/ call'[t] # Idle
    BY <1>1, <1>9
  <2>3. TypeOK /\ (call'[t] # Idle => MetBy(t)')
    BY <1>11
  <2> QED
    BY <2>1, <2>2, <2>3, <1>8, <1>12, OthersSeeTheSame

\* A step after which the clients draw the same, nothing has moved, and the object
\* of the call has met whom it has to have met.
LEMMA NothingSeen ==
  ASSUME RegionInv, RegionInv', ViewInv,
         NEW t \in Threads, NEW x \in Objects,
         \A u \in Threads \ {t} : call[u] = Idle /\ call'[u] = Idle,
         call[t] = Idle \/ call[t].obj = x,
         call'[t] = Idle \/ call'[t].obj = x,
         \A q \in Objects \ {x} : pRegion'[q] = pRegion[q],
         UNCHANGED <<pos, seen>>,
         InWorld(x)' \/ call'[t] # Idle,
         call'[t] = Idle =>
            \A q \in Objects \ {x} :
               InWorld(q) /\ IsVisibleRegion(pos[x], pos[q]) => Knows(x, q),
         call'[t] # Idle => MetBy(t)'
  PROVE  ViewInv'
<1> USE DEF RegionInv
<1>0. Players \subseteq Objects
  BY DEF Objects
<1>1. ASSUME NEW q \in Objects \ {x} PROVE ~Called(q)
  BY DEF Called
<1>2. ASSUME NEW p \in Players, NEW q \in seen[p], p = x \/ q = x
      PROVE  /\ IsVisibleRegion(pos[p], pos[q])
             /\ p # x => InWorld(p)
             /\ q # x => InWorld(q)
  <2>1. q \in Objects
    BY DEF TypeOK
  <2> QED
    BY <2>1, <1>0, <1>1 DEF ViewInv, InSight, Real
<1>3. call'[t] = Idle =>
        \A q \in Objects \ {x} :
           InWorld(q) /\ IsVisibleRegion(pos'[x], pos[q]) => Knows(x, q)'
  BY DEF Knows
<1> QED
  BY <1>2, <1>3, OthersSeeTheSame DEF InWorld

LEMMA ViewStep ==
  ASSUME AllSeen, RegionInv, ViewInv, [Next]_vars
  PROVE  ViewInv'
<1>r. RegionInv'
  BY InvStep DEF Isolated, AllSeen
<1> USE DEF RegionInv
<1>0. Players \subseteq Objects /\ Reached
  BY DEF Objects, AllSeen
<1>s. ASSUME NEW t \in Threads, NEW o \in Objects, MayStart(t, o)
      PROVE  \A u \in Threads : call[u] = Idle
  BY <1>s DEF MayStart, AllSeen
<1>u. ASSUME NEW t \in Threads, call[t].pc # "idle"
      PROVE  /\ call[t] # Idle /\ CallOK(t)
             /\ \A u \in Threads \ {t} : call[u] = Idle
             /\ call[t].obj \in Objects
             /\ call[t].from \in Cells /\ call[t].to \in Cells \cup {Nowhere}
             /\ \A q \in Objects \ {call[t].obj} : ~Called(q)
  <2>1. call[t] # Idle
    BY <1>u DEF Idle
  <2>2. call[t] \in [pc : Phases, obj : Objects, from : Cells, to : Cells \cup {Nowhere}]
    BY <2>1 DEF TypeOK
  <2> QED
    BY <2>1, <2>2, OneCall DEF CallsOK
<1>i. ASSUME NEW t \in Threads, NEW x \in Objects, NEW q \in Objects \ {x}, InWorld(q),
             \A u \in Threads \ {t} : call[u] = Idle, call[t] = Idle \/ call[t].obj = x
      PROVE  pRegion[q] = pos[q]
  <2>1. ASSUME NEW u \in Threads PROVE ~(call[u].pc = "remove" /\ call[u].obj = q)
    BY <1>i DEF Idle
  <2> QED
    BY <2>1, <1>i DEF Placed, PlacedAt
<1>1. ASSUME NEW t \in Threads, NEW o \in Objects, NEW c \in Cells, AddObjectToWorld(t, o, c)
      PROVE  ViewInv'
  BY <1>1, <1>0, <1>r, <1>s, ComesIn DEF AddObjectToWorld
<1>2. ASSUME NEW t \in Threads, NEW x \in Objects, NEW to, MayStart(t, x),
             call' = [call EXCEPT ![t] = Call(x, "leave", pos[x], to)],
             UNCHANGED <<pos, pRegion, seen>>
      PROVE  ViewInv'
  <2>1. /\ \A u \in Threads \ {t} : call[u] = Idle /\ call'[u] = Idle
        /\ call[t] = Idle /\ call'[t] = Call(x, "leave", pos[x], to)
    BY <1>2, <1>s DEF TypeOK
  <2>2. call'[t] # Idle /\ call'[t].obj = x /\ MetBy(t)'
    BY <2>1 DEF MetBy, Call, Idle
  <2> QED
    BY <1>2, <1>r, <2>1, <2>2, NothingSeen
<1>3. ASSUME NEW t \in Threads, NEW x \in Objects, NEW c \in Cells, Move(t, x, c)
      PROVE  ViewInv'
  <2>1. /\ MayStart(t, x) /\ InWorld(x)
        /\ pos' = [pos EXCEPT ![x] = c]
        /\ seen' = Drawn(seen, pos')
        /\ call' = [call EXCEPT ![t] = Call(x, "remove", pos[x], c)]
        /\ UNCHANGED pRegion
    BY <1>3 DEF Move
  <2>2. /\ \A u \in Threads \ {t} : call[u] = Idle /\ call'[u] = Idle
        /\ call[t] = Idle /\ call'[t] = Call(x, "remove", pos[x], c)
        /\ \A q \in Objects : ~Called(q)
    BY <2>1, <1>s DEF TypeOK, Called
  <2>3. /\ pos'[x] = c /\ \A q \in Objects \ {x} : pos'[q] = pos[q]
        /\ \A p \in Players, q \in Objects :
              q \in seen'[p] <=> q \in seen[p] /\ IsVisibleRegion(pos'[p], pos'[q])
    BY <2>1 DEF TypeOK, Drawn
  <2>4. call'[t] # Idle /\ call'[t].obj = x /\ call'[t].from = pos[x]
    BY <2>2 DEF Call, Idle
  <2>5. ASSUME NEW q \in Objects \ {x}
        PROVE  /\ Standing(q)' <=> InWorld(q)
               /\ Standing(q) <=> InWorld(q)
    BY <2>1, <2>2, <2>4 DEF Standing, Called, InWorld
  <2>6. ASSUME NEW p \in Players \ {x}, NEW q \in Objects \ {x}
        PROVE  q \in seen'[p] <=> q \in seen[p]
    BY <2>3, <1>0 DEF ViewInv, InSight
  <2>7. ASSUME NEW p \in Players, NEW q \in seen'[p], p = x \/ q = x
        PROVE  /\ IsVisibleRegion(pos'[p], pos'[q])
               /\ InWorld(p) /\ InWorld(q)
    <3>1. q \in Objects
      BY <1>r DEF TypeOK
    <3> QED
      BY <3>1, <2>2, <2>3, <1>0 DEF ViewInv, Real
  <2>8. ASSUME NEW q \in Objects \ {x}, Standing(q)', IsVisibleRegion(pos'[x], pos'[q]),
               IsVisibleRegion(pos[x], pos[q])
        PROVE  /\ x \in Players => q \in seen'[x]
               /\ q \in Players => x \in seen'[q]
    <3>1. Standing(x) /\ Standing(q)
      BY <2>1, <2>2, <2>5, <2>8 DEF Standing
    <3>2. /\ IsVisibleRegion(pos[q], pos[x])
          /\ IsVisibleRegion(pos'[q], pos'[x])
      BY <2>8, <1>r, VisibleSymmetric DEF TypeOK
    <3>3. /\ x \in Players => q \in seen[x]
          /\ q \in Players => x \in seen[q]
      BY <3>1, <3>2, <2>8 DEF ViewInv, Met
    <3> QED
      BY <3>2, <3>3, <2>3, <2>8
  <2>9. MetBy(t)'
    <3>1. call'[t].pc = "remove"
      BY <2>2 DEF Call
    <3> QED
      BY <3>1, <2>3, <2>4, <2>8 DEF MetBy
  <2>10. TypeOK' /\ call[t] = Idle /\ call'[t] # Idle /\ call'[t].obj = x
    BY <1>r, <2>2, <2>4
  <2>11. \A u \in Threads \ {t} : call[u] = Idle /\ call'[u] = Idle
    BY <2>2
  <2>12. \A q \in Objects \ {x} : pos'[q] = pos[q] /\ pRegion'[q] = pRegion[q]
    BY <2>1, <2>3
  <2> QED
    BY <2>6, <2>7, <2>9, <2>10, <2>11, <2>12, OthersSeeTheSame
<1>4. ASSUME NEW t \in Threads, FinishAdd(t)
      PROVE  ViewInv'
  <2>0. PICK x \in Objects : call[t].obj = x
    BY <1>4, <1>u DEF FinishAdd
  <2>1. /\ AddObject(x, call[t].from) /\ call[t].from \in Cells /\ call[t].pc = "add"
        /\ call' = [call EXCEPT ![t] = Idle]
        /\ UNCHANGED <<pos, seen>>
    BY <1>4, <1>r, <2>0, <1>u DEF FinishAdd, Crash
  <2>2. /\ \A u \in Threads \ {t} : call[u] = Idle /\ call'[u] = Idle
        /\ call'[t] = Idle
        /\ \A q \in Objects \ {x} : Standing(q) <=> InWorld(q)
    BY <2>0, <2>1, <1>u DEF TypeOK, Standing
  <2>3. InWorld(x)' /\ \A q \in Objects \ {x} : pRegion'[q] = pRegion[q]
    BY <2>1, GridAssumption DEF AddObject, InWorld, TypeOK
  <2>4. ASSUME NEW q \in Objects \ {x}, InWorld(q), IsVisibleRegion(pos[x], pos[q])
        PROVE  Knows(x, q)
    BY <2>0, <2>1, <2>2, <2>4 DEF ViewInv, Meeting, MetBy, Knows
  <2> QED
    BY <1>r, <2>0, <2>1, <2>2, <2>3, <2>4, NothingSeen
<1>5. ASSUME NEW t \in Threads, RemoveFromRegion(t)
      PROVE  ViewInv'
  <2>0. PICK x \in Objects : call[t].obj = x
    BY <1>5, <1>u DEF RemoveFromRegion
  <2>1. /\ RemoveObject(x, pos[x]) /\ call[t].pc = "leave"
        /\ call' = [call EXCEPT ![t].pc = "sayleave"]
        /\ UNCHANGED <<pos, seen>>
    BY <1>5, <1>r, <2>0 DEF RemoveFromRegion, Crash
  <2>2. /\ \A u \in Threads \ {t} : call[u] = Idle /\ call'[u] = Idle
        /\ call'[t] = [call[t] EXCEPT !.pc = "sayleave"] /\ call[t] # Idle
    BY <2>0, <2>1, <1>u DEF TypeOK
  <2>3. call'[t].pc = "sayleave" /\ call'[t].obj = x
    BY <2>0, <2>2 DEF TypeOK
  <2>4. \A q \in Objects \ {x} : pRegion'[q] = pRegion[q]
    BY <2>1 DEF RemoveObject, TypeOK
  <2>5. call'[t] # Idle /\ MetBy(t)'
    BY <2>3 DEF MetBy, Idle
  <2> QED
    BY <1>r, <2>0, <2>1, <2>2, <2>3, <2>4, <2>5, NothingSeen
<1>6. ASSUME NEW t \in Threads, SendLeave(t)
      PROVE  ViewInv'
  <2>0. PICK x \in Objects : call[t].obj = x
    BY <1>6, <1>u DEF SendLeave
  <2> DEFINE told == Listed("client", DoEachVisibleRegion(pos[x]))
  <2>1. /\ call[t].pc = "sayleave" /\ ~InWorld(x)
        /\ seen' = [p \in Players |-> IF p = x THEN {}
                                      ELSE IF p \in told THEN seen[p] \ {x} ELSE seen[p]]
        /\ call' = [call EXCEPT ![t] = IF @.to = Nowhere THEN Idle
                                       ELSE [@ EXCEPT !.pc = "warpend"]]
        /\ UNCHANGED <<pos, pRegion>>
    BY <1>6, <1>u, <2>0 DEF SendLeave, CallOK
  <2>2. /\ \A u \in Threads \ {t} : call[u] = Idle /\ call'[u] = Idle
        /\ \A q \in Objects \ {x} : ~Called(q)
        /\ call'[t] = IF call[t].to = Nowhere THEN Idle ELSE [call[t] EXCEPT !.pc = "warpend"]
    BY <2>0, <2>1, <1>u DEF TypeOK
  <2>3. \/ call'[t] = Idle
        \/ call'[t].pc = "warpend" /\ call'[t].obj = x
    BY <2>0, <2>1, <2>2 DEF TypeOK, Idle
  <2>4. ASSUME NEW p \in Players \ {x}, x \in seen[p]
        PROVE  p \in told
    <3>1. InWorld(p) /\ IsVisibleRegion(pos[p], pos[x])
      BY <2>2, <2>4, <1>0 DEF ViewInv, Real, InSight
    <3>2. pos[p] \in DoEachVisibleRegion(pos[x])
      <4>1. pos[p] \in Cells /\ pos[x] \in Cells
        BY <1>0 DEF TypeOK
      <4> QED
        BY <4>1, <3>1, <1>0, VisibleSymmetric DEF Reached
    <3>3. pRegion[p] = pos[p]
      BY <3>1, <2>0, <2>2, <1>0, <1>i
    <3>4. "client" \in Kinds /\ Kind(p) = "client"
          /\ DoEachVisibleRegion(pos[x]) \in SUBSET Cells
      BY DEF Kinds, Kind, DoEachVisibleRegion
    <3> QED
      BY <3>2, <3>3, <3>4, <1>0, WhoIsListed
  <2>5. \A p \in Players : p = x \/ x \in seen[p] => x \notin seen'[p] /\ (p = x => seen'[p] = {})
    BY <2>1, <2>4
  <2>6. ASSUME NEW p \in Players, NEW q \in seen'[p]
        PROVE  p # x /\ q # x
    BY <2>1, <2>4
  <2>7. \A p \in Players \ {x}, q \in Objects \ {x} : q \in seen'[p] <=> q \in seen[p]
    BY <2>1
  <2>8. call'[t] # Idle => MetBy(t)'
    BY <2>3 DEF MetBy
  <2> HIDE DEF told
  <2> QED
    BY <1>r, <2>0, <2>1, <2>2, <2>3, <2>6, <2>7, <2>8, OthersSeeTheSame DEF InWorld
<1>7. ASSUME NEW t \in Threads, WarpEnd(t)
      PROVE  ViewInv'
  <2>0. PICK x \in Objects : call[t].obj = x
    BY <1>7, <1>u DEF WarpEnd
  <2>1. PICK c \in Cells : call[t].to = c
    BY <1>7, <1>u DEF WarpEnd, CallOK
  <2>2. /\ ~InWorld(x)
        /\ pos' = [pos EXCEPT ![x] = c]
        /\ seen' = Introduce(x, DoEachVisibleRegion(c), pos')
        /\ call' = [call EXCEPT ![t] = Call(x, "add", c, c)]
        /\ UNCHANGED pRegion
    BY <1>7, <1>u, <2>0, <2>1 DEF WarpEnd, CallOK
  <2>3. \A u \in Threads \ {t} : call[u] = Idle
    BY <1>7, <1>u DEF WarpEnd
  <2> QED
    BY <2>0, <2>2, <2>3, <1>0, <1>r, ComesIn
<1>8. ASSUME NEW t \in Threads, NEW x \in Objects, call[t].obj = x,
             call[t].pc \in {"remove", "readd"},
             NEW ph \in {"readd", "introduce"},
             call' = [call EXCEPT ![t].pc = ph],
             \A q \in Objects \ {x} : pRegion'[q] = pRegion[q],
             UNCHANGED <<pos, seen>>
      PROVE  ViewInv'
  <2>1. /\ \A u \in Threads \ {t} : call[u] = Idle /\ call'[u] = Idle
        /\ call'[t] = [call[t] EXCEPT !.pc = ph]
        /\ \A q \in Objects \ {x} : ~Called(q)
    BY <1>8, <1>u DEF TypeOK
  <2>2. call[t] \in [pc : Phases, obj : Objects, from : Cells, to : Cells \cup {Nowhere}]
    BY <1>8, <1>u DEF TypeOK
  <2>3. call'[t].pc = ph /\ call'[t].obj = x /\ call'[t].from = call[t].from
    BY <2>1, <2>2, <1>8
  <2>4. \A q \in Objects \ {x} : Standing(q)' => Standing(q)
    BY <1>8, <2>1 DEF Standing, InWorld
  <2>5. call'[t] # Idle /\ MetBy(t)'
    BY <1>8, <2>3, <2>4 DEF ViewInv, Meeting, MetBy, Idle
  <2> QED
    BY <1>8, <1>r, <2>1, <2>3, <2>5, NothingSeen
<1>9. ASSUME NEW t \in Threads, MoveRemove(t)
      PROVE  ViewInv'
  <2>0. PICK x \in Objects : call[t].obj = x
    BY <1>9, <1>u DEF MoveRemove
  <2>1. /\ RemoveObject(x, call[t].from) /\ call[t].pc = "remove"
        /\ call' = [call EXCEPT ![t].pc = "readd"]
        /\ UNCHANGED <<pos, seen>>
    BY <1>9, <1>r, <2>0 DEF MoveRemove, Crash
  <2>2. \A q \in Objects \ {x} : pRegion'[q] = pRegion[q]
    BY <2>1 DEF RemoveObject, TypeOK
  <2> QED
    BY <2>0, <2>1, <2>2, <1>8
<1>10. ASSUME NEW t \in Threads, MoveAdd(t)
       PROVE  ViewInv'
  <2>0. PICK x \in Objects : call[t].obj = x
    BY <1>10, <1>u DEF MoveAdd
  <2>1. /\ AddObject(x, pos[x]) /\ call[t].pc = "readd"
        /\ call' = [call EXCEPT ![t].pc = "introduce"]
        /\ UNCHANGED <<pos, seen>>
    BY <1>10, <1>r, <2>0 DEF MoveAdd, Crash
  <2>2. \A q \in Objects \ {x} : pRegion'[q] = pRegion[q]
    BY <2>1 DEF AddObject, TypeOK
  <2> QED
    BY <2>0, <2>1, <2>2, <1>8
<1>11. ASSUME NEW t \in Threads, enterProc(t)
       PROVE  ViewInv'
  <2>0. PICK x \in Objects : call[t].obj = x
    BY <1>11, <1>u DEF enterProc
  <2>1. /\ call[t].pc = "introduce"
        /\ seen' = IF pos[x] = call[t].from THEN seen
                   ELSE Introduce(x, DoEachNewRegion(pos[x], call[t].from), pos)
        /\ call' = [call EXCEPT ![t] = Idle]
        /\ UNCHANGED <<pos, pRegion>>
    BY <1>11, <2>0 DEF enterProc
  <2>2. /\ \A u \in Threads \ {t} : call[u] = Idle /\ call'[u] = Idle
        /\ call'[t] = Idle /\ call[t].from \in Cells /\ pos[x] \in Cells
        /\ \A q \in Objects \ {x} : ~Called(q) /\ (Standing(q) <=> InWorld(q))
    BY <2>0, <2>1, <1>u DEF TypeOK, Standing
  <2>3. PICK old \in Cells : old = call[t].from
    BY <2>2
  <2>4. ASSUME NEW q \in Objects \ {x}, InWorld(q), IsVisibleRegion(pos[x], pos[q]),
               IsVisibleRegion(old, pos[q])
        PROVE  Knows(x, q)
    BY <2>0, <2>1, <2>2, <2>3, <2>4 DEF ViewInv, Meeting, MetBy, Knows
  <2>5. CASE pos[x] = old
    <3>1. UNCHANGED <<pos, seen>>
      BY <2>1, <2>3, <2>5
    <3>2. InWorld(x)' /\ \A q \in Objects \ {x} : pRegion'[q] = pRegion[q]
      BY <2>0, <2>1, <1>u DEF CallOK, InWorld
    <3> QED
      BY <1>r, <2>0, <2>1, <2>2, <2>4, <2>5, <3>1, <3>2, NothingSeen
  <2>6. CASE pos[x] # old
    <3> DEFINE fresh == DoEachNewRegion(pos[x], old)
    <3>1. fresh \in SUBSET Cells /\ seen' = Introduce(x, fresh, pos)
      BY <2>1, <2>3, <2>6 DEF DoEachNewRegion, DoEachVisibleRegion
    <3> HIDE DEF fresh
    <3>2. ASSUME NEW p \in Players, NEW q \in Objects
          PROVE  q \in seen'[p] <=>
                   /\ IsVisibleRegion(pos[p], pos[q])
                   /\ \/ q \in seen[p]
                      \/ p = x /\ q # x /\ pRegion[q] \in fresh
                      \/ p # x /\ q = x /\ pRegion[p] \in fresh
      BY <3>1, IntroduceEffect
    <3>3. ASSUME NEW q \in Objects, pRegion[q] \in fresh PROVE InWorld(q)
      BY <3>1, <3>3, GridAssumption DEF InWorld
    <3>4. \A p \in Players \ {x}, q \in Objects \ {x} : q \in seen'[p] <=> q \in seen[p]
      BY <3>2, <1>0 DEF ViewInv, InSight
    <3>5. ASSUME NEW p \in Players, NEW q \in seen'[p], p = x \/ q = x
          PROVE  /\ IsVisibleRegion(pos[p], pos[q])
                 /\ p # x => InWorld(p)
                 /\ q # x => InWorld(q)
      <4>1. q \in Objects
        BY <1>r DEF TypeOK
      <4>2. CASE q \in seen[p]
        BY <4>1, <4>2, <3>2, <1>0, <2>2 DEF ViewInv, Real
      <4>3. CASE q \notin seen[p]
        BY <4>1, <4>3, <3>2, <3>3, <3>5, <1>0
      <4> QED
        BY <4>2, <4>3
    <3>6. ASSUME NEW q \in Objects \ {x}, InWorld(q), IsVisibleRegion(pos[x], pos[q])
          PROVE  Knows(x, q)'
      <4>1. pos[q] \in Cells /\ IsVisibleRegion(pos[q], pos[x])
        BY <3>6, <2>2, VisibleSymmetric DEF TypeOK
      <4>2. CASE IsVisibleRegion(old, pos[q])
        BY <4>1, <4>2, <3>2, <3>6, <2>4 DEF Knows
      <4>3. CASE ~IsVisibleRegion(old, pos[q])
        <5>1. pRegion[q] = pos[q]
          BY <3>6, <2>0, <2>2, <1>i
        <5>2. pRegion[q] \in fresh
          BY <5>1, <4>1, <4>3, <3>6, <2>2, <1>0 DEF Reached, DoEachNewRegion, fresh
        <5> QED
          BY <5>2, <4>1, <3>2, <3>6 DEF Knows
      <4> QED
        BY <4>2, <4>3
    <3>7. InWorld(x)
      BY <2>0, <2>1, <1>u DEF CallOK
    <3>8. \A q \in Objects \ {x} :
             InWorld(q) /\ IsVisibleRegion(pos'[x], pos[q]) => Knows(x, q)'
      BY <2>1, <3>6
    <3> QED
      BY <1>r, <2>0, <2>1, <2>2, <3>4, <3>5, <3>7, <3>8, OthersSeeTheSame DEF InWorld
  <2> QED
    BY <2>5, <2>6
<1>12. CASE UNCHANGED vars
  BY <1>12 DEF vars, ViewInv, Solo, InSight, Real, Met, Meeting, MetBy, Standing, Called,
       InWorld
<1>13. ASSUME NEW t \in Threads, NEW o \in Objects, NEW c \in Cells, PendWarp(t, o, c)
       PROVE  ViewInv'
  BY <1>13, <1>2 DEF PendWarp
<1>14. ASSUME NEW t \in Threads, NEW o \in Objects, StartLeave(t, o)
       PROVE  ViewInv'
  BY <1>14, <1>2 DEF StartLeave
<1> QED
  BY <1>1, <1>3, <1>4, <1>5, <1>6, <1>7, <1>9, <1>10, <1>11, <1>12, <1>13, <1>14
     DEF Next, ThreadStep

LEMMA ViewInit == Init => ViewInv
<1> SUFFICES ASSUME Init PROVE ViewInv
  OBVIOUS
<1>1. /\ \A t \in Threads : call[t] = Idle
      /\ \A p \in Players : seen[p] = {}
      /\ \A o \in Objects : ~InWorld(o)
  BY DEF Init, InWorld
<1>2. Solo /\ InSight /\ Real
  BY <1>1 DEF Solo, InSight, Real
<1>3. Met
  BY <1>1 DEF Met, Standing, Objects
<1>4. Meeting
  BY <1>1 DEF Meeting, MetBy, Idle
<1> QED
  BY <1>2, <1>3, <1>4 DEF ViewInv

\* Calls that do not overlap keep ViewInv, on a map the loops cover.
THEOREM ViewInvariance ==
  ASSUME AllSeen
  PROVE  Spec => [](RegionInv /\ ViewInv)
<1>1. Init => RegionInv /\ ViewInv
  BY InvInit, ViewInit
<1>2. RegionInv /\ ViewInv /\ [Next]_vars => (RegionInv /\ ViewInv)'
  <2>1. Isolated
    BY DEF AllSeen, Isolated
  <2> QED
    BY <2>1, InvStep, ViewStep
<1> QED
  BY <1>1, <1>2, PTL DEF Spec

\* Between calls a client draws every object of the world that it can see, whoever
\* of the two came last and wherever either came from.
THEOREM EverybodyMet ==
  ASSUME AllSeen
  PROVE  Spec => []Acquainted
<1>1. ViewInv => Acquainted
  <2> SUFFICES ASSUME ViewInv, Quiet PROVE Acquainted
    BY DEF Acquainted
  <2>1. \A o \in Objects : Standing(o) <=> InWorld(o)
    BY DEF Standing, Called, Quiet
  <2>2. Players \subseteq Objects
    BY DEF Objects
  <2> QED
    BY <2>1, <2>2 DEF ViewInv, Met, Acquainted
<1> QED
  BY <1>1, ViewInvariance, PTL

\* World.cpp:362 - whoever draws an object is told when it leaves the world.
THEOREM NobodyGone ==
  ASSUME AllSeen
  PROVE  Spec => []NoGhosts
<1>1. ViewInv => NoGhosts
  <2> SUFFICES ASSUME ViewInv, Quiet PROVE NoGhosts
    BY DEF NoGhosts
  <2>1. \A o : ~Called(o)
    BY DEF Called, Quiet
  <2> QED
    BY <2>1 DEF ViewInv, Real, NoGhosts
<1> QED
  BY <1>1, ViewInvariance, PTL

-----------------------------------------------------------------------------
(* RespawnArea *)

(* Only monsters that exist have a handler, and before its first update the *)
(* area has none.                                                           *)
Fresh ==
    /\ \A m \in Monster : mob[m].life = "none" => ~mob[m].handler
    /\ ~area.started => area.list = {}

(* Who has not entered the game yet is nobody's tamer. *)
Strangers == \A m \in Monster, p \in Player : player[p].at = "out" => mob[m].tamer # p

IInv == Populated /\ TamerKnows /\ Fresh /\ Strangers

-----------------------------------------------------------------------------
LEMMA MonsterFinite == IsFiniteSet(Monster)
BY FS_Interval, AreaAssumption DEF Monster

LEMMA NearBoolean == NearAfterMove \subseteq BOOLEAN
BY DEF NearAfterMove

(* A step that leaves the area alone and every monster its handler and its  *)
(* place keeps the count.                                                   *)
LEMMA CountKept ==
    ASSUME IInv, AreaTypeOK', UNCHANGED area,
           \A m \in Monster : /\ mob'[m].handler = mob[m].handler
                              /\ mob'[m].life = "none" => mob[m].life = "none"
    PROVE  Populated' /\ Fresh'
BY DEF IInv, Populated, Fresh, AreaTypeOK

(* A step that makes nobody a tamer, takes nobody out of the world and      *)
(* leaves the players what they tame, unless they go, keeps both.           *)
LEMMA TamersKept ==
    ASSUME IInv,
           \A m \in Monster : mob'[m].tamer \in {mob[m].tamer, Nobody},
           \A p \in Player :
               \/ player'[p].at = "gone"
               \/ player'[p].at = "out" /\ player[p].at = "out"
               \/ /\ InGame(p)' /\ player[p].at # "gone"
                  /\ player'[p].tame = player[p].tame
    PROVE  TamerKnows' /\ Strangers'
<1>1. \A p \in Player : player[p].at \in {"out", "in", "dead", "gone"}
  BY DEF IInv, Populated, AreaTypeOK, PlayerObject
<1> QED
  BY <1>1, NobodyAssumption DEF IInv, TamerKnows, Strangers, InGame

-----------------------------------------------------------------------------
LEMMA InitIInv == AreaInit => IInv
<1> SUFFICES ASSUME AreaInit
             PROVE  IInv
  OBVIOUS
<1> USE AreaAssumption, HealthAssumption, NobodyAssumption
<1>1. AreaTypeOK
  BY DEF AreaInit, AreaTypeOK, MonsterObject, PlayerObject, Blank, Handle, Monster
<1>2. Cardinality({}) = 0
  BY FS_EmptySet
<1>3. {m \in Monster : mob[m].handler} = {}
  BY DEF AreaInit, Blank
<1>4. Populated
  BY <1>1, <1>2, <1>3 DEF AreaInit, Populated
<1>5. TamerKnows /\ Fresh /\ Strangers
  BY DEF AreaInit, TamerKnows, Fresh, Strangers, Blank
<1> QED
  BY <1>4, <1>5 DEF IInv

(* The new monsters are counted and listed, and there are no more of them   *)
(* than the area lacks.                                                     *)
LEMMA SpawnKeeps == ASSUME IInv, RespawnUpdate PROVE IInv'
<1> USE DEF IInv
<1>1. PICK new \in SUBSET {m \in Monster : mob[m].life = "none"}, near \in NearAfterMove :
          /\ Cardinality(new) <= SpawnLimit
          /\ mob' = [m \in Monster |-> IF m \in new THEN RespawnMonster(near) ELSE mob[m]]
          /\ area' = [area EXCEPT !.started = TRUE, !.count = @ + Cardinality(new),
                                  !.list = @ \cup new]
  BY DEF RespawnUpdate
<1>2. near \in BOOLEAN /\ player' = player /\ AreaTypeOK
  BY NearBoolean DEF RespawnUpdate, Populated
<1>3. IsFiniteSet(new) /\ IsFiniteSet(area.list) /\ area.list \subseteq Monster
  BY <1>2, MonsterFinite, FS_Subset DEF AreaTypeOK
<1>4. Cardinality(new) \in Nat
  BY <1>3, FS_CardinalityType
<1>5. AreaTypeOK'
  <2>1. RespawnMonster(near) \in MonsterObject
    BY <1>2, HealthAssumption DEF RespawnMonster, MonsterObject, Handle
  <2>2. mob' \in [Monster -> MonsterObject]
    BY <1>1, <1>2, <2>1 DEF AreaTypeOK
  <2>3. area' = [count |-> area.count + Cardinality(new), list |-> area.list \cup new,
                 cap |-> area.cap, started |-> TRUE]
    BY <1>1, <1>2 DEF AreaTypeOK
  <2>4. area' \in [count : Int, list : SUBSET Monster, cap : Int, started : BOOLEAN]
    BY <1>2, <1>4, <2>3 DEF AreaTypeOK
  <2> QED
    BY <1>2, <2>2, <2>4 DEF AreaTypeOK
<1>6. area.list \cap new = {}
  BY DEF Populated, Fresh
<1>7. Cardinality(area.list \cup new) = area.count + Cardinality(new)
  <2>1. Cardinality(area.list \cup new)
           = Cardinality(area.list) + Cardinality(new) - Cardinality({})
    BY <1>3, <1>6, FS_Union
  <2> QED
    BY <1>2, <1>4, <2>1, FS_EmptySet DEF Populated, AreaTypeOK
<1>8. area'.count <= area'.cap /\ area'.cap <= MaxNum
  <2>1. ~area.started => area.count = 0
    BY FS_EmptySet DEF Populated, Fresh
  <2>2. area.count + Cardinality(new) <= area.cap
    BY <1>1, <1>2, <1>4, <2>1, AreaAssumption DEF SpawnLimit, AreaTypeOK, Populated
  <2> QED
    BY <1>1, <1>2, <2>2 DEF AreaTypeOK, Populated
<1>9. area'.list = {m \in Monster : mob'[m].handler}
  BY <1>1, <1>2 DEF AreaTypeOK, Populated, RespawnMonster
<1>10. Populated'
  BY <1>1, <1>2, <1>5, <1>7, <1>8, <1>9 DEF AreaTypeOK, Populated
<1>11. Fresh'
  BY <1>1, <1>2 DEF Fresh, RespawnMonster, AreaTypeOK
<1>12. TamerKnows' /\ Strangers'
  BY <1>1, <1>2, NobodyAssumption
     DEF TamerKnows, Strangers, InGame, RespawnMonster, AreaTypeOK
<1> QED
  BY <1>10, <1>11, <1>12

(* A dead monster is taken off the list once, because it forgets its        *)
(* handler when the area is told.                                           *)
LEMMA DeadKeeps ==
    ASSUME IInv, NEW m \in Monster, ProcessDead(m)
    PROVE  IInv'
<1> USE DEF IInv
<1>1. AreaTypeOK /\ player' = player /\ mob[m].life = "dead"
  BY DEF ProcessDead, Populated
<1>2. PICK r \in {ForgetHandler(mob[m]), Blank("gone")} : mob' = [mob EXCEPT ![m] = r]
  BY DEF ProcessDead
<1>3. r \in MonsterObject /\ ~r.handler /\ r.life \in {"dead", "gone"}
      /\ r.tamer \in {mob[m].tamer, Nobody}
  <2>1. mob[m] \in MonsterObject
    BY <1>1 DEF AreaTypeOK
  <2>2. CASE r = ForgetHandler(mob[m])
    BY <1>1, <2>1, <2>2 DEF ForgetHandler, MonsterObject
  <2>3. CASE r = Blank("gone")
    BY <2>3, HealthAssumption DEF Blank, MonsterObject, Handle
  <2> QED
    BY <2>2, <2>3
<1>4. mob' \in [Monster -> MonsterObject] /\ mob'[m] = r
      /\ \A n \in Monster : n # m => mob'[n] = mob[n]
  BY <1>1, <1>2, <1>3 DEF AreaTypeOK
<1>5. TamerKnows' /\ Strangers'
  BY <1>1, <1>3, <1>4, NobodyAssumption DEF TamerKnows, Strangers, InGame
<1>6. area'.list = {n \in Monster : mob'[n].handler} /\ Fresh'
      /\ area' \in [count : Int, list : SUBSET Monster, cap : Int, started : BOOLEAN]
      /\ area'.count = Cardinality(area'.list)
      /\ area'.count <= area'.cap /\ area'.cap <= MaxNum
  <2>1. CASE ~mob[m].handler
    <3>1. area' = area
      BY <2>1 DEF ProcessDead
    <3> QED
      BY <1>1, <1>3, <1>4, <2>1, <3>1 DEF Populated, Fresh, AreaTypeOK
  <2>2. CASE mob[m].handler
    <3>1. area' = [area EXCEPT !.count = @ - 1, !.list = @ \ {m},
                              !.cap = IF @ < MaxNum THEN @ + 1 ELSE @]
      BY <2>2 DEF ProcessDead, onMonsterDelete
    <3>2. m \in area.list /\ IsFiniteSet(area.list)
      BY <1>1, <2>2, MonsterFinite, FS_Subset DEF Populated, AreaTypeOK
    <3>3. Cardinality(area.list \ {m}) = area.count - 1
      <4>1. \A S, x : IsFiniteSet(S) /\ x \in S
                    => Cardinality(S \ {x}) = Cardinality(S) - 1
        BY ONLY FS_RemoveElement, SMTT(30)
      <4>2. Cardinality(area.list \ {m}) = Cardinality(area.list) - 1
        BY ONLY <3>2, <4>1, ZenonT(30)
      <4>3. area.count = Cardinality(area.list)
        BY DEF Populated
      <4> QED
        BY ONLY <4>2, <4>3
    <3> DEFINE c == IF area.cap < MaxNum THEN area.cap + 1 ELSE area.cap
    <3>4. area.cap \in Int /\ area.count \in Int /\ MaxNum \in Int
          /\ area.count <= area.cap /\ area.cap <= MaxNum
      BY <1>1, AreaAssumption DEF AreaTypeOK, Populated
    <3>5. c \in Int /\ area.count - 1 <= c /\ c <= MaxNum
      BY <3>4
    <3>6. area' = [count |-> area.count - 1, list |-> area.list \ {m}, cap |-> c,
                   started |-> area.started]
      BY <1>1, <3>1 DEF AreaTypeOK
    <3> HIDE DEF c
    <3>7. /\ area'.count = area.count - 1 /\ area'.list = area.list \ {m}
          /\ area'.cap = c /\ area'.started = area.started
          /\ area' \in [count : Int, list : SUBSET Monster, cap : Int, started : BOOLEAN]
      BY <1>1, <3>4, <3>5, <3>6 DEF AreaTypeOK
    <3>8. area'.count <= area'.cap /\ area'.cap <= MaxNum
      BY <3>5, <3>7
    <3>9. area'.list = {n \in Monster : mob'[n].handler}
      BY <1>3, <1>4, <3>7 DEF Populated
    <3>10. Fresh'
      BY <1>3, <1>4, <3>7 DEF Fresh
    <3> QED
      BY <3>3, <3>7, <3>8, <3>9, <3>10
  <2> QED
    BY <2>1, <2>2
<1>7. AreaTypeOK'
  BY <1>1, <1>4, <1>6 DEF AreaTypeOK
<1> QED
  BY <1>5, <1>6, <1>7 DEF Populated

-----------------------------------------------------------------------------
LEMMA StepIInv == IInv /\ [AreaNext]_areaVars => IInv'
<1> SUFFICES ASSUME IInv, [AreaNext]_areaVars
             PROVE  IInv'
  OBVIOUS
<1>0. /\ AreaTypeOK /\ mob \in [Monster -> MonsterObject]
      /\ player \in [Player -> PlayerObject]
      /\ \A m \in Monster : m \in 0 .. MaxMonster
  BY AreaAssumption DEF IInv, Populated, AreaTypeOK, Monster
<1>1. CASE RespawnUpdate
  BY <1>1, SpawnKeeps
<1>2. ASSUME NEW m \in Monster, ProcessDead(m)
      PROVE  IInv'
  BY <1>2, DeadKeeps
<1>3. ASSUME NEW m \in Monster, Update(m)
      PROVE  IInv'
  <2>1. PICK h \in mob[m].hp .. MaxHealth, t \in {mob[m].tamer, Nobody},
             near \in NearAfterMove \cup {TRUE} :
            mob' = [mob EXCEPT ![m].hp = h, ![m].tamer = t, ![m].near = near]
    BY <1>3 DEF Update
  <2>2. near \in BOOLEAN /\ h \in 0 .. MaxHealth /\ t \in Handle
    <3>1. mob[m].hp \in 0 .. MaxHealth /\ mob[m].tamer \in Handle
      BY <1>0 DEF MonsterObject
    <3>2. near \in BOOLEAN
      BY <2>1, NearBoolean, Zenon
    <3>3. h \in 0 .. MaxHealth
      BY <2>1, <3>1, HealthAssumption
    <3>4. t \in Handle
      BY <2>1, <3>1 DEF Handle
    <3> QED
      BY <3>2, <3>3, <3>4
  <2>3. AreaTypeOK'
    <3>1. mob' \in [Monster -> MonsterObject]
      <4>1. [mob[m] EXCEPT !.hp = h, !.tamer = t, !.near = near] \in MonsterObject
        BY <1>0, <2>2 DEF MonsterObject
      <4> QED
        BY <1>0, <2>1, <4>1
    <3> QED
      BY <1>0, <1>3, <3>1 DEF Update, AreaTypeOK
  <2>4. \A n \in Monster : /\ mob'[n].handler = mob[n].handler
                           /\ mob'[n].life = mob[n].life
                           /\ mob'[n].tamer \in {mob[n].tamer, Nobody}
    BY <1>0, <2>1 DEF MonsterObject
  <2>5. UNCHANGED <<area, player>>
    BY <1>3 DEF Update
  <2>6. TamerKnows' /\ Strangers'
    BY <2>4, <2>5, NobodyAssumption DEF IInv, TamerKnows, Strangers, InGame
  <2> QED
    BY <2>3, <2>4, <2>5, <2>6, CountKept DEF IInv
<1>4. ASSUME NEW m \in Monster, NEW p \in Player, Slay(m, p)
      PROVE  IInv'
  <2>1. player' = [player EXCEPT ![p].at = "dead"] /\ Alive(p) /\ UNCHANGED <<area, mob>>
    BY <1>4 DEF Slay
  <2>2. AreaTypeOK'
    BY <1>0, <2>1 DEF AreaTypeOK, PlayerObject
  <2>3. TamerKnows' /\ Strangers'
    BY <1>0, <2>1, TamersKept DEF InGame, Alive, PlayerObject, IInv, TamerKnows, Strangers
  <2> QED
    BY <2>1, <2>2, <2>3, CountKept DEF IInv
<1>5. ASSUME NEW p \in Player, Enter(p) \/ Walk(p)
      PROVE  IInv'
  <2>1. PICK S \in SUBSET Monster : S \subseteq {m \in Monster : Present(m)} /\ Seen(S)
    BY <1>5 DEF Enter, Walk
  <2>2. mob' \in [Monster -> MonsterObject]
        /\ \A m \in Monster : /\ mob'[m].handler = mob[m].handler
                              /\ mob'[m].life = mob[m].life
                              /\ mob'[m].tamer = mob[m].tamer
    BY <1>0, <2>1 DEF Seen, MonsterObject
  <2>3. player' \in [Player -> PlayerObject] /\ UNCHANGED area
        /\ \A q \in Player : \/ player'[q] = player[q]
                             \/ /\ player[q].at = "out" /\ player'[q].at = "in"
                                /\ player'[q].tame = player[q].tame
    <3>1. CASE Enter(p)
      BY <1>0, <3>1 DEF Enter, PlayerObject
    <3>2. CASE Walk(p)
      BY <1>0, <3>2 DEF Walk
    <3> QED
      BY <1>5, <3>1, <3>2
  <2>4. AreaTypeOK'
    BY <1>0, <2>2, <2>3 DEF AreaTypeOK
  <2>5. TamerKnows' /\ Strangers'
    BY <2>2, <2>3 DEF IInv, TamerKnows, Strangers, InGame
  <2> QED
    BY <2>2, <2>3, <2>4, <2>5, CountKept DEF IInv
<1>6. ASSUME NEW p \in Player, Leave(p) \/ Resurrect(p)
      PROVE  IInv'
  <2>1. /\ UNCHANGED <<area, mob>> /\ InGame(p)
        /\ player' \in [Player -> PlayerObject]
        /\ \A q \in Player : \/ player'[q] = player[q]
                             \/ player'[q].at = "gone"
                             \/ /\ player[q].at = "dead" /\ player'[q].at = "in"
                                /\ player'[q].tame = player[q].tame
    BY <1>0, <1>6, AreaAssumption DEF Leave, Resurrect, PlayerObject, InGame
  <2>2. AreaTypeOK'
    BY <1>0, <2>1 DEF AreaTypeOK
  <2>3. TamerKnows' /\ Strangers'
    BY <2>1 DEF IInv, TamerKnows, Strangers, InGame
  <2> QED
    BY <2>1, <2>2, <2>3, CountKept DEF IInv
<1>7. ASSUME NEW p \in Player, NEW m \in Monster, SetTamer(p, m)
      PROVE  IInv'
  <2>1. /\ mob' = [mob EXCEPT ![m].tamer = p] /\ player' = [player EXCEPT ![p].tame = m]
        /\ UNCHANGED area /\ player[p].at = "in" /\ player[p].tame = 0
    BY <1>7 DEF SetTamer, MayTame, Alive
  <2>2. AreaTypeOK'
    <3>1. mob' \in [Monster -> MonsterObject]
      BY <1>0, <2>1 DEF MonsterObject, Handle
    <3>2. player' \in [Player -> PlayerObject]
      BY <1>0, <2>1 DEF PlayerObject
    <3> QED
      BY <1>0, <2>1, <3>1, <3>2 DEF AreaTypeOK
  <2>3. \A n \in Monster : /\ mob'[n].handler = mob[n].handler
                           /\ mob'[n].life = mob[n].life
                           /\ mob'[n].tamer = IF n = m THEN p ELSE mob[n].tamer
    BY <1>0, <2>1 DEF MonsterObject
  <2>4. \A q \in Player : /\ player'[q].at = player[q].at
                          /\ player'[q].tame = IF q = p THEN m ELSE player[q].tame
    BY <1>0, <2>1 DEF PlayerObject
  <2>5. \A n \in Monster : mob[n].tamer # p
    BY <2>1, AreaAssumption DEF IInv, TamerKnows, InGame, Monster
  <2>6. TamerKnows' /\ Strangers'
    BY <2>1, <2>3, <2>4, <2>5 DEF IInv, TamerKnows, Strangers, InGame
  <2> QED
    BY <2>1, <2>2, <2>3, <2>6, CountKept DEF IInv
<1>8. ASSUME NEW p \in Player, (\E m \in Monster : Strike(p, m)) \/ Wound(p) \/ Miss(p)
      PROVE  IInv'
  <2>1. /\ UNCHANGED area
        /\ player' \in [Player -> PlayerObject]
        /\ \A q \in Player : /\ player'[q].at = player[q].at
                             /\ player'[q].tame = player[q].tame
    BY <1>0, <1>8, AreaAssumption DEF Strike, Wound, Miss, PlayerObject
  <2>2. /\ mob' \in [Monster -> MonsterObject]
        /\ \A m \in Monster : /\ mob'[m].handler = mob[m].handler
                              /\ mob'[m].life = mob[m].life
                              /\ mob'[m].tamer = mob[m].tamer
    <3>1. CASE UNCHANGED mob
      BY <1>0, <3>1
    <3>2. CASE Wound(p)
      <4> DEFINE m == player[p].blow
      <4>1. m \in Monster
        BY <1>0, <3>2, AreaAssumption DEF Wound, PlayerObject, Monster
      <4>2. PICK h \in 1 .. mob[m].hp - 1 : mob' = [mob EXCEPT ![m].hp = h]
        BY <3>2 DEF Wound
      <4>3. h \in 0 .. MaxHealth
        BY <1>0, <4>1, <4>2, HealthAssumption DEF MonsterObject
      <4> QED
        BY <1>0, <4>1, <4>2, <4>3 DEF MonsterObject
    <3> QED
      BY <1>8, <3>1, <3>2 DEF Strike, Miss
  <2>3. AreaTypeOK'
    BY <1>0, <2>1, <2>2 DEF AreaTypeOK
  <2>4. TamerKnows' /\ Strangers'
    BY <2>1, <2>2 DEF IInv, TamerKnows, Strangers, InGame
  <2> QED
    BY <2>1, <2>2, <2>3, <2>4, CountKept DEF IInv
<1>9. ASSUME NEW p \in Player, Kill(p)
      PROVE  IInv'
  <2> DEFINE m == player[p].blow
  <2>1. m \in Monster
    <3>1. m # 0
      BY <1>9 DEF Kill
    <3>2. m \in 0 .. MaxMonster
      BY <1>0 DEF PlayerObject
    <3> QED
      BY <3>1, <3>2, AreaAssumption DEF Monster
  <2>2. PICK near \in NearAfterMove \cup {mob[m].near} :
            mob' = [mob EXCEPT ![m] =
                       [life |-> "dead", hp |-> 0, near |-> near, handler |-> mob[m].handler,
                        tamer |-> IF Untamed(m) = {} THEN mob[m].tamer ELSE Nobody]]
    BY <1>9 DEF Kill
  <2>3. /\ Present(m) /\ UNCHANGED area
        /\ player' = [q \in Player |->
                         [player[q] EXCEPT !.tame = IF q \in Untamed(m) THEN 0 ELSE @,
                                           !.blow = IF q = p THEN 0 ELSE @]]
    BY <1>9 DEF Kill
  <2>4. near \in BOOLEAN
    BY <1>0, <2>1, NearBoolean DEF MonsterObject
  <2>5. mob' \in [Monster -> MonsterObject]
    BY <1>0, <2>1, <2>2, <2>4, HealthAssumption DEF MonsterObject, Handle
  <2>6. \A n \in Monster : /\ mob'[n].handler = mob[n].handler
                           /\ mob'[n].life = IF n = m THEN "dead" ELSE mob[n].life
                           /\ mob'[n].tamer = IF n = m /\ Untamed(m) # {}
                                              THEN Nobody ELSE mob[n].tamer
    BY <1>0, <2>1, <2>2 DEF MonsterObject
  <2>7. /\ player' \in [Player -> PlayerObject]
        /\ \A q \in Player : /\ player'[q].at = player[q].at
                             /\ player'[q].tame = IF q \in Untamed(m) THEN 0 ELSE player[q].tame
    <3> SUFFICES ASSUME NEW q \in Player
                 PROVE  /\ player'[q] \in PlayerObject
                        /\ player'[q].at = player[q].at
                        /\ player'[q].tame = IF q \in Untamed(m) THEN 0 ELSE player[q].tame
      BY <2>3
    <3>1. player'[q] = [player[q] EXCEPT !.tame = IF q \in Untamed(m) THEN 0 ELSE @,
                                         !.blow = IF q = p THEN 0 ELSE @]
      BY <2>3
    <3>2. player[q] \in PlayerObject /\ 0 \in 0 .. MaxMonster
      BY <1>0, AreaAssumption
    <3> HIDE DEF m
    <3> QED
      BY <3>1, <3>2 DEF PlayerObject
  <2>8. AreaTypeOK'
    BY <1>0, <2>3, <2>5, <2>7 DEF AreaTypeOK
  <2>9. ASSUME NEW n \in Monster, NEW q \in Player, mob'[n].tamer = q, q \in Untamed(m)
        PROVE  FALSE
    \* q's monster is m, which has no tamer any more
    <3>1. mob[m].tamer = q /\ InGame(q)
      BY <2>9 DEF Untamed, Alive, InGame
    <3>2. n # m /\ mob[n].tamer = q
      BY <2>6, <2>9, NobodyAssumption
    <3> QED
      BY <2>1, <3>1, <3>2 DEF IInv, TamerKnows
  <2>10. TamerKnows' /\ Strangers'
    BY <2>6, <2>7, <2>9, NobodyAssumption DEF IInv, TamerKnows, Strangers, InGame
  <2> QED
    BY <2>3, <2>6, <2>8, <2>10, CountKept DEF IInv
<1>10. CASE UNCHANGED areaVars
  <2>1. AreaTypeOK' /\ UNCHANGED <<area, mob, player>>
    BY <1>0, <1>10 DEF areaVars, AreaTypeOK
  <2> QED
    BY <2>1 DEF IInv, Populated, Fresh, TamerKnows, Strangers, InGame
<1>11. ASSUME NEW m \in Monster, WorldUpdate(m)
       PROVE  IInv'
  BY <1>2, <1>3, <1>4, <1>11 DEF WorldUpdate
<1>12. ASSUME NEW p \in Player, Deed(p)
       PROVE  IInv'
  <2>1. CASE \E m \in Monster : SetTamer(p, m)
    BY <1>7, <2>1
  <2>2. CASE (\E m \in Monster : Strike(p, m)) \/ Wound(p) \/ Miss(p)
    BY <1>8, <2>2
  <2>3. CASE Enter(p) \/ Walk(p) \/ Leave(p) \/ Resurrect(p) \/ Kill(p)
    BY <1>5, <1>6, <1>9, <2>3
  <2> QED
    BY <1>12, <2>1, <2>2, <2>3 DEF Deed
<1> QED
  BY <1>1, <1>10, <1>11, <1>12 DEF AreaNext

THEOREM Invariance == AreaSpec => []IInv
BY InitIInv, StepIInv, PTL DEF AreaSpec

(* The area's count, its list and the monsters that will still report to it *)
(* agree, and never exceed what the area may have (RespawnObject::Update,   *)
(* RespawnObject::onMonsterDelete).                                         *)
THEOREM Population == AreaSpec => []Populated
<1>1. IInv => Populated
  BY DEF IInv
<1> QED
  BY <1>1, Invariance, PTL

(* A monster's tamer who is in the game has that monster as his taming      *)
(* target, whoever dies, leaves or strikes twice (World::SetTamer,          *)
(* World::ProcTame).                                                        *)
THEOREM Taming == AreaSpec => []TamerKnows
<1>1. IInv => TamerKnows
  BY DEF IInv
<1> QED
  BY <1>1, Invariance, PTL
=============================================================================
