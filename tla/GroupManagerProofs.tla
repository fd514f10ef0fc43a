------------------------- MODULE GroupManagerProofs -------------------------
(***************************************************************************)
(* Proofs about parties, for any number of characters, parties and queued  *)
(* operations, whatever crashes, when a character returns only after its   *)
(* saves reached the database (Patient).                                   *)
(*                                                                         *)
(*   SingleParty    OneParty: who is listed belongs to that party by the   *)
(*                  field of the Player object or, out of the game, by its *)
(*                  row as the queue will leave it (Column).  A list whose *)
(*                  DestroyParty is under way is excepted: its members may *)
(*                  already be in another                                  *)
(*   TagsTrue       TagsFollowPlayers, from the same invariant             *)
(*   LeaderListed   LeaderIsMember, the typing included                    *)
(*   RestartKeeps   RestartKeepsMembers: until a first crash the rows of   *)
(*                  `Party` and the inserts under way are those of the     *)
(*                  parties in the map (Stored), so that a restart in good *)
(*                  order reads back what was there                        *)
(***************************************************************************)
EXTENDS GroupManager, FiniteSetTheorems, SequenceTheorems, WellFoundedInduction, TLAPS

(* The party is on its way out: a DestroyParty is past the reset of the     *)
(* members' fields and the map still has it.                                *)
Dying(p) == \E c \in Character : at[c] = "destroying" /\ dying[c] = p

(* What the row of c will say of its party once the queue is written. *)
Column(c, p) ==
    \/ SavesApplied(c) /\ charRow[c] = p
    \/ \E i \in DOMAIN queue :
           /\ queue[i] = [op |-> "save", who |-> c, party |-> p]
           /\ \A j \in DOMAIN queue : j > i => ~(queue[j].op = "save" /\ queue[j].who = c)

(* Who is in the list of p has p as its field, or, not in the game, in its  *)
(* row or in a save under way.                                              *)
Belongs(c, p) ==
    /\ at[c] \in {"off", "reading", "in", "saved"}
    /\ at[c] # "off" => field[c] = p
    /\ at[c] \in {"off", "saved"} => Column(c, p)

Present(c) == at[c] \in {"in", "saved"}

(* A tag is online exactly while its player is in the game. *)
Listing(p) ==
    \A i \in DOMAIN parties[p].members :
        /\ Belongs(parties[p].members[i].who, p)
        /\ parties[p].members[i].online <=> Present(parties[p].members[i].who)

Once(s) == \A i, j \in DOMAIN s : s[i].who = s[j].who => i = j

Members ==
    \A p \in DOMAIN parties : ~Dying(p) => Listing(p) /\ Once(parties[p].members)

(* Only its leader destroys a party, once. *)
Destroyers ==
    \A c \in Character : at[c] = "destroying" =>
        dying[c] \in DOMAIN parties /\ parties[dying[c]].leader = c

Leaders ==
    \A p \in DOMAIN parties :
        IF parties[p].leader = Nobody THEN crashed ELSE parties[p].leader \in Listed(p)

IInv == TypeOK /\ Leaders /\ Members /\ Destroyers

Deleted(p, i) == \E j \in DOMAIN queue : j > i /\ queue[j] = [op |-> "del", party |-> p]

(* Until a first crash the rows of `Party`, and the inserts under way, are  *)
(* of parties in the map with that leader, unless a deletion follows.       *)
Owned(p, c, i) ==
    Deleted(p, i) \/ (p \in DOMAIN parties /\ parties[p].leader = c /\ ~Dying(p))

Rows ==
    \A p \in DOMAIN partyRow : p <= maxPartyID /\ Owned(p, partyRow[p], 0)

Inserts ==
    \A i \in DOMAIN queue : queue[i].op = "add" =>
        /\ queue[i].party <= maxPartyID
        /\ Owned(queue[i].party, queue[i].who, i)
        /\ queue[i].party \notin DOMAIN partyRow
        /\ \A j \in DOMAIN queue :
               queue[j].op = "add" /\ queue[j].party = queue[i].party => j = i

(* An insert finds the leader's earlier row gone. *)
Successive ==
    \A i \in DOMAIN queue : queue[i].op = "add" =>
        /\ \A q \in DOMAIN partyRow : partyRow[q] = queue[i].who =>
               \E j \in DOMAIN queue : j < i /\ queue[j] = [op |-> "del", party |-> q]
        /\ \A k \in DOMAIN queue : k < i /\ queue[k].op = "add" /\ queue[k].who = queue[i].who =>
               \E j \in DOMAIN queue :
                   k < j /\ j < i /\ queue[j] = [op |-> "del", party |-> queue[k].party]

(* A party in the map has its row, or an insert of it under way. *)
Written ==
    \A p \in DOMAIN parties : ~Dying(p) =>
        /\ ~Deleted(p, 0)
        /\ \/ p \in DOMAIN partyRow /\ partyRow[p] = parties[p].leader
           \/ \E i \in DOMAIN queue :
                  queue[i] = [op |-> "add", who |-> parties[p].leader, party |-> p]

(* No deletion is of an id yet to be handed out. *)
Deletions ==
    \A i \in DOMAIN queue : queue[i].op = "del" => queue[i].party <= maxPartyID

Stored == Rows /\ Inserts /\ Successive /\ Written /\ Deletions

PInv == IInv /\ (crashed \/ Stored)

-----------------------------------------------------------------------------
(* Helpers: the greatest of a set, the first of a list, the list of a set.  *)
Less == {ss \in Nat \X Nat : ss[1] < ss[2]}

(* The library's well-founded order gives every set of naturals a least.    *)
LEMMA LeastOf ==
    ASSUME NEW T \in SUBSET Nat, T # {}
    PROVE  \E t \in T : \A y \in T : t <= y
<1>1. IsWellFoundedOn(Less, Nat)
  BY NatLessThanWellFounded, Zenon DEF OpToRel, Less
<1>2. PICK t \in T : \A y \in T : ~(<<y, t>> \in Less)
  BY ONLY <1>1, T \subseteq Nat, T # {}, WFMin, Zenon
<1>3. ASSUME NEW y \in T PROVE t <= y
  <2>1. y \in Nat /\ t \in Nat /\ <<y, t>> \in Nat \X Nat
    OBVIOUS
  <2>2. ~(y < t)
    BY <1>2, <2>1, Zenon DEF Less
  <2> QED
    BY <2>1, <2>2
<1> QED
  BY <1>3

(* Max of a bounded set is its greatest element. *)
LEMMA MaxOf ==
    ASSUME NEW n \in Nat, NEW S \in SUBSET (0 .. n), S # {}
    PROVE  Max(S) \in S /\ \A y \in S : y <= Max(S)
<1> DEFINE T == {k \in 0 .. n : n - k \in S}
<1>1. T \subseteq Nat /\ T # {}
  <2>1. PICK x \in S : TRUE
    OBVIOUS
  <2>2. x \in 0 .. n
    OBVIOUS
  <2>3. n - x \in 0 .. n /\ n - (n - x) = x
    BY <2>2
  <2>4. n - x \in T
    BY <2>3
  <2>5. 0 .. n \subseteq Nat
    OBVIOUS
  <2> QED
    BY <2>4, <2>5, Zenon
<1>3. PICK t \in T : \A y \in T : t <= y
  BY ONLY <1>1, LeastOf
<1>4. n - t \in S /\ \A y \in S : y <= n - t
  <2>1. ASSUME NEW y \in S PROVE y <= n - t
    <3>1. y \in 0 .. n
      OBVIOUS
    <3>2. n - y \in 0 .. n /\ n - (n - y) = y
      BY <3>1
    <3>3. n - y \in T
      BY <3>2
    <3> QED
      BY <3>1, <3>3, <1>3
  <2> QED
    BY <2>1
<1>5. \E x \in S : \A y \in S : x >= y
  <2>1. \A y \in S : n - t >= y
    BY <1>4
  <2> QED
    BY <2>1, <1>4
<1>6. Max(S) \in S /\ \A y \in S : Max(S) >= y
  BY <1>5 DEF Max
<1> QED
  BY <1>6

(* The first tag with the name, if there is one. *)
LEMMA FirstTag ==
    ASSUME NEW s \in Seq(Tag), NEW c
    PROVE  LET i == SelectInSeq(s, LAMBDA t : t.who = c)
           IN  \/ i = 0 /\ \A j \in 1 .. Len(s) : s[j].who # c
               \/ i \in 1 .. Len(s) /\ s[i].who = c
<1> DEFINE I == {i \in 1 .. Len(s) : s[i].who = c}
<1>1. SelectInSeq(s, LAMBDA t : t.who = c) = IF I # {} THEN Min(I) ELSE 0
  BY DEF SelectInSeq
<1>2. ASSUME I # {} PROVE Min(I) \in I
  <2>1. I \subseteq Nat
    OBVIOUS
  <2>3. \E t \in I : \A y \in I : t <= y
    BY ONLY <1>2, <2>1, LeastOf
  <2> QED
    BY <2>3 DEF Min
<1> QED
  BY <1>1, <1>2

LEMMA WithoutTag ==
    ASSUME NEW s \in Seq(Tag), NEW c
    PROVE  \/ /\ Without(s, c) = s
              /\ \A j \in 1 .. Len(s) : s[j].who # c
           \/ \E i \in 1 .. Len(s) :
                  /\ s[i].who = c
                  /\ Without(s, c) \in Seq(Tag)
                  /\ Len(Without(s, c)) = Len(s) - 1
                  /\ \A j \in 1 .. Len(s) - 1 :
                         Without(s, c)[j] = IF j < i THEN s[j] ELSE s[j + 1]
<1> DEFINE i == SelectInSeq(s, LAMBDA t : t.who = c)
<1>1. \/ i = 0 /\ \A j \in 1 .. Len(s) : s[j].who # c
      \/ i \in 1 .. Len(s) /\ s[i].who = c
  BY FirstTag
<1>2. Without(s, c) = IF i = 0 THEN s ELSE RemoveAt(s, i)
  BY DEF Without
<1> HIDE DEF i
<1>3. CASE i = 0
  BY <1>1, <1>2, <1>3
<1>4. CASE i \in 1 .. Len(s) /\ s[i].who = c
  <2> DEFINE a == SubSeq(s, 1, i - 1)
             b == SubSeq(s, i + 1, Len(s))
  <2>0. Len(s) \in Nat /\ i \in Nat
    BY <1>4
  <2>1. a \in Seq(Tag) /\ Len(a) = i - 1 /\ \A j \in 1 .. i - 1 : a[j] = s[j]
    BY <1>4, <2>0
  <2>2. b \in Seq(Tag) /\ Len(b) = Len(s) - i
    BY <1>4, <2>0
  <2>3. \A j \in 1 .. Len(s) - i : b[j] = s[i + j]
    BY <1>4, <2>0
  <2> HIDE DEF a, b
  <2>4. a \o b \in Seq(Tag) /\ Len(a \o b) = Len(s) - 1
    <3>1. a \o b \in Seq(Tag) /\ Len(a \o b) = Len(a) + Len(b)
      BY ONLY <2>1, <2>2, ConcatProperties
    <3>2. Len(a) + Len(b) = Len(s) - 1
      BY <2>0, <2>1, <2>2
    <3> QED
      BY <3>1, <3>2
  <2>5. ASSUME NEW j \in 1 .. Len(s) - 1
        PROVE  (a \o b)[j] = IF j < i THEN s[j] ELSE s[j + 1]
    <3>1. CASE j < i
      BY <1>4, <2>0, <2>1, <2>2, <3>1
    <3>2. CASE ~(j < i)
      <4>1. j - (i - 1) \in 1 .. Len(s) - i /\ i + (j - (i - 1)) = j + 1
        BY <2>0, <3>2
      <4>2. (a \o b)[j] = b[j - (i - 1)]
        BY <1>4, <2>0, <2>1, <2>2, <3>2
      <4> QED
        BY <2>3, <3>2, <4>1, <4>2
    <3> QED
      BY <3>1, <3>2
  <2>6. Without(s, c) = a \o b
    <3>1. i # 0
      BY <1>4, <2>0
    <3> QED
      BY <1>2, <3>1, Zenon DEF RemoveAt, a, b
  <2>7. \A j \in 1 .. Len(s) - 1 :
            Without(s, c)[j] = IF j < i THEN s[j] ELSE s[j + 1]
    BY ONLY <2>5, <2>6
  <2>8. Without(s, c) \in Seq(Tag) /\ Len(Without(s, c)) = Len(s) - 1
    BY ONLY <2>4, <2>6
  <2> QED
    BY ONLY <1>4, <2>7, <2>8, Zenon
<1> QED
  BY <1>1, <1>3, <1>4

(* What is left of a list: nobody else's tag goes, and none comes. *)
LEMMA WithoutKeeps ==
    ASSUME NEW s \in Seq(Tag), NEW c
    PROVE  /\ Without(s, c) \in Seq(Tag)
           /\ \A k \in DOMAIN s : s[k].who # c =>
                  \E j \in DOMAIN Without(s, c) : Without(s, c)[j] = s[k]
<1>1. CASE Without(s, c) = s
  BY <1>1
<1>2. ASSUME NEW i \in 1 .. Len(s), s[i].who = c, Without(s, c) \in Seq(Tag),
             Len(Without(s, c)) = Len(s) - 1,
             \A j \in 1 .. Len(s) - 1 :
                 Without(s, c)[j] = IF j < i THEN s[j] ELSE s[j + 1],
             NEW k \in DOMAIN s, s[k].who # c
      PROVE  \E j \in DOMAIN Without(s, c) : Without(s, c)[j] = s[k]
  <2>1. k \in 1 .. Len(s) /\ k # i /\ Len(s) \in Nat
    BY <1>2
  <2>2. CASE k < i
    BY <1>2, <2>1, <2>2
  <2>3. CASE i < k
    <3>1. k - 1 \in 1 .. Len(s) - 1 /\ ~(k - 1 < i) /\ (k - 1) + 1 = k
      BY <1>2, <2>1, <2>3
    <3> QED
      BY <1>2, <2>1, <3>1
  <2> QED
    BY <1>2, <2>1, <2>2, <2>3
<1> QED
  BY <1>1, <1>2, WithoutTag

(* From a list that names everybody once the name is gone. *)
LEMMA WithoutOnce ==
    ASSUME NEW s \in Seq(Tag), NEW c, Once(s)
    PROVE  /\ Once(Without(s, c))
           /\ \A j \in DOMAIN Without(s, c) :
                  /\ Without(s, c)[j].who # c
                  /\ \E k \in DOMAIN s : Without(s, c)[j] = s[k]
<1>1. CASE Without(s, c) = s /\ \A j \in 1 .. Len(s) : s[j].who # c
  BY <1>1
<1>2. ASSUME NEW i \in 1 .. Len(s), s[i].who = c, Without(s, c) \in Seq(Tag),
             Len(Without(s, c)) = Len(s) - 1,
             \A j \in 1 .. Len(s) - 1 :
                 Without(s, c)[j] = IF j < i THEN s[j] ELSE s[j + 1]
      PROVE  /\ Once(Without(s, c))
             /\ \A j \in DOMAIN Without(s, c) :
                    /\ Without(s, c)[j].who # c
                    /\ \E k \in DOMAIN s : Without(s, c)[j] = s[k]
  <2> DEFINE f[j \in 1 .. Len(s) - 1] == IF j < i THEN j ELSE j + 1
  <2>1. \A j \in 1 .. Len(s) - 1 : /\ f[j] \in 1 .. Len(s) /\ f[j] # i
                                   /\ Without(s, c)[j] = s[f[j]]
    BY <1>2
  <2>2. \A j, k \in 1 .. Len(s) - 1 : f[j] = f[k] => j = k
    BY <1>2
  <2>3. DOMAIN Without(s, c) = 1 .. Len(s) - 1 /\ DOMAIN s = 1 .. Len(s)
    BY <1>2
  <2> HIDE DEF f
  <2>4. ASSUME NEW j \in DOMAIN Without(s, c)
        PROVE  /\ Without(s, c)[j].who # c
               /\ \E k \in DOMAIN s : Without(s, c)[j] = s[k]
    <3>1. f[j] \in DOMAIN s /\ f[j] # i /\ Without(s, c)[j] = s[f[j]]
      BY <2>1, <2>3, <2>4
    <3>2. s[f[j]].who # c
      BY <1>2, <3>1 DEF Once
    <3> QED
      BY <3>1, <3>2
  <2>5. Once(Without(s, c))
    <3> SUFFICES ASSUME NEW j \in 1 .. Len(s) - 1, NEW k \in 1 .. Len(s) - 1,
                        Without(s, c)[j].who = Without(s, c)[k].who
                 PROVE  j = k
      BY <2>3, Zenon DEF Once
    <3>1. f[j] \in DOMAIN s /\ f[k] \in DOMAIN s /\ s[f[j]].who = s[f[k]].who
      BY <2>1, <2>3
    <3>2. f[j] = f[k]
      BY <3>1 DEF Once
    <3> QED
      BY <2>2, <3>2
  <2> QED
    BY ONLY <2>4, <2>5
<1> QED
  BY <1>1, <1>2, WithoutTag

(* The list of a set names each of its members once. *)
LEMMA ListOfSet ==
    ASSUME NEW S, IsFiniteSet(S)
    PROVE  /\ SetToSeq(S) \in Seq(S)
           /\ \A i, j \in DOMAIN SetToSeq(S) : SetToSeq(S)[i] = SetToSeq(S)[j] => i = j
           /\ \A x \in S : \E i \in DOMAIN SetToSeq(S) : SetToSeq(S)[i] = x
<1> DEFINE D == 1 .. Cardinality(S)
<1>1. Cardinality(S) \in Nat /\ ExistsBijection(D, S)
  BY FS_CardinalityType
<1>2. \E f \in [D -> S] : IsInjective(f)
  BY <1>1, Zenon DEF ExistsBijection, Bijection, Injection
<1>3. SetToSeq(S) \in [D -> S] /\ IsInjective(SetToSeq(S))
  BY <1>2 DEF SetToSeq
<1>4. SetToSeq(S) \in Injection(D, S)
  BY <1>3 DEF Injection
<1>5. Cardinality(D) = Cardinality(S)
  BY <1>1, FS_Interval
<1>6. SetToSeq(S) \in Surjection(D, S)
  BY <1>4, <1>5, FS_Injection
<1> QED
  BY <1>1, <1>3, <1>6 DEF Surjection, IsInjective

LEMMA SetOnlineTags ==
    ASSUME NEW s \in Seq(Tag), NEW c, NEW b \in BOOLEAN
    PROVE  /\ SetOnline(s, c, b) \in Seq(Tag)
           /\ DOMAIN SetOnline(s, c, b) = DOMAIN s
           /\ \A i \in DOMAIN s :
                  /\ SetOnline(s, c, b)[i].who = s[i].who
                  /\ SetOnline(s, c, b)[i].online = IF s[i].who = c THEN b ELSE s[i].online
<1>1. \A i \in DOMAIN s : s[i] \in Tag
  OBVIOUS
<1>2. \A i \in DOMAIN s : /\ SetOnline(s, c, b)[i] \in Tag
                         /\ SetOnline(s, c, b)[i].who = s[i].who
                         /\ SetOnline(s, c, b)[i].online = IF s[i].who = c THEN b ELSE s[i].online
  BY <1>1 DEF SetOnline, Tag
<1>3. DOMAIN SetOnline(s, c, b) = 1 .. Len(s) /\ DOMAIN s = 1 .. Len(s) /\ Len(s) \in Nat
  BY DEF SetOnline
<1>4. SetOnline(s, c, b) \in [1 .. Len(s) -> Tag]
  BY <1>2, <1>3 DEF SetOnline
<1>5. SetOnline(s, c, b) \in Seq(Tag)
  BY <1>3, <1>4
<1> QED
  BY <1>2, <1>3, <1>5

-----------------------------------------------------------------------------
(* What a step does to the row of a character *)

LEMMA ColumnSame ==
    ASSUME UNCHANGED <<queue, charRow>>, NEW c, NEW p, Column(c, p)
    PROVE  Column(c, p)'
BY DEF Column, SavesApplied

LEMMA ColumnAppend ==
    ASSUME queue \in Seq(Operation), NEW o \in Operation, queue' = Append(queue, o),
           UNCHANGED charRow,
           NEW c, NEW p, Column(c, p), ~(o.op = "save" /\ o.who = c)
    PROVE  Column(c, p)'
<1>1. /\ DOMAIN queue = 1 .. Len(queue) /\ Len(queue) \in Nat
      /\ DOMAIN queue' = 1 .. Len(queue) + 1
      /\ \A i \in DOMAIN queue : queue'[i] = queue[i]
      /\ queue'[Len(queue) + 1] = o
  OBVIOUS
<1>2. CASE SavesApplied(c) /\ charRow[c] = p
  BY <1>1, <1>2 DEF Column, SavesApplied
<1>3. ASSUME NEW i \in DOMAIN queue,
             queue[i] = [op |-> "save", who |-> c, party |-> p],
             \A j \in DOMAIN queue : j > i => ~(queue[j].op = "save" /\ queue[j].who = c)
      PROVE  Column(c, p)'
  BY <1>1, <1>3 DEF Column
<1> QED
  BY <1>2, <1>3 DEF Column

LEMMA ColumnSaved ==
    ASSUME queue \in Seq(Operation), NEW c, NEW p,
           queue' = Append(queue, [op |-> "save", who |-> c, party |-> p])
    PROVE  Column(c, p)'
<1>1. /\ Len(queue) + 1 \in DOMAIN queue'
      /\ queue'[Len(queue) + 1] = [op |-> "save", who |-> c, party |-> p]
      /\ \A j \in DOMAIN queue' : ~(j > Len(queue) + 1)
  OBVIOUS
<1> QED
  BY <1>1 DEF Column

LEMMA ColumnWorker ==
    ASSUME TypeOK, WorkerThread, NEW c \in Character, NEW p, Column(c, p)
    PROVE  Column(c, p)'
<1>1. /\ DOMAIN queue = 1 .. Len(queue) /\ Len(queue) \in Nat \ {0}
      /\ DOMAIN queue' = 1 .. Len(queue) - 1
      /\ \A i \in DOMAIN queue' : queue'[i] = queue[i + 1] /\ i + 1 \in DOMAIN queue
      /\ Head(queue) = queue[1]
  BY DEF WorkerThread, TypeOK
<1>2. charRow' = IF queue[1].op = "save"
                 THEN [charRow EXCEPT ![queue[1].who] = queue[1].party] ELSE charRow
  BY <1>1 DEF WorkerThread
<1>3. charRow \in [Character -> 0 .. MaxParty]
  BY DEF TypeOK
<1>4. CASE SavesApplied(c) /\ charRow[c] = p
  <2>1. SavesApplied(c)'
    BY <1>1, <1>4 DEF SavesApplied
  <2>2. ~(queue[1].op = "save" /\ queue[1].who = c)
    BY <1>1, <1>4 DEF SavesApplied
  <2>3. charRow'[c] = charRow[c]
    BY <1>2, <1>3, <2>2
  <2> QED
    BY <1>4, <2>1, <2>3 DEF Column
<1>5. ASSUME NEW i \in DOMAIN queue,
             queue[i] = [op |-> "save", who |-> c, party |-> p],
             \A j \in DOMAIN queue : j > i => ~(queue[j].op = "save" /\ queue[j].who = c)
      PROVE  Column(c, p)'
  <2>1. CASE i = 1
    <3>1. charRow'[c] = p
      BY <1>2, <1>3, <1>5, <2>1
    <3>2. SavesApplied(c)'
      BY <1>1, <1>5, <2>1 DEF SavesApplied
    <3> QED
      BY <3>1, <3>2 DEF Column
  <2>2. CASE i # 1
    <3>1. i - 1 \in DOMAIN queue' /\ queue'[i - 1] = queue[i]
      BY <1>1, <2>2
    <3>2. \A j \in DOMAIN queue' : j > i - 1 =>
              ~(queue'[j].op = "save" /\ queue'[j].who = c)
      BY <1>1, <1>5, <2>2
    <3> QED
      BY <1>5, <3>1, <3>2 DEF Column
  <2> QED
    BY <2>1, <2>2
<1> QED
  BY <1>4, <1>5 DEF Column

LEMMA BelongsKept ==
    ASSUME NEW c, NEW p, Belongs(c, p), at'[c] = at[c], field'[c] = field[c],
           Column(c, p) => Column(c, p)'
    PROVE  Belongs(c, p)' /\ (Present(c) <=> Present(c)')
BY DEF Belongs, Present

LEMMA PartyType ==
    ASSUME TypeOK, NEW p \in DOMAIN parties
    PROVE  /\ p \in Nat \ {0} /\ p <= maxPartyID
           /\ parties[p].leader \in Character \cup {Nobody}
           /\ parties[p].members \in Seq(Tag)
           /\ \A i \in DOMAIN parties[p].members :
                  /\ parties[p].members[i] \in Tag
                  /\ parties[p].members[i].who \in Character
                  /\ parties[p].members[i].online \in BOOLEAN
<1>1. DOMAIN parties \subseteq 1 .. maxPartyID /\ maxPartyID \in Nat
      /\ parties[p] \in Party
  BY BoundAssumption DEF TypeOK
<1>2. p \in Nat \ {0} /\ p <= maxPartyID
  BY <1>1
<1>3. parties[p].leader \in Character \cup {Nobody} /\ parties[p].members \in Seq(Tag)
  BY <1>1 DEF Party
<1>4. \A i \in DOMAIN parties[p].members : parties[p].members[i] \in Tag
  BY <1>3
<1> QED
  BY <1>2, <1>3, <1>4 DEF Tag

(* A list that a step leaves alone is right afterwards if what it says of   *)
(* its members is.                                                          *)
LEMMA ListKept ==
    ASSUME TypeOK, Members, NEW p \in DOMAIN parties, ~Dying(p), parties'[p] = parties[p],
           \A d \in Character : Belongs(d, p) =>
               at'[d] = at[d] /\ field'[d] = field[d] /\ (Column(d, p) => Column(d, p)')
    PROVE  Listing(p)' /\ Once(parties[p].members)'
<1>1. Listing(p) /\ Once(parties[p].members)
  BY DEF Members
<1>2. ASSUME NEW i \in DOMAIN parties[p].members
      PROVE  /\ Belongs(parties[p].members[i].who, p)'
             /\ parties'[p].members[i].online <=> Present(parties[p].members[i].who)'
  <2>0. PICK d : d = parties[p].members[i].who
    OBVIOUS
  <2>1. d \in Character /\ Belongs(d, p) /\ (parties[p].members[i].online <=> Present(d))
    BY <1>1, <2>0, PartyType DEF Listing
  <2>2. at'[d] = at[d] /\ field'[d] = field[d] /\ (Column(d, p) => Column(d, p)')
    BY <2>1
  <2>3. Belongs(d, p)' /\ (Present(d) <=> Present(d)')
    BY <2>1, <2>2, BelongsKept
  <2> QED
    BY <2>0, <2>1, <2>3
<1> QED
  BY <1>1, <1>2 DEF Listing, Once

LEMMA SaveType == ASSUME TypeOK, NEW c \in Character PROVE SaveOf(c) \in Operation
<1>1. field[c] \in 0 .. MaxParty
  BY DEF TypeOK
<1> QED
  BY <1>1 DEF SaveOf, Operation

-----------------------------------------------------------------------------
(* Every command keeps IInv *)

LEMMA Create_IInv ==
    ASSUME IInv, NEW c \in Character, CreateParty(c), UNCHANGED crashed
    PROVE  IInv'
<1> DEFINE n == maxPartyID + 1
           o == [op |-> "add", who |-> c, party |-> n]
           new == [leader |-> c, members |-> <<[who |-> c, online |-> TRUE]>>]
<1>1. /\ at[c] = "in" /\ field[c] = 0 /\ n \in PartyID
      /\ maxPartyID' = n /\ at' = at /\ dying' = dying
      /\ field' = [field EXCEPT ![c] = n]
      /\ queue' = Append(queue, o)
      /\ partyRow' = partyRow /\ charRow' = charRow
  BY DEF CreateParty, AddGroupToDatabase, Enqueue
<1>2. TypeOK /\ n \in Nat \ {0} /\ n \notin DOMAIN parties
  <2>1. DOMAIN parties \subseteq 1 .. maxPartyID /\ maxPartyID \in 0 .. MaxParty
    BY DEF IInv, TypeOK
  <2>2. maxPartyID \in Nat
    BY <2>1, BoundAssumption
  <2> QED
    BY <2>1, <2>2 DEF IInv
<1>3. DOMAIN parties' = DOMAIN parties \cup {n} /\ parties'[n] = new
      /\ \A p \in DOMAIN parties : parties'[p] = parties[p]
  BY <1>2 DEF CreateParty
<1>4. new \in Party /\ Len(new.members) = 1 /\ DOMAIN new.members = {1}
      /\ new.members[1] = [who |-> c, online |-> TRUE] /\ new.leader = c
  BY DEF Party, Tag
<1>5. o \in Operation
  BY <1>1 DEF Operation
<1> HIDE DEF new
<1>6. TypeOK'
  BY <1>1, <1>2, <1>3, <1>4, <1>5, BoundAssumption DEF TypeOK, PartyID
<1>7. Leaders'
  BY <1>2, <1>3, <1>4, NobodyAssumption DEF IInv, Leaders, Listed
<1>8. \A p : Dying(p)' <=> Dying(p)
  BY <1>1 DEF Dying
<1>9. ASSUME NEW p \in DOMAIN parties', ~Dying(p)'
      PROVE  Listing(p)' /\ Once(parties[p].members)'
  <2>1. CASE p = n
    <3>1. field'[c] = n /\ at'[c] = "in"
      BY <1>1, <1>2 DEF TypeOK
    <3> QED
      BY <1>3, <1>4, <2>1, <3>1 DEF Listing, Once, Belongs, Present
  <2>2. CASE p \in DOMAIN parties
    <3>1. ASSUME NEW d \in Character, Belongs(d, p)
          PROVE  at'[d] = at[d] /\ field'[d] = field[d] /\ (Column(d, p) => Column(d, p)')
      <4>1. d # c
        BY <1>1, <1>2, <2>2, <3>1, PartyType DEF Belongs
      <4>2. Column(d, p) => Column(d, p)'
        BY <1>1, <1>2, <1>5, ColumnAppend DEF TypeOK
      <4> QED
        BY <1>1, <1>2, <4>1, <4>2 DEF TypeOK
    <3> QED
      BY <1>2, <1>3, <1>8, <1>9, <2>2, <3>1, ListKept DEF IInv
  <2> QED
    BY <1>3, <2>1, <2>2
<1>10. Members'
  BY <1>9 DEF Members
<1>11. Destroyers'
  BY <1>1, <1>3 DEF IInv, Destroyers
<1> QED
  BY <1>6, <1>7, <1>10, <1>11 DEF IInv

LEMMA Join_IInv ==
    ASSUME IInv, NEW c \in Character, JoinParty(c), UNCHANGED crashed
    PROVE  IInv'
<1> DEFINE t == [who |-> c, online |-> TRUE]
<1>1. PICK n \in DOMAIN parties :
          /\ CanJoin(c, n)
          /\ parties' = [parties EXCEPT ![n].members = Append(@, t)]
          /\ field' = [field EXCEPT ![c] = n]
  BY DEF JoinParty
<1>0. PICK s : s = parties[n].members
  OBVIOUS
<1>2. /\ at[c] = "in" /\ field[c] = 0
      /\ UNCHANGED <<maxPartyID, at, dying, partyRow, charRow, queue>>
  BY <1>1 DEF JoinParty, CanJoin, database
<1>3. TypeOK /\ t \in Tag /\ t.who = c /\ t.online = TRUE
  BY DEF IInv, Tag
<1>4. s \in Seq(Tag) /\ Append(s, t) \in Seq(Tag)
      /\ DOMAIN Append(s, t) = DOMAIN s \cup {Len(s) + 1}
      /\ Append(s, t)[Len(s) + 1] = t
      /\ Len(s) + 1 \notin DOMAIN s
      /\ \A i \in DOMAIN s : Append(s, t)[i] = s[i]
  BY <1>0, <1>3, PartyType
<1>5. /\ DOMAIN parties' = DOMAIN parties
      /\ parties'[n].members = Append(s, t) /\ parties'[n].leader = parties[n].leader
      /\ parties'[n] \in Party
      /\ \A p \in DOMAIN parties : p # n => parties'[p] = parties[p]
  BY <1>0, <1>1, <1>3, <1>4 DEF TypeOK, Party
<1>6. n \in 1 .. MaxParty
  BY <1>3, PartyType, BoundAssumption DEF TypeOK
<1>7. TypeOK'
  BY <1>1, <1>2, <1>3, <1>5, <1>6 DEF TypeOK
<1> HIDE DEF t
<1>8. Leaders'
  BY <1>0, <1>4, <1>5 DEF IInv, Leaders, Listed
<1>9. \A p : Dying(p)' <=> Dying(p)
  BY <1>2 DEF Dying
<1>10. ASSUME NEW p \in DOMAIN parties, ~Dying(p), NEW d \in Character, Belongs(d, p)
       PROVE  d # c /\ Belongs(d, p)' /\ (Present(d) <=> Present(d)')
              /\ at'[d] = at[d] /\ field'[d] = field[d] /\ (Column(d, p) => Column(d, p)')
  <2>1. d # c
    BY <1>2, <1>3, <1>10, PartyType DEF Belongs
  <2>2. at'[d] = at[d] /\ field'[d] = field[d]
    BY <1>1, <1>2, <1>3, <2>1 DEF TypeOK
  <2>3. Column(d, p) => Column(d, p)'
    BY <1>2, ColumnSame
  <2> QED
    BY <1>10, <2>1, <2>2, <2>3, BelongsKept
<1>11. ASSUME NEW p \in DOMAIN parties, ~Dying(p), p # n
       PROVE  Listing(p)' /\ Once(parties[p].members)'
  BY <1>3, <1>5, <1>10, <1>11, ListKept DEF IInv
<1>12. ASSUME ~Dying(n)
       PROVE  Listing(n)' /\ Once(parties[n].members)'
  <2>1. Listing(n) /\ Once(s)
    BY <1>0, <1>12 DEF IInv, Members
  <2>2. ASSUME NEW i \in DOMAIN s
        PROVE  /\ s[i].who # c /\ Belongs(s[i].who, n)'
               /\ s[i].online <=> Present(s[i].who)'
    <3>1. s[i].who \in Character /\ Belongs(s[i].who, n)
          /\ (s[i].online <=> Present(s[i].who))
      BY <1>0, <1>3, <2>1, PartyType DEF Listing
    <3> QED
      BY <1>10, <1>12, <3>1
  <2>3. Belongs(c, n)' /\ Present(c)'
    BY <1>1, <1>2, <1>3 DEF Belongs, Present, TypeOK
  <2>4. Listing(n)'
    BY <1>3, <1>4, <1>5, <2>2, <2>3 DEF Listing, t
  <2>5. Once(parties[n].members)'
    BY <1>3, <1>4, <1>5, <2>1, <2>2 DEF Once, t
  <2> QED
    BY <2>4, <2>5
<1>13. Members'
  BY <1>5, <1>9, <1>11, <1>12 DEF Members
<1>14. Destroyers'
  BY <1>2, <1>5 DEF IInv, Destroyers
<1> QED
  BY <1>7, <1>8, <1>13, <1>14 DEF IInv

LEMMA Leave_IInv ==
    ASSUME IInv, NEW c \in Character, LeaveParty(c), UNCHANGED crashed
    PROVE  IInv'
<1>0. PICK n, s, w : n = field[c] /\ s = parties[field[c]].members /\ w = Without(s, c)
  OBVIOUS
<1>1. /\ at[c] = "in" /\ n \in DOMAIN parties /\ parties[n].leader # c
      /\ parties' = [parties EXCEPT ![n].members = w]
      /\ at' = [at EXCEPT ![c] = "leaving"]
      /\ UNCHANGED <<maxPartyID, field, dying, partyRow, charRow, queue>>
  BY <1>0 DEF LeaveParty, CanLeave, database
<1>2. TypeOK /\ s = parties[n].members /\ s \in Seq(Tag)
  BY <1>0, <1>1, PartyType DEF IInv
<1>3. w \in Seq(Tag)
      /\ \A k \in DOMAIN s : s[k].who # c => \E j \in DOMAIN w : w[j] = s[k]
  BY <1>0, <1>2, WithoutKeeps
<1>4. /\ DOMAIN parties' = DOMAIN parties
      /\ parties'[n].members = w /\ parties'[n].leader = parties[n].leader
      /\ parties'[n] \in Party
      /\ \A p \in DOMAIN parties : p # n => parties'[p] = parties[p]
  BY <1>1, <1>2, <1>3 DEF TypeOK, Party
<1>5. TypeOK'
  BY <1>1, <1>2, <1>4 DEF TypeOK, Place
<1>6. Leaders'
  <2>1. ASSUME NEW p \in DOMAIN parties, parties[p].leader \in Listed(p)
        PROVE  parties'[p].leader \in Listed(p)'
    <3>1. CASE p = n
      <4>1. PICK k \in DOMAIN s : s[k].who = parties[n].leader
        BY <1>2, <2>1, <3>1 DEF Listed
      <4>2. PICK j \in DOMAIN w : w[j] = s[k]
        BY <1>1, <1>3, <4>1
      <4> QED
        BY <1>4, <3>1, <4>1, <4>2 DEF Listed
    <3>2. CASE p # n
      BY <1>4, <2>1, <3>2 DEF Listed
    <3> QED
      BY <3>1, <3>2
  <2>2. \A p \in DOMAIN parties : parties'[p].leader = parties[p].leader
    BY <1>4
  <2> QED
    BY <1>4, <2>1, <2>2 DEF IInv, Leaders
<1>7. at'[c] = "leaving" /\ \A d \in Character : d # c => at'[d] = at[d]
  BY <1>1, <1>2 DEF TypeOK
<1>8. \A p : Dying(p) => Dying(p)'
  BY <1>1, <1>7 DEF Dying
<1>9. ASSUME NEW p \in DOMAIN parties, ~Dying(p), p # n
      PROVE  Listing(p)' /\ Once(parties[p].members)'
  <2>1. ASSUME NEW d \in Character, Belongs(d, p)
        PROVE  at'[d] = at[d] /\ field'[d] = field[d] /\ (Column(d, p) => Column(d, p)')
    <3>1. d # c
      BY <1>0, <1>1, <1>9, <2>1 DEF Belongs
    <3> QED
      BY <1>1, <1>7, <3>1, ColumnSame
  <2> QED
    BY <1>2, <1>4, <1>9, <2>1, ListKept DEF IInv
<1>10. ASSUME ~Dying(n)
       PROVE  Listing(n)' /\ Once(parties[n].members)'
  <2>1. Listing(n) /\ Once(s)
    BY <1>1, <1>2, <1>10 DEF IInv, Members
  <2>2. Once(w) /\ \A j \in DOMAIN w : w[j].who # c /\ \E k \in DOMAIN s : w[j] = s[k]
    BY <1>0, <1>2, <2>1, WithoutOnce
  <2>3. ASSUME NEW j \in DOMAIN w
        PROVE  Belongs(w[j].who, n)' /\ (w[j].online <=> Present(w[j].who)')
    <3>1. PICK k \in DOMAIN s : w[j] = s[k]
      BY <2>2
    <3>2. w[j].who \in Character /\ w[j].who # c /\ Belongs(w[j].who, n)
          /\ (w[j].online <=> Present(w[j].who))
      BY <1>1, <1>2, <2>1, <2>2, <3>1, PartyType DEF Listing
    <3> QED
      BY <1>1, <1>7, <3>2, BelongsKept, ColumnSame
  <2> QED
    BY <1>4, <2>2, <2>3 DEF Listing
<1>11. Members'
  BY <1>4, <1>8, <1>9, <1>10 DEF Members
<1>12. Destroyers'
  BY <1>1, <1>4, <1>7 DEF IInv, Destroyers
<1> QED
  BY <1>5, <1>6, <1>11, <1>12 DEF IInv

LEMMA FinishLeave_IInv ==
    ASSUME IInv, NEW c \in Character, FinishLeave(c), UNCHANGED crashed
    PROVE  IInv'
<1>1. /\ at[c] = "leaving"
      /\ field' = [field EXCEPT ![c] = 0] /\ at' = [at EXCEPT ![c] = "in"]
      /\ UNCHANGED <<parties, maxPartyID, dying, partyRow, charRow, queue>>
  BY DEF FinishLeave, database
<1>2. TypeOK
  BY DEF IInv
<1>3. TypeOK'
  BY <1>1, <1>2, BoundAssumption DEF TypeOK, Place
<1>4. at'[c] = "in" /\ \A d \in Character : d # c => at'[d] = at[d] /\ field'[d] = field[d]
  BY <1>1, <1>2 DEF TypeOK
<1>5. \A p : Dying(p) => Dying(p)'
  BY <1>1, <1>4 DEF Dying
<1>6. ASSUME NEW p \in DOMAIN parties, ~Dying(p)
      PROVE  Listing(p)' /\ Once(parties[p].members)'
  <2>1. \A d \in Character : Belongs(d, p) =>
            at'[d] = at[d] /\ field'[d] = field[d] /\ (Column(d, p) => Column(d, p)')
    BY <1>1, <1>4, ColumnSame DEF Belongs
  <2> QED
    BY <1>1, <1>2, <1>6, <2>1, ListKept DEF IInv
<1>7. Members'
  BY <1>1, <1>5, <1>6 DEF Members
<1>8. Leaders' /\ Destroyers'
  BY <1>1, <1>4 DEF IInv, Leaders, Listed, Destroyers
<1> QED
  BY <1>3, <1>7, <1>8 DEF IInv

LEMMA Destroy_IInv ==
    ASSUME IInv, NEW c \in Character, DestroyParty(c), UNCHANGED crashed
    PROVE  IInv'
<1>0. PICK n : n = field[c]
  OBVIOUS
<1>1. /\ at[c] = "in" /\ n \in DOMAIN parties /\ parties[n].leader = c
      /\ field' = [d \in Character |->
                       IF [who |-> d, online |-> TRUE] \in ToSet(parties[n].members)
                       THEN 0 ELSE field[d]]
      /\ dying' = [dying EXCEPT ![c] = n]
      /\ at' = [at EXCEPT ![c] = "destroying"]
      /\ queue' = Append(queue, [op |-> "del", party |-> n])
      /\ UNCHANGED <<parties, maxPartyID, partyRow, charRow>>
  BY <1>0 DEF DestroyParty, Enqueue
<1>2. TypeOK /\ n \in PartyID
  <2>1. n \in Nat \ {0} /\ n <= maxPartyID /\ maxPartyID \in 0 .. MaxParty
    BY <1>1, PartyType DEF IInv, TypeOK
  <2> QED
    BY <2>1, BoundAssumption DEF IInv, PartyID
<1>3. [op |-> "del", party |-> n] \in Operation
  BY <1>2 DEF Operation
<1>4. TypeOK'
  <2>1. field' \in [Character -> 0 .. MaxParty]
    BY <1>1, <1>2, BoundAssumption DEF TypeOK
  <2>2. at' \in [Character -> Place] /\ dying' \in [Character -> 0 .. MaxParty]
    BY <1>1, <1>2, BoundAssumption DEF TypeOK, Place, PartyID
  <2>3. queue' \in Seq(Operation)
    BY <1>1, <1>2, <1>3 DEF TypeOK
  <2> QED
    BY <1>1, <1>2, <2>1, <2>2, <2>3 DEF TypeOK
<1>5. /\ at'[c] = "destroying" /\ dying'[c] = n
      /\ \A d \in Character : d # c => at'[d] = at[d] /\ dying'[d] = dying[d]
  BY <1>1, <1>2 DEF TypeOK
<1>6. Dying(n)' /\ \A p : Dying(p) => Dying(p)'
  BY <1>1, <1>5 DEF Dying
<1>7. ~Dying(n)
  BY <1>1 DEF IInv, Destroyers, Dying
<1>8. ASSUME NEW p \in DOMAIN parties, ~Dying(p)'
      PROVE  Listing(p)' /\ Once(parties[p].members)'
  <2>1. p # n /\ ~Dying(p)
    BY <1>6, <1>8
  <2>2. ASSUME NEW d \in Character, Belongs(d, p)
        PROVE  at'[d] = at[d] /\ field'[d] = field[d] /\ (Column(d, p) => Column(d, p)')
    <3>1. d # c
      BY <1>0, <1>1, <2>1, <2>2 DEF Belongs
    <3>2. [who |-> d, online |-> TRUE] \notin ToSet(parties[n].members)
      <4>1. ASSUME NEW i \in DOMAIN parties[n].members,
                   parties[n].members[i] = [who |-> d, online |-> TRUE]
            PROVE  FALSE
        <5>1. parties[n].members[i].who = d /\ parties[n].members[i].online
          BY <4>1
        <5>2. Belongs(d, n) /\ Present(d)
          BY <1>1, <1>7, <5>1 DEF IInv, Members, Listing
        <5> QED
          BY <2>1, <2>2, <5>2 DEF Belongs, Present
      <4> QED
        BY <4>1 DEF ToSet
    <3>3. field'[d] = field[d]
      BY <1>1, <3>2
    <3>4. Column(d, p) => Column(d, p)'
      BY <1>1, <1>2, <1>3, ColumnAppend DEF TypeOK
    <3> QED
      BY <1>5, <3>1, <3>3, <3>4
  <2> QED
    BY <1>1, <1>2, <2>1, <2>2, ListKept DEF IInv
<1>9. Members'
  BY <1>1, <1>8 DEF Members
<1>10. Leaders' /\ Destroyers'
  BY <1>1, <1>5 DEF IInv, Leaders, Listed, Destroyers
<1> QED
  BY <1>4, <1>9, <1>10 DEF IInv

LEMMA FinishDestroy_IInv ==
    ASSUME IInv, NEW c \in Character, FinishDestroy(c), UNCHANGED crashed
    PROVE  IInv'
<1>0. PICK n : n = dying[c]
  OBVIOUS
<1>1. /\ at[c] = "destroying"
      /\ dying' = [dying EXCEPT ![c] = 0] /\ at' = [at EXCEPT ![c] = "in"]
      /\ UNCHANGED <<maxPartyID, field, partyRow, charRow, queue>>
      /\ DOMAIN parties' = DOMAIN parties \ {n}
      /\ \A p \in DOMAIN parties' : parties'[p] = parties[p]
  BY <1>0 DEF FinishDestroy, database
<1>2. TypeOK
  BY DEF IInv
<1>3. TypeOK'
  BY <1>1, <1>2, BoundAssumption DEF TypeOK, Place
<1>4. /\ at'[c] = "in"
      /\ \A d \in Character : d # c => at'[d] = at[d] /\ dying'[d] = dying[d]
  BY <1>1, <1>2 DEF TypeOK
<1>5. \A p \in DOMAIN parties' : Dying(p) => Dying(p)'
  BY <1>0, <1>1, <1>4 DEF Dying
<1>6. ASSUME NEW p \in DOMAIN parties', ~Dying(p)'
      PROVE  Listing(p)' /\ Once(parties[p].members)'
  <2>1. \A d \in Character : Belongs(d, p) =>
            at'[d] = at[d] /\ field'[d] = field[d] /\ (Column(d, p) => Column(d, p)')
    BY <1>1, <1>4, ColumnSame DEF Belongs
  <2> QED
    BY <1>1, <1>2, <1>5, <1>6, <2>1, ListKept DEF IInv
<1>7. Members'
  BY <1>6 DEF Members
<1>8. Leaders'
  BY <1>1 DEF IInv, Leaders, Listed
<1>9. Destroyers'
  <2> SUFFICES ASSUME NEW d \in Character, at'[d] = "destroying"
               PROVE  dying'[d] \in DOMAIN parties' /\ parties'[dying'[d]].leader = d
    BY DEF Destroyers
  <2>1. d # c /\ dying'[d] = dying[d]
    BY <1>4
  <2>2. dying[d] \in DOMAIN parties /\ parties[dying[d]].leader = d /\ parties[n].leader = c
    BY <1>0, <1>1, <1>4, <2>1 DEF IInv, Destroyers
  <2> QED
    BY <1>1, <2>1, <2>2
<1> QED
  BY <1>3, <1>7, <1>8, <1>9 DEF IInv

LEMMA ReadCharacter_IInv ==
    ASSUME Patient, IInv, NEW c \in Character, ReadCharacter(c), UNCHANGED crashed
    PROVE  IInv'
<1>1. /\ at[c] = "off" /\ SavesApplied(c)
      /\ field' = [field EXCEPT ![c] = charRow[c]] /\ at' = [at EXCEPT ![c] = "reading"]
      /\ UNCHANGED <<parties, maxPartyID, dying, partyRow, charRow, queue>>
  BY DEF ReadCharacter, database
<1>2. TypeOK
  BY DEF IInv
<1>3. TypeOK'
  BY <1>1, <1>2 DEF TypeOK, Place
<1>4. /\ at'[c] = "reading" /\ field'[c] = charRow[c]
      /\ \A d \in Character : d # c => at'[d] = at[d] /\ field'[d] = field[d]
  BY <1>1, <1>2 DEF TypeOK
<1>5. \A p : Dying(p) => Dying(p)'
  BY <1>1, <1>4 DEF Dying
<1>6. ASSUME NEW d \in Character, NEW p, Belongs(d, p)
      PROVE  Belongs(d, p)' /\ (Present(d) <=> Present(d)')
  <2>1. CASE d = c
    BY <1>1, <1>4, <1>6, <2>1 DEF Belongs, Present, Column, SavesApplied
  <2>2. CASE d # c
    BY <1>1, <1>4, <1>6, <2>2, BelongsKept, ColumnSame
  <2> QED
    BY <2>1, <2>2
<1>7. Members'
  <2> SUFFICES ASSUME NEW p \in DOMAIN parties, ~Dying(p)
               PROVE  Listing(p)' /\ Once(parties[p].members)'
    BY <1>1, <1>5 DEF Members
  <2>1. Listing(p) /\ Once(parties[p].members)
    BY DEF IInv, Members
  <2>2. \A i \in DOMAIN parties[p].members : parties[p].members[i].who \in Character
    BY <1>2, PartyType
  <2> QED
    BY <1>1, <1>6, <2>1, <2>2 DEF Listing
<1>8. Leaders' /\ Destroyers'
  BY <1>1, <1>4 DEF IInv, Leaders, Listed, Destroyers
<1> QED
  BY <1>3, <1>7, <1>8 DEF IInv

(* A login or a logout rewrites the tag of one player in one list. *)
LEMMA WithOnlineParties ==
    ASSUME TypeOK, NEW c \in Character, NEW b \in BOOLEAN, parties' = WithOnline(c, b)
    PROVE  /\ DOMAIN parties' = DOMAIN parties
           /\ \A p \in DOMAIN parties :
                  /\ parties'[p] \in Party /\ parties'[p].leader = parties[p].leader
                  /\ DOMAIN parties'[p].members = DOMAIN parties[p].members
                  /\ \A i \in DOMAIN parties[p].members :
                         /\ parties'[p].members[i].who = parties[p].members[i].who
                         /\ parties'[p].members[i].online =
                                IF p = field[c] /\ parties[p].members[i].who = c
                                THEN b ELSE parties[p].members[i].online
<1>0. PICK n : n = field[c]
  OBVIOUS
<1>1. CASE n \in DOMAIN parties
  <2>0. PICK s, t : s = parties[n].members /\ t = SetOnline(s, c, b)
    OBVIOUS
  <2>1. s \in Seq(Tag)
    BY <1>1, <2>0, PartyType
  <2>2. /\ t \in Seq(Tag) /\ DOMAIN t = DOMAIN s
        /\ \A i \in DOMAIN s :
               /\ t[i].who = s[i].who
               /\ t[i].online = IF s[i].who = c THEN b ELSE s[i].online
    BY <2>0, <2>1, SetOnlineTags
  <2>3. parties' = [parties EXCEPT ![n].members = t]
    BY <1>0, <1>1, <2>0 DEF WithOnline
  <2>4. /\ DOMAIN parties' = DOMAIN parties
        /\ parties'[n].members = t /\ parties'[n].leader = parties[n].leader
        /\ parties'[n] \in Party
        /\ \A p \in DOMAIN parties : p # n => parties'[p] = parties[p]
    BY <1>1, <2>2, <2>3 DEF TypeOK, Party
  <2>5. \A p \in DOMAIN parties : parties'[p] \in Party
    BY <2>4 DEF TypeOK
  <2> QED
    BY <1>0, <1>1, <2>0, <2>2, <2>4, <2>5
<1>2. CASE n \notin DOMAIN parties
  BY <1>0, <1>2 DEF WithOnline, TypeOK
<1> QED
  BY <1>1, <1>2

LEMMA OnLogin_IInv ==
    ASSUME IInv, NEW c \in Character, onLogin(c), UNCHANGED crashed
    PROVE  IInv'
<1>1. /\ at[c] = "reading" /\ parties' = WithOnline(c, TRUE)
      /\ at' = [at EXCEPT ![c] = "in"]
      /\ UNCHANGED <<maxPartyID, field, dying, partyRow, charRow, queue>>
  BY DEF onLogin, database
<1>2. TypeOK
  BY DEF IInv
<1>3. /\ DOMAIN parties' = DOMAIN parties
      /\ \A p \in DOMAIN parties :
             /\ parties'[p] \in Party /\ parties'[p].leader = parties[p].leader
             /\ DOMAIN parties'[p].members = DOMAIN parties[p].members
             /\ \A i \in DOMAIN parties[p].members :
                    /\ parties'[p].members[i].who = parties[p].members[i].who
                    /\ parties'[p].members[i].online =
                           IF p = field[c] /\ parties[p].members[i].who = c
                           THEN TRUE ELSE parties[p].members[i].online
  BY <1>1, <1>2, WithOnlineParties
<1>4. TypeOK'
  BY <1>1, <1>2, <1>3 DEF TypeOK, Place
<1>5. at'[c] = "in" /\ \A d \in Character : d # c => at'[d] = at[d]
  BY <1>1, <1>2 DEF TypeOK
<1>6. \A p : Dying(p) => Dying(p)'
  BY <1>1, <1>5 DEF Dying
<1>7. ASSUME NEW d \in Character, NEW p, Belongs(d, p)
      PROVE  /\ Belongs(d, p)'
             /\ d = c => p = field[c] /\ Present(d)'
             /\ d # c => (Present(d) <=> Present(d)')
  <2>1. CASE d = c
    BY <1>1, <1>5, <1>7, <2>1 DEF Belongs, Present
  <2>2. CASE d # c
    BY <1>1, <1>5, <1>7, <2>2, BelongsKept, ColumnSame
  <2> QED
    BY <2>1, <2>2
<1>8. Members'
  <2> SUFFICES ASSUME NEW p \in DOMAIN parties, ~Dying(p)
               PROVE  Listing(p)' /\ Once(parties[p].members)'
    BY <1>3, <1>6 DEF Members
  <2>1. Listing(p) /\ Once(parties[p].members)
    BY DEF IInv, Members
  <2>2. \A i \in DOMAIN parties[p].members : parties[p].members[i].who \in Character
    BY <1>2, PartyType
  <2>3. ASSUME NEW i \in DOMAIN parties[p].members
        PROVE  /\ Belongs(parties[p].members[i].who, p)'
               /\ parties'[p].members[i].online <=> Present(parties[p].members[i].who)'
    <3>1. PICK d \in Character : d = parties[p].members[i].who
      BY <2>2
    <3>2. Belongs(d, p) /\ (parties[p].members[i].online <=> Present(d))
      BY <2>1, <3>1 DEF Listing
    <3>3. parties'[p].members[i].who = d
      BY <1>3, <3>1
    <3> QED
      BY <1>3, <1>7, <3>1, <3>2, <3>3
  <2>4. Listing(p)'
    BY <1>3, <2>3 DEF Listing
  <2>5. Once(parties[p].members)'
    BY <1>3, <2>1 DEF Once
  <2> QED
    BY <2>4, <2>5
<1>9. Leaders' /\ Destroyers'
  <2>1. Destroyers'
    BY <1>1, <1>3, <1>5 DEF IInv, Destroyers
  <2>2. ASSUME NEW p \in DOMAIN parties
        PROVE  Listed(p) \subseteq Listed(p)'
    BY <1>3 DEF Listed
  <2>3. Leaders'
    BY <1>1, <1>3, <2>2 DEF IInv, Leaders
  <2> QED
    BY <2>1, <2>3
<1> QED
  BY <1>4, <1>8, <1>9 DEF IInv

LEMMA Cleanups_IInv ==
    ASSUME IInv, NEW c \in Character, CleanupsBeforeDelete(c), UNCHANGED crashed
    PROVE  IInv'
<1>1. /\ at[c] = "saved" /\ parties' = WithOnline(c, FALSE)
      /\ field' = [field EXCEPT ![c] = 0] /\ at' = [at EXCEPT ![c] = "off"]
      /\ UNCHANGED <<maxPartyID, dying, partyRow, charRow, queue>>
  BY DEF CleanupsBeforeDelete, database
<1>2. TypeOK
  BY DEF IInv
<1>3. /\ DOMAIN parties' = DOMAIN parties
      /\ \A p \in DOMAIN parties :
             /\ parties'[p] \in Party /\ parties'[p].leader = parties[p].leader
             /\ DOMAIN parties'[p].members = DOMAIN parties[p].members
             /\ \A i \in DOMAIN parties[p].members :
                    /\ parties'[p].members[i].who = parties[p].members[i].who
                    /\ parties'[p].members[i].online =
                           IF p = field[c] /\ parties[p].members[i].who = c
                           THEN FALSE ELSE parties[p].members[i].online
  BY <1>1, <1>2, WithOnlineParties
<1>4. TypeOK'
  <2>1. at' \in [Character -> Place] /\ field' \in [Character -> 0 .. MaxParty]
    BY <1>1, <1>2, BoundAssumption DEF TypeOK, Place
  <2> QED
    BY <1>1, <1>2, <1>3, <2>1 DEF TypeOK
<1>5. at'[c] = "off" /\ \A d \in Character : d # c => at'[d] = at[d] /\ field'[d] = field[d]
  BY <1>1, <1>2 DEF TypeOK
<1>6. \A p : Dying(p) => Dying(p)'
  BY <1>1, <1>5 DEF Dying
<1>7. ASSUME NEW d \in Character, NEW p, Belongs(d, p)
      PROVE  /\ Belongs(d, p)'
             /\ d = c => p = field[c] /\ ~Present(d)'
             /\ d # c => (Present(d) <=> Present(d)')
  <2>1. CASE d = c
    BY <1>1, <1>5, <1>7, <2>1, ColumnSame DEF Belongs, Present
  <2>2. CASE d # c
    BY <1>1, <1>5, <1>7, <2>2, BelongsKept, ColumnSame
  <2> QED
    BY <2>1, <2>2
<1>8. Members'
  <2> SUFFICES ASSUME NEW p \in DOMAIN parties, ~Dying(p)
               PROVE  Listing(p)' /\ Once(parties[p].members)'
    BY <1>3, <1>6 DEF Members
  <2>1. Listing(p) /\ Once(parties[p].members)
    BY DEF IInv, Members
  <2>2. \A i \in DOMAIN parties[p].members : parties[p].members[i].who \in Character
    BY <1>2, PartyType
  <2>3. ASSUME NEW i \in DOMAIN parties[p].members
        PROVE  /\ Belongs(parties[p].members[i].who, p)'
               /\ parties'[p].members[i].online <=> Present(parties[p].members[i].who)'
    <3>1. PICK d \in Character : d = parties[p].members[i].who
      BY <2>2
    <3>2. Belongs(d, p) /\ (parties[p].members[i].online <=> Present(d))
      BY <2>1, <3>1 DEF Listing
    <3>3. parties'[p].members[i].who = d
      BY <1>3, <3>1
    <3> QED
      BY <1>3, <1>7, <3>1, <3>2, <3>3
  <2>4. Listing(p)'
    BY <1>3, <2>3 DEF Listing
  <2>5. Once(parties[p].members)'
    BY <1>3, <2>1 DEF Once
  <2> QED
    BY <2>4, <2>5
<1>9. Leaders' /\ Destroyers'
  <2>1. Destroyers'
    BY <1>1, <1>3, <1>5 DEF IInv, Destroyers
  <2>2. ASSUME NEW p \in DOMAIN parties
        PROVE  Listed(p) \subseteq Listed(p)'
    BY <1>3 DEF Listed
  <2>3. Leaders'
    BY <1>1, <1>3, <2>2 DEF IInv, Leaders
  <2> QED
    BY <2>1, <2>3
<1> QED
  BY <1>4, <1>8, <1>9 DEF IInv

(* A save of the player, which stays in the game or is about to leave it. *)
LEMMA Saves_IInv ==
    ASSUME IInv, NEW c \in Character, Save(c) \/ LogoutNow(c), UNCHANGED crashed
    PROVE  IInv'
<1>1. /\ at[c] = "in" /\ queue' = Append(queue, SaveOf(c))
      /\ at' = at \/ at' = [at EXCEPT ![c] = "saved"]
      /\ UNCHANGED <<parties, maxPartyID, field, dying, partyRow, charRow>>
  BY DEF Save, LogoutNow, Enqueue, memory
<1>2. TypeOK /\ SaveOf(c) \in Operation /\ queue \in Seq(Operation)
  BY SaveType DEF IInv, TypeOK
<1>3. TypeOK'
  <2>1. at' \in [Character -> Place]
    BY <1>1, <1>2 DEF TypeOK, Place
  <2>2. queue' \in Seq(Operation)
    BY <1>1, <1>2
  <2> QED
    BY <1>1, <1>2, <2>1, <2>2 DEF TypeOK
<1>4. /\ at'[c] \in {"in", "saved"}
      /\ \A d \in Character : d # c => at'[d] = at[d]
  BY <1>1, <1>2 DEF TypeOK
<1>5. \A p : Dying(p) => Dying(p)'
  BY <1>1, <1>4 DEF Dying
<1>6. ASSUME NEW d \in Character, NEW p, Belongs(d, p)
      PROVE  Belongs(d, p)' /\ (Present(d) <=> Present(d)')
  <2>1. CASE d = c
    <3>1. field[c] = p
      BY <1>1, <1>6, <2>1 DEF Belongs
    <3>2. Column(c, p)'
      BY <1>1, <1>2, <3>1, ColumnSaved DEF SaveOf
    <3> QED
      BY <1>1, <1>4, <2>1, <3>1, <3>2 DEF Belongs, Present
  <2>2. CASE d # c
    <3>1. Column(d, p) => Column(d, p)'
      BY <1>1, <1>2, <2>2, ColumnAppend DEF SaveOf
    <3> QED
      BY <1>1, <1>4, <1>6, <2>2, <3>1, BelongsKept
  <2> QED
    BY <2>1, <2>2
<1>7. Members'
  <2> SUFFICES ASSUME NEW p \in DOMAIN parties, ~Dying(p)
               PROVE  Listing(p)' /\ Once(parties[p].members)'
    BY <1>1, <1>5 DEF Members
  <2>1. Listing(p) /\ Once(parties[p].members)
    BY DEF IInv, Members
  <2>2. \A i \in DOMAIN parties[p].members : parties[p].members[i].who \in Character
    BY <1>2, PartyType
  <2> QED
    BY <1>1, <1>6, <2>1, <2>2 DEF Listing
<1>8. Leaders' /\ Destroyers'
  BY <1>1, <1>4 DEF IInv, Leaders, Listed, Destroyers
<1> QED
  BY <1>3, <1>7, <1>8 DEF IInv

-----------------------------------------------------------------------------
(* The worker of the database, and a restart *)

LEMMA WorkerRow ==
    ASSUME TypeOK, WorkerThread
    PROVE  /\ queue # <<>> /\ queue' = Tail(queue) /\ queue[1] \in Operation
           /\ charRow' \in [Character -> 0 .. MaxParty]
           /\ UNCHANGED memory
           /\ \/ queue[1].op = "save" /\ partyRow' = partyRow
              \/ queue[1].op = "add" /\ InsertFails(queue[1]) /\ partyRow' = partyRow
              \/ /\ queue[1].op = "add" /\ ~InsertFails(queue[1])
                 /\ queue[1].party \in PartyID /\ queue[1].who \in Character
                 /\ DOMAIN partyRow' = DOMAIN partyRow \cup {queue[1].party}
                 /\ partyRow'[queue[1].party] = queue[1].who
                 /\ \A p \in DOMAIN partyRow : p # queue[1].party => partyRow'[p] = partyRow[p]
              \/ /\ queue[1].op = "del" /\ queue[1].party \in PartyID
                 /\ queue[1] = [op |-> "del", party |-> queue[1].party]
                 /\ DOMAIN partyRow' = DOMAIN partyRow \ {queue[1].party}
                 /\ \A p \in DOMAIN partyRow' : partyRow'[p] = partyRow[p]
<1>1. queue # <<>> /\ queue' = Tail(queue) /\ Head(queue) = queue[1]
      /\ queue[1] \in Operation /\ UNCHANGED memory
  BY DEF WorkerThread, TypeOK
<1>2. PICK o : o = queue[1]
  OBVIOUS
<1>3. \/ o.op = "save" /\ o.who \in Character /\ o.party \in 0 .. MaxParty
      \/ o.op = "add" /\ o.who \in Character /\ o.party \in PartyID
      \/ o.op = "del" /\ o.party \in PartyID /\ o = [op |-> "del", party |-> o.party]
  BY <1>1, <1>2 DEF Operation
<1>4. /\ charRow' = IF o.op = "save" THEN [charRow EXCEPT ![o.who] = o.party] ELSE charRow
      /\ partyRow' = CASE o.op = "add" /\ ~InsertFails(o) ->
                               [p \in DOMAIN partyRow \cup {o.party} |->
                                   IF p = o.party THEN o.who ELSE partyRow[p]]
                       [] o.op = "del" -> Restrict(partyRow, DOMAIN partyRow \ {o.party})
                       [] OTHER -> partyRow
  BY <1>1, <1>2 DEF WorkerThread
<1>5. charRow' \in [Character -> 0 .. MaxParty]
  BY <1>3, <1>4 DEF TypeOK
<1>6. CASE o.op = "save" \/ (o.op = "add" /\ InsertFails(o))
  BY <1>1, <1>2, <1>4, <1>5, <1>6
<1>7. CASE o.op = "add" /\ ~InsertFails(o)
  <2>1. partyRow' = [p \in DOMAIN partyRow \cup {o.party} |->
                        IF p = o.party THEN o.who ELSE partyRow[p]]
    BY <1>4, <1>7
  <2>2. DOMAIN partyRow' = DOMAIN partyRow \cup {o.party}
        /\ partyRow'[o.party] = o.who
        /\ \A p \in DOMAIN partyRow : p # o.party => partyRow'[p] = partyRow[p]
    BY <2>1
  <2> QED
    BY <1>1, <1>2, <1>3, <1>5, <1>7, <2>2
<1>8. CASE o.op = "del"
  <2>1. partyRow' = [p \in DOMAIN partyRow \ {o.party} |-> partyRow[p]]
    BY <1>4, <1>8 DEF Restrict
  <2> QED
    BY <1>1, <1>2, <1>3, <1>5, <1>8, <2>1
<1> QED
  BY <1>3, <1>6, <1>7, <1>8

LEMMA Worker_IInv ==
    ASSUME IInv, WorkerThread, UNCHANGED crashed
    PROVE  IInv'
<1>1. TypeOK /\ UNCHANGED memory
  BY WorkerRow DEF IInv
<1>2. UNCHANGED <<parties, maxPartyID, at, field, dying>>
  BY <1>1 DEF memory
<1>3. TypeOK'
  <2>1. queue' \in Seq(Operation)
    <3>1. queue \in Seq(Operation) /\ queue # <<>> /\ queue' = Tail(queue)
      BY <1>1, WorkerRow DEF TypeOK
    <3> QED
      BY <3>1
  <2>2. DOMAIN partyRow' \subseteq PartyID /\ \A p \in DOMAIN partyRow' : partyRow'[p] \in Character
    BY <1>1, WorkerRow DEF TypeOK
  <2> QED
    BY <1>1, <1>2, <2>1, <2>2, WorkerRow DEF TypeOK
<1>4. \A p : Dying(p) => Dying(p)'
  BY <1>2 DEF Dying
<1>5. Members'
  <2> SUFFICES ASSUME NEW p \in DOMAIN parties, ~Dying(p)
               PROVE  Listing(p)' /\ Once(parties[p].members)'
    BY <1>2, <1>4 DEF Members
  <2>1. \A d \in Character : Column(d, p) => Column(d, p)'
    BY <1>1, ColumnWorker
  <2> QED
    BY <1>1, <1>2, <2>1, ListKept DEF IInv
<1>6. Leaders' /\ Destroyers'
  BY <1>2 DEF IInv, Leaders, Listed, Destroyers
<1> QED
  BY <1>3, <1>5, <1>6 DEF IInv

(* A party read from the tables has exactly the characters whose row names  *)
(* it, each once and offline.                                               *)
LEMMA LoadedParty ==
    ASSUME TypeOK, NEW p \in DOMAIN partyRow
    PROVE  /\ LoadPartyInfo(p) \in Party
           /\ LoadPartyInfo(p).leader =
                  IF charRow[partyRow[p]] = p THEN partyRow[p] ELSE Nobody
           /\ \A i \in DOMAIN LoadPartyInfo(p).members :
                  /\ LoadPartyInfo(p).members[i].who \in Character
                  /\ charRow[LoadPartyInfo(p).members[i].who] = p
                  /\ ~LoadPartyInfo(p).members[i].online
           /\ Once(LoadPartyInfo(p).members)
           /\ \A c \in Character : charRow[c] = p =>
                  \E i \in DOMAIN LoadPartyInfo(p).members : LoadPartyInfo(p).members[i].who = c
<1>0. PICK L : L = {c \in Character : charRow[c] = p}
  OBVIOUS
<1> DEFINE g == [c \in L |-> [who |-> c, online |-> FALSE]]
<1>1. PICK T : T = {[who |-> c, online |-> FALSE] : c \in L}
  OBVIOUS
<1>2. IsFiniteSet(L)
  BY <1>0, CharacterAssumption, FS_Subset
<1>3. g \in Surjection(L, T)
  BY <1>1 DEF Surjection
<1>4. IsFiniteSet(T)
  BY <1>2, <1>3, FS_Surjection
<1>5. PICK m : m = SetToSeq(T)
  OBVIOUS
<1>6. /\ m \in Seq(T)
      /\ \A i, j \in DOMAIN m : m[i] = m[j] => i = j
      /\ \A x \in T : \E i \in DOMAIN m : m[i] = x
  BY <1>4, <1>5, ListOfSet
<1>7. T \subseteq Tag /\ \A t \in T : /\ t.who \in L /\ ~t.online
                                     /\ t = [who |-> t.who, online |-> FALSE]
  <2> SUFFICES ASSUME NEW t \in T
               PROVE  /\ t \in Tag /\ t.who \in L /\ ~t.online
                      /\ t = [who |-> t.who, online |-> FALSE]
    OBVIOUS
  <2>1. PICK c \in L : t = [who |-> c, online |-> FALSE]
    BY <1>1
  <2>2. c \in Character
    BY <1>0
  <2> QED
    BY <2>1, <2>2 DEF Tag
<1>8. m \in Seq(Tag)
  BY <1>6, <1>7
<1>9. \A i \in DOMAIN m : m[i] \in T
  BY <1>6
<1>10. Once(m)
  <2> SUFFICES ASSUME NEW i \in DOMAIN m, NEW j \in DOMAIN m, m[i].who = m[j].who
               PROVE  i = j
    BY DEF Once
  <2>1. m[i] = [who |-> m[i].who, online |-> FALSE] /\ m[j] = [who |-> m[j].who, online |-> FALSE]
    BY <1>7, <1>9
  <2> QED
    BY <1>6, <2>1
<1>11. \A c \in L : \E i \in DOMAIN m : m[i].who = c
  <2> SUFFICES ASSUME NEW c \in L
               PROVE  \E i \in DOMAIN m : m[i].who = c
    OBVIOUS
  <2>1. [who |-> c, online |-> FALSE] \in T
    BY <1>1
  <2>2. PICK i \in DOMAIN m : m[i] = [who |-> c, online |-> FALSE]
    BY <1>6, <2>1
  <2> QED
    BY <2>2
<1>12. partyRow[p] \in Character
  BY DEF TypeOK
<1>13. PICK l : l = IF charRow[partyRow[p]] = p THEN partyRow[p] ELSE Nobody
  OBVIOUS
<1>14. l = IF partyRow[p] \in L THEN partyRow[p] ELSE Nobody
  BY <1>0, <1>12, <1>13
<1>15. LoadPartyInfo(p) = [leader |-> l, members |-> m]
  BY <1>0, <1>1, <1>5, <1>14, Zenon DEF LoadPartyInfo
<1>16. LoadPartyInfo(p).members = m /\ LoadPartyInfo(p).leader = l
  BY <1>15
<1>17. LoadPartyInfo(p) \in Party
  BY <1>8, <1>12, <1>13, <1>15 DEF Party
<1>18. \A i \in DOMAIN m : m[i].who \in Character /\ charRow[m[i].who] = p /\ ~m[i].online
  BY <1>0, <1>7, <1>9
<1>19. \A c \in Character : charRow[c] = p => \E i \in DOMAIN m : m[i].who = c
  BY <1>0, <1>11
<1> HIDE DEF g
<1> QED
  BY ONLY <1>10, <1>13, <1>16, <1>17, <1>18, <1>19

LEMMA Restart_IInv ==
    ASSUME IInv, Restart,
           ~crashed' => \A p \in DOMAIN partyRow : charRow[partyRow[p]] = p
    PROVE  IInv'
<1>1. /\ parties' = [p \in DOMAIN partyRow |-> LoadPartyInfo(p)]
      /\ maxPartyID' = MaxSid
      /\ at' = [c \in Character |-> "off"]
      /\ field' = [c \in Character |-> 0] /\ dying' = [c \in Character |-> 0]
      /\ queue' = <<>> /\ partyRow' = partyRow /\ charRow' = charRow
  BY DEF Restart
<1>2. TypeOK /\ crashed' \in BOOLEAN
  BY DEF IInv, TypeOK, Restart
<1>3. DOMAIN partyRow \subseteq 1 .. MaxParty /\ MaxParty \in Nat
  BY <1>2, BoundAssumption DEF TypeOK, PartyID
<1>4. MaxSid \in 0 .. MaxParty /\ DOMAIN partyRow \subseteq 1 .. MaxSid
  <2> DEFINE S == DOMAIN partyRow \cup {0}
  <2>1. S \in SUBSET (0 .. MaxParty) /\ S # {}
    BY <1>3
  <2> HIDE DEF S
  <2>2. Max(S) \in S /\ \A y \in S : y <= Max(S)
    BY <1>3, <2>1, MaxOf
  <2>3. Max(S) \in 0 .. MaxParty
    BY <2>1, <2>2
  <2>4. ASSUME NEW y \in DOMAIN partyRow PROVE y \in 1 .. Max(S)
    <3>1. y <= Max(S)
      BY <2>2 DEF S
    <3> QED
      BY <1>3, <2>3, <3>1
  <2> QED
    BY <2>3, <2>4 DEF MaxSid, S
<1>5. \A p \in DOMAIN partyRow : parties'[p] = LoadPartyInfo(p)
  BY <1>1
<1>6. TypeOK'
  BY <1>1, <1>2, <1>4, <1>5, LoadedParty, BoundAssumption DEF TypeOK, Place
<1>7. Leaders'
  <2> SUFFICES ASSUME NEW p \in DOMAIN partyRow
               PROVE  IF parties'[p].leader = Nobody THEN crashed'
                      ELSE parties'[p].leader \in Listed(p)'
    BY <1>1 DEF Leaders
  <2>1. partyRow[p] \in Character
    BY <1>2 DEF TypeOK
  <2>2. CASE charRow[partyRow[p]] = p
    BY <1>2, <1>5, <2>1, <2>2, LoadedParty, NobodyAssumption DEF Listed
  <2>3. CASE charRow[partyRow[p]] # p
    BY <1>2, <1>5, <2>3, LoadedParty
  <2> QED
    BY <2>2, <2>3
<1>8. Members'
  <2> SUFFICES ASSUME NEW p \in DOMAIN partyRow
               PROVE  Listing(p)' /\ Once(parties[p].members)'
    BY <1>1 DEF Members
  <2>1. Once(parties[p].members)'
    BY <1>2, <1>5, LoadedParty
  <2>2. ASSUME NEW i \in DOMAIN parties'[p].members
        PROVE  /\ Belongs(parties[p].members[i].who, p)'
               /\ parties'[p].members[i].online <=> Present(parties[p].members[i].who)'
    <3>1. PICK d : d = parties'[p].members[i].who
      OBVIOUS
    <3>2. d \in Character /\ charRow[d] = p /\ ~parties'[p].members[i].online
      BY <1>2, <1>5, <3>1, LoadedParty
    <3>3. Belongs(d, p)' /\ ~Present(d)'
      BY <1>1, <3>2 DEF Belongs, Present, Column, SavesApplied
    <3> QED
      BY <3>1, <3>2, <3>3
  <2> QED
    BY <2>1, <2>2 DEF Listing
<1>9. Destroyers'
  BY <1>1 DEF Destroyers
<1> QED
  BY <1>6, <1>7, <1>8, <1>9 DEF IInv

LEMMA Init_IInv == Init => IInv
<1> SUFFICES ASSUME Init
             PROVE  IInv
  OBVIOUS
<1>1. DOMAIN parties = {} /\ DOMAIN partyRow = {} /\ queue \in Seq(Operation)
  BY DEF Init
<1>2. TypeOK
  <2>1. /\ at \in [Character -> Place] /\ field \in [Character -> 0 .. MaxParty]
        /\ dying \in [Character -> 0 .. MaxParty] /\ charRow \in [Character -> 0 .. MaxParty]
    BY BoundAssumption DEF Init, Place
  <2>2. maxPartyID \in 0 .. MaxParty
    BY BoundAssumption DEF Init
  <2>3. crashed \in BOOLEAN
    BY Zenon DEF Init
  <2> QED
    BY <1>1, <2>1, <2>2, <2>3 DEF TypeOK
<1>3. Leaders /\ Members /\ Destroyers
  BY <1>1 DEF Init, Leaders, Members, Destroyers
<1> QED
  BY <1>2, <1>3 DEF IInv

-----------------------------------------------------------------------------
(* Until a first crash every command keeps the tables and the map together *)

LEMMA AppendIs ==
    ASSUME queue \in Seq(Operation), NEW o \in Operation, queue' = Append(queue, o)
    PROVE  /\ Len(queue) \in Nat
           /\ DOMAIN queue = 1 .. Len(queue) /\ DOMAIN queue' = 1 .. Len(queue) + 1
           /\ \A i \in DOMAIN queue : i \in DOMAIN queue' /\ queue'[i] = queue[i]
                                      /\ i < Len(queue) + 1
           /\ queue'[Len(queue) + 1] = o /\ Len(queue) + 1 \in DOMAIN queue'
           /\ \A i \in DOMAIN queue' : i \in DOMAIN queue \/ i = Len(queue) + 1
           /\ \A p, i : Deleted(p, i) => Deleted(p, i)'
           /\ \A p, i : Deleted(p, i)' =>
                  Deleted(p, i) \/ (Len(queue) + 1 > i /\ o = [op |-> "del", party |-> p])
<1>1. /\ Len(queue) \in Nat
      /\ DOMAIN queue = 1 .. Len(queue) /\ DOMAIN queue' = 1 .. Len(queue) + 1
      /\ \A i \in DOMAIN queue : i \in DOMAIN queue' /\ queue'[i] = queue[i]
                                 /\ i < Len(queue) + 1
      /\ queue'[Len(queue) + 1] = o /\ Len(queue) + 1 \in DOMAIN queue'
      /\ \A i \in DOMAIN queue' : i \in DOMAIN queue \/ i = Len(queue) + 1
  OBVIOUS
<1> QED
  BY <1>1 DEF Deleted

LEMMA Same_Stored ==
    ASSUME Stored, UNCHANGED <<maxPartyID, partyRow, queue>>,
           DOMAIN parties' = DOMAIN parties,
           \A p \in DOMAIN parties : parties'[p].leader = parties[p].leader,
           \A p : Dying(p)' <=> Dying(p)
    PROVE  Stored'
<1>1. \A p, i : Deleted(p, i)' <=> Deleted(p, i)
  BY DEF Deleted
<1>2. \A p, c, i : Owned(p, c, i) => Owned(p, c, i)'
  BY <1>1 DEF Owned
<1>3. Rows' /\ Inserts'
  BY <1>2 DEF Stored, Rows, Inserts
<1>4. Successive'
  BY DEF Stored, Successive
<1>5. Written' /\ Deletions'
  BY <1>1 DEF Stored, Written, Deletions
<1> QED
  BY <1>3, <1>4, <1>5 DEF Stored

(* An operation that is no insert joins the queue. *)
LEMMA Queued_Stored ==
    ASSUME TypeOK, Stored, UNCHANGED <<parties, maxPartyID, partyRow>>,
           NEW o \in Operation, queue' = Append(queue, o), o.op # "add",
           o.op = "del" => o.party <= maxPartyID,
           \A p \in DOMAIN parties : o = [op |-> "del", party |-> p] => Dying(p)',
           \A p : Dying(p)' => Dying(p) \/ o = [op |-> "del", party |-> p],
           \A p : Dying(p) => Dying(p)'
    PROVE  Stored'
<1>1. queue \in Seq(Operation)
  BY DEF TypeOK
<1> DEFINE n == Len(queue) + 1
<1>2. /\ \A i \in DOMAIN queue : i \in DOMAIN queue' /\ queue'[i] = queue[i] /\ i < n
      /\ \A i \in DOMAIN queue' : i \in DOMAIN queue \/ i = n
      /\ queue'[n] = o /\ n \in DOMAIN queue' /\ 0 < n
      /\ \A p, i : Deleted(p, i) => Deleted(p, i)'
      /\ \A p, i : Deleted(p, i)' => Deleted(p, i) \/ o = [op |-> "del", party |-> p]
  BY <1>1, AppendIs
<1> HIDE DEF n
<1>3. ASSUME NEW p, NEW c, NEW i, i = 0 \/ i \in DOMAIN queue, Owned(p, c, i)
      PROVE  Owned(p, c, i)'
  <2>1. CASE o = [op |-> "del", party |-> p]
    <3>1. i < n
      BY <1>2, <1>3
    <3>2. n > i
      BY <1>1, <1>3, <3>1 DEF n
    <3> QED
      BY <1>2, <2>1, <3>2 DEF Owned, Deleted
  <2>2. CASE o # [op |-> "del", party |-> p]
    BY <1>2, <1>3, <2>2 DEF Owned
  <2> QED
    BY <2>1, <2>2
<1>4. Rows'
  BY <1>3 DEF Stored, Rows
<1>5. Inserts'
  BY <1>2, <1>3 DEF Stored, Inserts
<1>6. Successive'
  BY <1>2 DEF Stored, Successive
<1>7. Written' /\ Deletions'
  BY <1>2 DEF Stored, Written, Deletions
<1> QED
  BY <1>4, <1>5, <1>6, <1>7 DEF Stored

LEMMA Create_Stored ==
    ASSUME IInv, Stored, NEW c \in Character, CreateParty(c)
    PROVE  Stored'
<1>0. PICK n, o, k : n = maxPartyID + 1 /\ o = [op |-> "add", who |-> c, party |-> n]
                     /\ k = Len(queue) + 1
  OBVIOUS
<1>1. /\ at[c] = "in" /\ field[c] = 0 /\ n \in PartyID
      /\ maxPartyID' = n /\ at' = at /\ dying' = dying
      /\ queue' = Append(queue, o) /\ partyRow' = partyRow
      /\ DOMAIN parties' = DOMAIN parties \cup {n}
      /\ parties'[n].leader = c
      /\ \A p \in DOMAIN parties : p # n => parties'[p] = parties[p]
  BY <1>0 DEF CreateParty, AddGroupToDatabase, Enqueue
<1>2. TypeOK /\ queue \in Seq(Operation) /\ o \in Operation /\ maxPartyID \in Nat
  BY <1>0, <1>1, BoundAssumption DEF IInv, TypeOK, Operation
<1>3. \A p \in DOMAIN parties : p \in Nat \ {0} /\ p # n
  BY <1>0, <1>2, PartyType
<1>4. /\ \A i \in DOMAIN queue : i \in DOMAIN queue' /\ queue'[i] = queue[i] /\ i < k
      /\ \A i \in DOMAIN queue' : i \in DOMAIN queue \/ i = k
      /\ queue'[k] = o /\ k \in DOMAIN queue' /\ k \notin DOMAIN queue
      /\ DOMAIN queue \subseteq Nat \ {0}
      /\ \A p, i : Deleted(p, i)' <=> Deleted(p, i)
  <2>1. \A p : o # [op |-> "del", party |-> p]
    BY <1>0
  <2>2. o.op = "add"
    BY <1>0
  <2> QED
    BY <1>0, <1>1, <1>2, <2>1, AppendIs
<1>5. \A p : Dying(p)' <=> Dying(p)
  BY <1>1 DEF Dying
<1>6. \A p, d, i : Owned(p, d, i) => Owned(p, d, i)'
  BY <1>1, <1>3, <1>4, <1>5 DEF Owned
<1>7. ~Dying(n)
  BY <1>3 DEF IInv, Destroyers, Dying
<1>8. ASSUME NEW p \in DOMAIN parties, parties[p].leader = c, ~Dying(p)
      PROVE  FALSE
  <2>1. c \in Listed(p) /\ Listing(p)
    BY <1>8, NobodyAssumption DEF IInv, Leaders, Members
  <2>2. Belongs(c, p)
    BY <2>1 DEF Listed, Listing
  <2> QED
    BY <1>1, <1>3, <2>2 DEF Belongs
<1>9. Rows'
  <2>1. \A p \in DOMAIN partyRow : p <= maxPartyID /\ p \in Nat
    BY <1>2, BoundAssumption DEF TypeOK, Stored, Rows, PartyID
  <2> QED
    BY <1>0, <1>1, <1>2, <1>6, <2>1 DEF Stored, Rows
<1>10. \A i \in DOMAIN queue : queue[i].op = "add" =>
           queue[i].party <= n /\ queue[i].party # n
  <2> SUFFICES ASSUME NEW i \in DOMAIN queue, queue[i].op = "add"
               PROVE  queue[i].party <= n /\ queue[i].party # n
    OBVIOUS
  <2>1. queue[i].party \in PartyID /\ queue[i].party <= maxPartyID
    BY <1>2 DEF Stored, Inserts, Operation
  <2> QED
    BY <1>0, <1>2, <2>1, BoundAssumption DEF PartyID
<1>11. n \notin DOMAIN partyRow
  BY <1>0, <1>2 DEF Stored, Rows
<1>12. Inserts'
  <2>1. o.op = "add" /\ o.party = n /\ o.who = c
    BY <1>0
  <2>2. Owned(n, c, k)'
    BY <1>1, <1>5, <1>7 DEF Owned
  <2>3. ASSUME NEW i \in DOMAIN queue, queue[i].op = "add"
        PROVE  /\ queue[i].party <= n
               /\ Owned(queue[i].party, queue[i].who, i)'
               /\ queue[i].party \notin DOMAIN partyRow
               /\ queue[i].party # n
               /\ \A j \in DOMAIN queue :
                      queue[j].op = "add" /\ queue[j].party = queue[i].party => j = i
    BY <1>4, <1>6, <1>10, <2>3 DEF Stored, Inserts
  <2> QED
    BY <1>1, <1>4, <1>11, <2>1, <2>2, <2>3, BoundAssumption DEF Inserts, PartyID
<1>13. Successive'
  <2>1. o.op = "add" /\ o.party = n /\ o.who = c
    BY <1>0
  <2>2. ASSUME NEW i \in DOMAIN queue, queue[i].op = "add"
        PROVE  /\ \A q \in DOMAIN partyRow : partyRow[q] = queue[i].who =>
                      \E j \in DOMAIN queue : j < i /\ queue[j] = [op |-> "del", party |-> q]
               /\ \A m \in DOMAIN queue :
                      m < i /\ queue[m].op = "add" /\ queue[m].who = queue[i].who =>
                          \E j \in DOMAIN queue :
                              m < j /\ j < i /\ queue[j] = [op |-> "del", party |-> queue[m].party]
    BY <2>2 DEF Stored, Successive
  <2>3. ASSUME NEW q \in DOMAIN partyRow, partyRow[q] = c
        PROVE  \E j \in DOMAIN queue : queue[j] = [op |-> "del", party |-> q]
    BY <1>8, <2>3 DEF Stored, Rows, Owned, Deleted
  <2>4. ASSUME NEW m \in DOMAIN queue, queue[m].op = "add", queue[m].who = c
        PROVE  \E j \in DOMAIN queue : m < j /\ queue[j] = [op |-> "del", party |-> queue[m].party]
    <3>1. Deleted(queue[m].party, m)
      BY <1>8, <2>4 DEF Stored, Inserts, Owned
    <3> QED
      BY <1>4, <3>1 DEF Deleted
  <2>5. ASSUME NEW i \in DOMAIN queue, queue[i].op = "add"
        PROVE  /\ \A q \in DOMAIN partyRow' : partyRow'[q] = queue'[i].who =>
                      \E j \in DOMAIN queue' : j < i /\ queue'[j] = [op |-> "del", party |-> q]
               /\ \A m \in DOMAIN queue' :
                      m < i /\ queue'[m].op = "add" /\ queue'[m].who = queue'[i].who =>
                          \E j \in DOMAIN queue' :
                              m < j /\ j < i
                                  /\ queue'[j] = [op |-> "del", party |-> queue'[m].party]
    <3>1. ASSUME NEW m \in DOMAIN queue', m < i PROVE m \in DOMAIN queue
      <4>1. i < k /\ i \in Nat /\ k \in Nat
        BY <1>0, <1>2, <1>4
      <4> QED
        BY <1>4, <3>1, <4>1
    <3> QED
      BY <1>1, <1>4, <2>2, <2>5, <3>1
  <2>6. /\ \A q \in DOMAIN partyRow' : partyRow'[q] = queue'[k].who =>
               \E j \in DOMAIN queue' : j < k /\ queue'[j] = [op |-> "del", party |-> q]
        /\ \A m \in DOMAIN queue' :
               m < k /\ queue'[m].op = "add" /\ queue'[m].who = queue'[k].who =>
                   \E j \in DOMAIN queue' :
                       m < j /\ j < k /\ queue'[j] = [op |-> "del", party |-> queue'[m].party]
    <3>1. ASSUME NEW m \in DOMAIN queue', m < k PROVE m \in DOMAIN queue
      BY <1>0, <1>2, <1>4, <3>1
    <3> QED
      BY <1>1, <1>4, <2>1, <2>3, <2>4, <3>1
  <2> QED
    BY <1>4, <2>5, <2>6 DEF Successive
<1>14. Written'
  <2>1. ~Deleted(n, 0)
    <3>1. ASSUME NEW j \in DOMAIN queue, queue[j] = [op |-> "del", party |-> n]
          PROVE  FALSE
      <4>1. n <= maxPartyID
        BY <3>1 DEF Stored, Deletions
      <4> QED
        BY <1>0, <1>2, <4>1
    <3> QED
      BY <3>1 DEF Deleted
  <2> QED
    BY <1>0, <1>1, <1>3, <1>4, <1>5, <2>1 DEF Stored, Written
<1>15. Deletions'
  <2>1. ASSUME NEW i \in DOMAIN queue, queue[i].op = "del"
        PROVE  queue[i].party <= n
    <3>1. queue[i].party \in PartyID /\ queue[i].party <= maxPartyID
      BY <1>2, <2>1 DEF Stored, Deletions, Operation
    <3> QED
      BY <1>0, <1>2, <3>1, BoundAssumption DEF PartyID
  <2> QED
    BY <1>0, <1>1, <1>4, <2>1 DEF Deletions
<1> QED
  BY <1>9, <1>12, <1>13, <1>14, <1>15 DEF Stored

LEMMA Destroy_Stored ==
    ASSUME IInv, Stored, NEW c \in Character, DestroyParty(c)
    PROVE  Stored'
<1>0. PICK n, o : n = field[c] /\ o = [op |-> "del", party |-> n]
  OBVIOUS
<1>1. /\ at[c] = "in" /\ n \in DOMAIN parties
      /\ dying' = [dying EXCEPT ![c] = n]
      /\ at' = [at EXCEPT ![c] = "destroying"]
      /\ queue' = Append(queue, o)
      /\ UNCHANGED <<parties, maxPartyID, partyRow>>
  BY <1>0 DEF DestroyParty, Enqueue
<1>2. TypeOK /\ n <= maxPartyID /\ o \in Operation
  <2>1. n \in Nat \ {0} /\ n <= maxPartyID /\ maxPartyID \in 0 .. MaxParty
    BY <1>1, PartyType DEF IInv, TypeOK
  <2> QED
    BY <1>0, <2>1, BoundAssumption DEF IInv, Operation, PartyID
<1>3. /\ at'[c] = "destroying" /\ dying'[c] = n
      /\ \A d \in Character : d # c => at'[d] = at[d] /\ dying'[d] = dying[d]
  BY <1>1, <1>2 DEF TypeOK
<1>4. /\ Dying(n)' /\ \A p : Dying(p) => Dying(p)'
      /\ \A p : Dying(p)' => Dying(p) \/ p = n
  BY <1>1, <1>3 DEF Dying
<1>5. o.op = "del" /\ o.party = n /\ \A p : o = [op |-> "del", party |-> p] <=> p = n
  BY <1>0
<1> QED
  BY <1>1, <1>2, <1>4, <1>5, Queued_Stored DEF IInv

LEMMA FinishDestroy_Stored ==
    ASSUME IInv, Stored, NEW c \in Character, FinishDestroy(c)
    PROVE  Stored'
<1>0. PICK n : n = dying[c]
  OBVIOUS
<1>1. /\ at[c] = "destroying"
      /\ dying' = [dying EXCEPT ![c] = 0] /\ at' = [at EXCEPT ![c] = "in"]
      /\ UNCHANGED <<maxPartyID, partyRow, queue>>
      /\ DOMAIN parties' = DOMAIN parties \ {n}
      /\ \A p \in DOMAIN parties' : parties'[p] = parties[p]
  BY <1>0 DEF FinishDestroy, database
<1>2. /\ at'[c] = "in"
      /\ \A d \in Character : d # c => at'[d] = at[d] /\ dying'[d] = dying[d]
  BY <1>1 DEF IInv, TypeOK
<1>3. Dying(n) /\ (\A p : Dying(p)' => Dying(p))
      /\ \A p \in DOMAIN parties' : Dying(p) => Dying(p)'
  BY <1>0, <1>1, <1>2 DEF Dying
<1>4. \A p, i : Deleted(p, i)' <=> Deleted(p, i)
  BY <1>1 DEF Deleted
<1>5. \A p, d, i : Owned(p, d, i) => Owned(p, d, i)'
  BY <1>1, <1>3, <1>4 DEF Owned
<1>6. Rows' /\ Inserts'
  BY <1>1, <1>5 DEF Stored, Rows, Inserts
<1>7. Successive' /\ Deletions'
  BY <1>1 DEF Stored, Successive, Deletions
<1>8. Written'
  BY <1>1, <1>3, <1>4 DEF Stored, Written
<1> QED
  BY <1>6, <1>7, <1>8 DEF Stored

(* The worker's insert finds neither the id nor the leader in the table. *)
LEMMA Worker_Stored ==
    ASSUME IInv, Stored, WorkerThread
    PROVE  Stored'
<1>0. PICK o : o = queue[1]
  OBVIOUS
<1>1. TypeOK /\ UNCHANGED <<parties, maxPartyID, at, field, dying>>
  BY WorkerRow DEF IInv, memory
<1>2. /\ DOMAIN queue = 1 .. Len(queue) /\ Len(queue) \in Nat \ {0}
      /\ DOMAIN queue' = 1 .. Len(queue) - 1
      /\ \A i \in DOMAIN queue' : queue'[i] = queue[i + 1] /\ i + 1 \in DOMAIN queue /\ i + 1 > 1
      /\ \A i \in DOMAIN queue : i # 1 => i - 1 \in DOMAIN queue' /\ queue'[i - 1] = queue[i]
      /\ 1 \in DOMAIN queue
  <2>1. queue \in Seq(Operation) /\ queue # <<>> /\ queue' = Tail(queue)
    BY <1>1, WorkerRow DEF TypeOK
  <2> QED
    BY <2>1
<1>3. \A p : Dying(p)' <=> Dying(p)
  BY <1>1 DEF Dying
<1>4. ASSUME NEW p, NEW i \in DOMAIN queue'
      PROVE  Deleted(p, i)' <=> Deleted(p, i + 1)
  BY <1>2 DEF Deleted
<1>5. ASSUME NEW p
      PROVE  Deleted(p, 0)' <=> Deleted(p, 1)
  BY <1>2 DEF Deleted
<1>6. ASSUME NEW p
      PROVE  /\ Deleted(p, 1) => Deleted(p, 0)
             /\ o = [op |-> "del", party |-> p] => Deleted(p, 0)
             /\ Deleted(p, 0) => (Deleted(p, 1) \/ o = [op |-> "del", party |-> p])
  <2>1. ASSUME NEW j \in DOMAIN queue
        PROVE  j > 0 /\ (j > 1 \/ j = 1)
    BY <1>2
  <2>2. ASSUME NEW j \in DOMAIN queue, queue[j] = [op |-> "del", party |-> p]
        PROVE  Deleted(p, 0) /\ (j > 1 => Deleted(p, 1))
    BY <2>1, <2>2 DEF Deleted
  <2>3. Deleted(p, 1) => Deleted(p, 0)
    BY <2>2 DEF Deleted
  <2>4. o = [op |-> "del", party |-> p] => Deleted(p, 0)
    BY <1>0, <1>2, <2>2
  <2>5. Deleted(p, 0) => (Deleted(p, 1) \/ o = [op |-> "del", party |-> p])
    BY <1>0, <2>1, <2>2 DEF Deleted
  <2> QED
    BY <2>3, <2>4, <2>5
<1>7. o.op = "add" => ~InsertFails(o)
  <2> SUFFICES ASSUME o.op = "add" PROVE ~InsertFails(o)
    OBVIOUS
  <2>1. o.party \notin DOMAIN partyRow
    BY <1>0, <1>2 DEF Stored, Inserts
  <2>2. ASSUME NEW q \in DOMAIN partyRow, partyRow[q] = o.who
        PROVE  FALSE
    <3>1. \E j \in DOMAIN queue : j < 1
      BY <1>0, <1>2, <2>2 DEF Stored, Successive
    <3> QED
      BY <1>2, <3>1
  <2> QED
    BY <2>1, <2>2 DEF InsertFails, Range
<1>8. /\ o.op \in {"save", "add", "del"}
      /\ o.op = "save" => partyRow' = partyRow
      /\ o.op = "add" => /\ DOMAIN partyRow' = DOMAIN partyRow \cup {o.party}
                         /\ partyRow'[o.party] = o.who
                         /\ o.party \notin DOMAIN partyRow
                         /\ \A p \in DOMAIN partyRow : partyRow'[p] = partyRow[p]
      /\ o.op = "del" => /\ o = [op |-> "del", party |-> o.party]
                         /\ DOMAIN partyRow' = DOMAIN partyRow \ {o.party}
                         /\ \A p \in DOMAIN partyRow' : partyRow'[p] = partyRow[p]
  <2>1. o.op = "add" => o.party \notin DOMAIN partyRow
    BY <1>7 DEF InsertFails
  <2> QED
    BY <1>0, <1>1, <1>7, <2>1, WorkerRow
<1>9. \A p \in DOMAIN partyRow' :
          \/ /\ p \in DOMAIN partyRow /\ partyRow'[p] = partyRow[p]
             /\ o # [op |-> "del", party |-> p]
          \/ o.op = "add" /\ p = o.party /\ partyRow'[p] = o.who
  BY <1>8
<1>10. Rows'
  <2> SUFFICES ASSUME NEW p \in DOMAIN partyRow'
               PROVE  p <= maxPartyID /\ Owned(p, partyRow[p], 0)'
    BY <1>1 DEF Rows
  <2>1. CASE p \in DOMAIN partyRow /\ partyRow'[p] = partyRow[p]
             /\ o # [op |-> "del", party |-> p]
    BY <1>1, <1>3, <1>5, <1>6, <2>1 DEF Stored, Rows, Owned
  <2>2. CASE o.op = "add" /\ p = o.party /\ partyRow'[p] = o.who
    BY <1>0, <1>1, <1>2, <1>3, <1>5, <2>2 DEF Stored, Inserts, Owned
  <2> QED
    BY <1>9, <2>1, <2>2
<1>11. Inserts'
  <2> SUFFICES ASSUME NEW i \in DOMAIN queue', queue'[i].op = "add"
               PROVE  /\ queue'[i].party <= maxPartyID
                      /\ Owned(queue[i].party, queue[i].who, i)'
                      /\ queue'[i].party \notin DOMAIN partyRow'
                      /\ \A j \in DOMAIN queue' :
                             queue'[j].op = "add" /\ queue'[j].party = queue'[i].party => j = i
    BY <1>1 DEF Inserts
  <2>0. PICK a : a = queue'[i]
    OBVIOUS
  <2>1. i + 1 \in DOMAIN queue /\ i + 1 # 1 /\ queue[i + 1] = a /\ a.op = "add"
    BY <1>2, <2>0
  <2>2. /\ a.party <= maxPartyID /\ Owned(a.party, a.who, i + 1)
        /\ a.party \notin DOMAIN partyRow
        /\ \A j \in DOMAIN queue :
               queue[j].op = "add" /\ queue[j].party = a.party => j = i + 1
    BY <2>1 DEF Stored, Inserts
  <2>3. Owned(a.party, a.who, i)'
    BY <1>1, <1>3, <1>4, <2>2 DEF Owned
  <2>4. o.op = "add" => a.party # o.party
    BY <1>0, <1>2, <2>1, <2>2
  <2>5. a.party \notin DOMAIN partyRow'
    BY <1>9, <2>2, <2>4
  <2>6. \A j \in DOMAIN queue' : queue'[j].op = "add" /\ queue'[j].party = a.party => j = i
    BY <1>2, <2>2
  <2> QED
    BY <2>0, <2>2, <2>3, <2>5, <2>6
<1>12. Successive'
  <2> SUFFICES ASSUME NEW i \in DOMAIN queue', queue'[i].op = "add"
               PROVE  /\ \A q \in DOMAIN partyRow' : partyRow'[q] = queue'[i].who =>
                             \E j \in DOMAIN queue' :
                                 j < i /\ queue'[j] = [op |-> "del", party |-> q]
                      /\ \A k \in DOMAIN queue' :
                             k < i /\ queue'[k].op = "add" /\ queue'[k].who = queue'[i].who =>
                                 \E j \in DOMAIN queue' : k < j /\ j < i
                                     /\ queue'[j] = [op |-> "del", party |-> queue'[k].party]
    BY DEF Successive
  <2>0. PICK a : a = queue'[i]
    OBVIOUS
  <2>1. i + 1 \in DOMAIN queue /\ 1 < i + 1 /\ queue[i + 1] = a /\ a.op = "add"
    BY <1>2, <2>0
  <2>2. /\ \A q \in DOMAIN partyRow : partyRow[q] = a.who =>
               \E j \in DOMAIN queue : j < i + 1 /\ queue[j] = [op |-> "del", party |-> q]
        /\ \A k \in DOMAIN queue :
               k < i + 1 /\ queue[k].op = "add" /\ queue[k].who = a.who =>
                   \E j \in DOMAIN queue :
                       k < j /\ j < i + 1 /\ queue[j] = [op |-> "del", party |-> queue[k].party]
    BY <2>1 DEF Stored, Successive
  <2>3. ASSUME NEW q \in DOMAIN partyRow', partyRow'[q] = a.who
        PROVE  \E j \in DOMAIN queue' : j < i /\ queue'[j] = [op |-> "del", party |-> q]
    <3>1. PICK j \in DOMAIN queue :
              j # 1 /\ j < i + 1 /\ queue[j] = [op |-> "del", party |-> q]
      <4>1. CASE q \in DOMAIN partyRow /\ partyRow'[q] = partyRow[q]
                 /\ o # [op |-> "del", party |-> q]
        BY <1>0, <2>2, <2>3, <4>1
      <4>2. CASE o.op = "add" /\ q = o.party /\ partyRow'[q] = o.who
        <5>1. \E j \in DOMAIN queue :
                  1 < j /\ j < i + 1 /\ queue[j] = [op |-> "del", party |-> q]
          BY <1>0, <1>2, <2>1, <2>2, <2>3, <4>2
        <5> QED
          BY <5>1
      <4> QED
        BY <1>9, <4>1, <4>2
    <3>2. j - 1 \in DOMAIN queue' /\ queue'[j - 1] = queue[j] /\ j - 1 < i
      BY <1>2, <3>1
    <3> QED
      BY <3>1, <3>2
  <2>4. ASSUME NEW k \in DOMAIN queue', k < i, queue'[k].op = "add", queue'[k].who = a.who
        PROVE  \E j \in DOMAIN queue' : k < j /\ j < i
                   /\ queue'[j] = [op |-> "del", party |-> queue'[k].party]
    <3>1. k + 1 \in DOMAIN queue /\ k + 1 < i + 1 /\ queue[k + 1] = queue'[k]
      BY <1>2, <2>4
    <3>2. PICK j \in DOMAIN queue : k + 1 < j /\ j < i + 1
              /\ queue[j] = [op |-> "del", party |-> queue[k + 1].party]
      BY <2>2, <2>4, <3>1
    <3>3. j - 1 \in DOMAIN queue' /\ queue'[j - 1] = queue[j] /\ k < j - 1 /\ j - 1 < i
      BY <1>2, <3>2
    <3> QED
      BY <3>1, <3>2, <3>3
  <2> QED
    BY <2>0, <2>3, <2>4
<1>13. Written'
  <2> SUFFICES ASSUME NEW p \in DOMAIN parties, ~Dying(p)
               PROVE  /\ ~Deleted(p, 0)'
                      /\ \/ p \in DOMAIN partyRow' /\ partyRow'[p] = parties[p].leader
                         \/ \E i \in DOMAIN queue' :
                                queue'[i] = [op |-> "add", who |-> parties[p].leader, party |-> p]
    BY <1>1, <1>3 DEF Written
  <2>1. ~Deleted(p, 0)
        /\ \/ p \in DOMAIN partyRow /\ partyRow[p] = parties[p].leader
           \/ \E i \in DOMAIN queue :
                  queue[i] = [op |-> "add", who |-> parties[p].leader, party |-> p]
    BY DEF Stored, Written
  <2>2. ~Deleted(p, 0)' /\ o # [op |-> "del", party |-> p]
    BY <1>5, <1>6, <2>1
  <2>3. CASE p \in DOMAIN partyRow /\ partyRow[p] = parties[p].leader
    <3>1. p \in DOMAIN partyRow' /\ partyRow'[p] = partyRow[p]
      BY <1>8, <2>2, <2>3
    <3> QED
      BY <2>2, <2>3, <3>1
  <2>4. ASSUME NEW i \in DOMAIN queue,
               queue[i] = [op |-> "add", who |-> parties[p].leader, party |-> p]
        PROVE  \/ p \in DOMAIN partyRow' /\ partyRow'[p] = parties[p].leader
               \/ \E j \in DOMAIN queue' :
                      queue'[j] = [op |-> "add", who |-> parties[p].leader, party |-> p]
    <3>1. CASE i = 1
      <4>1. o.op = "add" /\ o.party = p /\ o.who = parties[p].leader
        BY <1>0, <2>4, <3>1
      <4> QED
        BY <1>8, <4>1
    <3>2. CASE i # 1
      <4>1. i - 1 \in DOMAIN queue' /\ queue'[i - 1] = queue[i]
        BY <1>2, <3>2
      <4> QED
        BY <2>4, <4>1
    <3> QED
      BY <3>1, <3>2
  <2> QED
    BY <2>1, <2>2, <2>3, <2>4
<1>14. Deletions'
  BY <1>1, <1>2 DEF Stored, Deletions
<1> QED
  BY <1>10, <1>11, <1>12, <1>13, <1>14 DEF Stored

(* In good order everyone is off and nothing is queued: what the map says   *)
(* the tables say.                                                          *)
LEMMA GoodOrder ==
    ASSUME IInv, Stored, InGoodOrder
    PROVE  /\ DOMAIN partyRow = DOMAIN parties
           /\ \A p \in DOMAIN parties :
                  /\ partyRow[p] = parties[p].leader
                  /\ Listed(p) \subseteq {c \in Character : charRow[c] = p}
                  /\ parties[p].leader \in Listed(p)
<1>1. TypeOK /\ queue = <<>> /\ DOMAIN queue = {} /\ \A c \in Character : at[c] = "off"
  BY DEF InGoodOrder, IInv
<1>2. \A p, i : ~Deleted(p, i)
  BY <1>1 DEF Deleted
<1>3. \A p : ~Dying(p)
  BY <1>1 DEF Dying
<1>4. \A p \in DOMAIN parties : p \in DOMAIN partyRow /\ partyRow[p] = parties[p].leader
  BY <1>1, <1>3 DEF Stored, Written
<1>5. \A p \in DOMAIN partyRow : p \in DOMAIN parties
  BY <1>2 DEF Stored, Rows, Owned
<1>6. ASSUME NEW p \in DOMAIN parties, NEW i \in DOMAIN parties[p].members
      PROVE  /\ parties[p].members[i].who \in Character
             /\ charRow[parties[p].members[i].who] = p
  <2>1. Belongs(parties[p].members[i].who, p) /\ parties[p].members[i].who \in Character
    BY <1>1, <1>3, PartyType DEF IInv, Members, Listing
  <2> QED
    BY <1>1, <2>1 DEF Belongs, Column
<1>7. ASSUME NEW p \in DOMAIN parties
      PROVE  parties[p].leader \in Listed(p)
  <2>1. partyRow[p] \in Character
    BY <1>1, <1>4 DEF TypeOK
  <2> QED
    BY <1>4, <2>1, NobodyAssumption DEF IInv, Leaders
<1> QED
  BY <1>4, <1>5, <1>6, <1>7 DEF Listed

LEMMA Restart_PInv ==
    ASSUME PInv, Restart
    PROVE  PInv'
<1>1. crashed' \/ (Stored /\ InGoodOrder /\ IInv)
  BY DEF PInv, Restart
<1>2. ASSUME Stored, InGoodOrder, IInv, NEW p \in DOMAIN partyRow
      PROVE  charRow[partyRow[p]] = p
  BY <1>2, GoodOrder
<1>3. IInv'
  BY <1>1, <1>2, Restart_IInv DEF PInv
<1>4. ASSUME Stored, InGoodOrder, IInv
      PROVE  Stored'
  <2>1. /\ parties' = [p \in DOMAIN partyRow |-> LoadPartyInfo(p)]
        /\ maxPartyID' = MaxSid /\ at' = [c \in Character |-> "off"]
        /\ queue' = <<>> /\ partyRow' = partyRow /\ DOMAIN queue' = {}
    BY DEF Restart
  <2>2. \A p \in DOMAIN partyRow : parties'[p].leader = partyRow[p]
    BY <1>2, <1>4, <2>1, LoadedParty DEF IInv
  <2>3. (\A p : ~Dying(p)') /\ (\A p, i : ~Deleted(p, i)')
    BY <2>1 DEF Dying, Deleted
  <2>4. \A p \in DOMAIN partyRow : p <= maxPartyID'
    <3>1. DOMAIN parties' = DOMAIN partyRow /\ TypeOK'
      BY <1>3, <2>1 DEF IInv
    <3> QED
      BY <3>1, BoundAssumption DEF TypeOK
  <2>5. Rows'
    BY <2>1, <2>2, <2>3, <2>4 DEF Rows, Owned
  <2>6. Inserts' /\ Successive' /\ Deletions'
    BY <2>1 DEF Inserts, Successive, Deletions
  <2>7. Written'
    BY <2>1, <2>2, <2>3 DEF Written
  <2> QED
    BY <2>5, <2>6, <2>7 DEF Stored
<1> QED
  BY <1>1, <1>3, <1>4 DEF PInv

-----------------------------------------------------------------------------
LEMMA InitPInv == Init => PInv
<1> SUFFICES ASSUME Init
             PROVE  PInv
  OBVIOUS
<1>1. DOMAIN parties = {} /\ DOMAIN partyRow = {} /\ DOMAIN queue = {}
  BY DEF Init
<1>2. Stored
  BY <1>1 DEF Stored, Rows, Inserts, Successive, Written, Deletions
<1> QED
  BY <1>2, Init_IInv DEF PInv

LEMMA Command_IInv ==
    ASSUME Patient, IInv, NEW c \in Character, Command(c), UNCHANGED crashed
    PROVE  IInv'
BY Create_IInv, Join_IInv, Leave_IInv, FinishLeave_IInv, Destroy_IInv, FinishDestroy_IInv,
   ReadCharacter_IInv, OnLogin_IInv, Saves_IInv, Cleanups_IInv DEF Command

LEMMA Command_Stored ==
    ASSUME IInv, Stored, NEW c \in Character, Command(c)
    PROVE  Stored'
<1>1. TypeOK
  BY DEF IInv
<1>2. CASE CreateParty(c) \/ DestroyParty(c) \/ FinishDestroy(c)
  BY <1>2, Create_Stored, Destroy_Stored, FinishDestroy_Stored
<1>3. CASE JoinParty(c)
  <2>1. PICK n \in DOMAIN parties :
            parties' = [parties EXCEPT ![n].members = Append(@, [who |-> c, online |-> TRUE])]
    BY <1>3 DEF JoinParty
  <2>2. DOMAIN parties' = DOMAIN parties
        /\ \A p \in DOMAIN parties : parties'[p].leader = parties[p].leader
    BY <1>1, <2>1 DEF TypeOK, Party
  <2>3. UNCHANGED <<maxPartyID, partyRow, queue, at, dying>>
    BY <1>3 DEF JoinParty, database
  <2> QED
    BY <2>2, <2>3, Same_Stored DEF Dying
<1>4. CASE LeaveParty(c)
  <2>1. field[c] \in DOMAIN parties /\ at[c] = "in"
        /\ parties' = [parties EXCEPT ![field[c]].members = Without(@, c)]
        /\ at' = [at EXCEPT ![c] = "leaving"]
        /\ UNCHANGED <<maxPartyID, partyRow, queue, dying>>
    BY <1>4 DEF LeaveParty, CanLeave, database
  <2>2. DOMAIN parties' = DOMAIN parties
        /\ \A p \in DOMAIN parties : parties'[p].leader = parties[p].leader
    BY <1>1, <2>1 DEF TypeOK, Party
  <2>3. \A d \in Character : at'[d] = "destroying" <=> at[d] = "destroying"
    BY <1>1, <2>1 DEF TypeOK
  <2> QED
    BY <2>1, <2>2, <2>3, Same_Stored DEF Dying
<1>5. CASE FinishLeave(c) \/ ReadCharacter(c)
  <2>1. at[c] # "destroying" /\ at' \in {[at EXCEPT ![c] = "in"], [at EXCEPT ![c] = "reading"]}
        /\ UNCHANGED <<parties, maxPartyID, partyRow, queue, dying>>
    BY <1>5 DEF FinishLeave, ReadCharacter, database
  <2>2. \A d \in Character : at'[d] = "destroying" <=> at[d] = "destroying"
    BY <1>1, <2>1 DEF TypeOK
  <2> QED
    BY <2>1, <2>2, Same_Stored DEF Dying
<1>6. CASE onLogin(c) \/ CleanupsBeforeDelete(c)
  <2>1. at[c] # "destroying" /\ at' \in {[at EXCEPT ![c] = "in"], [at EXCEPT ![c] = "off"]}
        /\ UNCHANGED <<maxPartyID, partyRow, queue, dying>>
        /\ \E b \in BOOLEAN : parties' = WithOnline(c, b)
    BY <1>6 DEF onLogin, CleanupsBeforeDelete, database
  <2>2. \A d \in Character : at'[d] = "destroying" <=> at[d] = "destroying"
    BY <1>1, <2>1 DEF TypeOK
  <2>3. DOMAIN parties' = DOMAIN parties
        /\ \A p \in DOMAIN parties : parties'[p].leader = parties[p].leader
    BY <1>1, <2>1, WithOnlineParties
  <2> QED
    BY <2>1, <2>2, <2>3, Same_Stored DEF Dying
<1>7. CASE Save(c) \/ LogoutNow(c)
  <2>1. /\ at[c] = "in" /\ queue' = Append(queue, SaveOf(c))
        /\ at' = at \/ at' = [at EXCEPT ![c] = "saved"]
        /\ UNCHANGED <<parties, maxPartyID, dying, partyRow>>
    BY <1>7 DEF Save, LogoutNow, Enqueue, memory
  <2>2. \A d \in Character : at'[d] = "destroying" <=> at[d] = "destroying"
    BY <1>1, <2>1 DEF TypeOK
  <2>3. \A p : Dying(p)' <=> Dying(p)
    BY <2>1, <2>2 DEF Dying
  <2>4. PICK o \in Operation : o = SaveOf(c)
    BY <1>1, SaveType
  <2>5. o.op = "save" /\ \A p : o # [op |-> "del", party |-> p]
    BY <2>4 DEF SaveOf
  <2> QED
    BY <1>1, <2>1, <2>3, <2>4, <2>5, Queued_Stored
<1> QED
  BY <1>2, <1>3, <1>4, <1>5, <1>6, <1>7 DEF Command

LEMMA StepPInv == ASSUME Patient PROVE PInv /\ [Next]_vars => PInv'
<1> SUFFICES ASSUME PInv, [Next]_vars
             PROVE  PInv'
  OBVIOUS
<1>1. ASSUME NEW c \in Character, Command(c), UNCHANGED crashed
      PROVE  PInv'
  BY <1>1, Command_IInv, Command_Stored DEF PInv
<1>2. CASE WorkerThread /\ UNCHANGED crashed
  BY <1>2, Worker_IInv, Worker_Stored DEF PInv
<1>3. CASE Restart
  BY <1>3, Restart_PInv
<1>4. CASE UNCHANGED vars
  <2>1. Stored => Stored'
    BY <1>4 DEF vars, Stored, Rows, Inserts, Successive, Written, Deletions, Owned, Deleted, Dying
  <2>2. IInv'
    BY <1>4 DEF vars, PInv, IInv, TypeOK, Leaders, Listed, Members, Listing, Belongs, Present,
                Column, SavesApplied, Destroyers, Dying
  <2> QED
    BY <1>4, <2>1, <2>2 DEF vars, PInv
<1> QED
  BY <1>1, <1>2, <1>3, <1>4 DEF Next

(* The lists in memory, the fields of the players, their rows and the rows  *)
(* of the parties stay in step over every command, save and restart.        *)
THEOREM Inductive == ASSUME Patient PROVE Spec => []PInv
BY InitPInv, StepPInv, PTL DEF Spec

(* When no command is under way nobody is in two parties, or twice in one   *)
(* (JoinParty, LeaveParty, DestroyParty, InitGroupSystem).                  *)
THEOREM SingleParty == ASSUME Patient PROVE Spec => []OneParty
<1>1. PInv => OneParty
  <2> SUFFICES ASSUME IInv, AtRest,
                      NEW p \in DOMAIN parties, NEW q \in DOMAIN parties,
                      NEW i \in DOMAIN parties[p].members,
                      NEW j \in DOMAIN parties[q].members,
                      parties[p].members[i].who = parties[q].members[j].who
               PROVE  p = q /\ i = j
    BY DEF OneParty, PInv
  <2>1. ~Dying(p) /\ ~Dying(q)
    BY DEF AtRest, Dying
  <2>2. PICK c : c = parties[p].members[i].who
    OBVIOUS
  <2>3. Belongs(c, p) /\ Belongs(c, q)
    BY <2>1, <2>2 DEF IInv, Members, Listing
  <2>4. Column(c, p) /\ Column(c, q) => p = q
    <3>1. ASSUME NEW k \in DOMAIN queue, NEW l \in DOMAIN queue,
                 queue[k] = [op |-> "save", who |-> c, party |-> p],
                 queue[l] = [op |-> "save", who |-> c, party |-> q],
                 ~(k > l), ~(l > k)
          PROVE  p = q
      <4>1. k \in Nat /\ l \in Nat
        BY DEF IInv, TypeOK
      <4>2. k = l
        BY <3>1, <4>1
      <4> QED
        BY <3>1, <4>2
    <3>2. ASSUME NEW k \in DOMAIN queue, NEW d, queue[k] = [op |-> "save", who |-> c, party |-> d]
          PROVE  queue[k].op = "save" /\ queue[k].who = c
      BY <3>2
    <3> QED
      BY <3>1, <3>2 DEF Column, SavesApplied
  <2>5. p = q
    BY <2>3, <2>4 DEF Belongs
  <2> QED
    BY <2>1, <2>5 DEF IInv, Members, Once
<1> QED
  BY <1>1, Inductive, PTL

(* When no command is under way a tag is online exactly while its player is *)
(* in the game as a member of that party (onLogin, onLogout).               *)
THEOREM TagsTrue == ASSUME Patient PROVE Spec => []TagsFollowPlayers
<1>1. PInv => TagsFollowPlayers
  <2> SUFFICES ASSUME IInv, AtRest, NEW p \in DOMAIN parties,
                      NEW i \in DOMAIN parties[p].members
               PROVE  parties[p].members[i].online <=>
                          at[parties[p].members[i].who] = "in"
                          /\ field[parties[p].members[i].who] = p
    BY DEF TagsFollowPlayers, PInv, ToSet
  <2>1. PICK c : c = parties[p].members[i].who
    OBVIOUS
  <2>2. ~Dying(p)
    BY DEF AtRest, Dying
  <2>3. c \in Character /\ Belongs(c, p) /\ (parties[p].members[i].online <=> Present(c))
    BY <2>1, <2>2, PartyType DEF IInv, Members, Listing
  <2> QED
    BY <2>1, <2>3 DEF AtRest, Belongs, Present
<1> QED
  BY <1>1, Inductive, PTL

(* A leader that is known is in the list, and until a first crash every     *)
(* party has one: the leader cannot leave, only destroy (LeaveParty), and   *)
(* InitGroupSystem takes its name from the rows of the members.             *)
THEOREM LeaderListed == ASSUME Patient PROVE Spec => []LeaderIsMember
<1>1. PInv => LeaderIsMember
  BY DEF PInv, IInv, Leaders, LeaderIsMember
<1> QED
  BY <1>1, Inductive, PTL

(* Until a first crash a restart loses no party and nobody's membership:    *)
(* AddGroupToDatabase, DestroyParty and Player::Save have written what      *)
(* InitGroupSystem reads.                                                   *)
THEOREM RestartKeeps == ASSUME Patient PROVE Spec => RestartKeepsMembers
<1>1. ASSUME PInv, [Next]_vars
      PROVE  [Restart /\ ~crashed' => \A p \in DOMAIN parties :
                      p \in DOMAIN parties' /\ Listed(p) \subseteq Listed(p)']_vars
  <2> SUFFICES ASSUME Restart, ~crashed', NEW p \in DOMAIN parties
               PROVE  p \in DOMAIN parties' /\ Listed(p) \subseteq Listed(p)'
    OBVIOUS
  <2>1. IInv /\ Stored /\ InGoodOrder
    BY <1>1 DEF PInv, Restart
  <2>2. p \in DOMAIN partyRow /\ Listed(p) \subseteq {c \in Character : charRow[c] = p}
    BY <2>1, GoodOrder
  <2>3. DOMAIN parties' = DOMAIN partyRow /\ parties'[p] = LoadPartyInfo(p)
    BY <2>2 DEF Restart
  <2>4. \A c \in Character : charRow[c] = p => c \in Listed(p)'
    BY <2>1, <2>2, <2>3, LoadedParty DEF IInv, Listed
  <2> QED
    BY <2>2, <2>3, <2>4
<1> QED
  BY <1>1, Inductive, PTL DEF Spec, RestartKeepsMembers
=============================================================================
