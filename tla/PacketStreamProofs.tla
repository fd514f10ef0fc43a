------------------------- MODULE PacketStreamProofs -------------------------
(***************************************************************************)
(* Proofs about PacketStream, for packets of any sizes not below a         *)
(* header's, any send buffer, any kernel buffer and any number of packets, *)
(* encrypted or not.                                                       *)
(*                                                                         *)
(*   NothingIsLost      NothingLost.  IInv adds that the packets waiting   *)
(*                      were sent (Waiting) and that the bytes on their    *)
(*                      way are those of whole packets one after the other *)
(*                      (Order): those of o behind the reader's buffers on *)
(*                      the wire and in the queue, then those of i in the  *)
(*                      buffer of Update, then those not yet packed        *)
(*   ConnectionIsFifo   as long as it is Roomy the connection implements   *)
(*                      FifoChannel.  FifoInv adds which packets those     *)
(*                      are: handled, o, i and waiting, in a row, they are *)
(*                      1, 2, 3 and so on (InRow); after a close some      *)
(*                      beginning of that row is all that can still arrive *)
(*                      (Broken)                                           *)
(*                                                                         *)
(* FlattenSeq is a fold and Fed a recursive function; what they come to is *)
(* proved with sets of numbers that hold 0 and every successor (NatAll).   *)
(* Lines of sequences are passed on as predicates (Three, Filled, Buffers, *)
(* Line, Same), under which lemmas are instantiated.                       *)
(***************************************************************************)
EXTENDS PacketStream, SequenceTheorems, WellFoundedInduction, TLAPS

-----------------------------------------------------------------------------
(* Induction, over a set of numbers *)

Less == {m \in Nat \X Nat : m[1] < m[2]}

\* A set of numbers that holds 0, and the successor of all it holds, is Nat.
LEMMA NatAll ==
    ASSUME NEW T, 0 \in T, \A n \in Nat : n \in T => n + 1 \in T
    PROVE  Nat \subseteq T
<1>1. SUFFICES ASSUME Nat \ T # {}
               PROVE  FALSE
  OBVIOUS
<1>2. IsWellFoundedOn(Less, Nat)
  BY NatLessThanWellFounded, Zenon DEF OpToRel, Less
<1>3. PICK n \in Nat \ T : \A m \in Nat \ T : ~(<<m, n>> \in Less)
  <2> DEFINE rest == Nat \ T
  <2>1. rest \subseteq Nat /\ rest # {}
    BY <1>1
  <2> HIDE DEF rest
  <2>2. \E n \in rest : \A m \in rest : ~(<<m, n>> \in Less)
    BY ONLY <1>2, <2>1, WFMin, Zenon
  <2> QED
    BY <2>2 DEF rest
<1>4. n # 0 /\ n \in Nat
  BY <1>3
<1>5. n - 1 \in Nat /\ <<n - 1, n>> \in Less
  BY <1>4 DEF Less
<1>6. n - 1 \in T
  BY <1>3, <1>5
<1>7. (n - 1) + 1 \in T
  BY <1>5, <1>6
<1> QED
  BY <1>3, <1>4, <1>7

-----------------------------------------------------------------------------
(* Flattened sequences *)

\* f holds what the first m members of s come to.
Sums(f, s, m) ==
    f = [i \in 1..m |-> IF i = 1 THEN s[i] ELSE f[i - 1] \o s[i]]

\* There is such a function for every m.
LEMMA SumsExist ==
    ASSUME NEW s, NEW m \in Nat
    PROVE  \E f : Sums(f, s, m)
<1> DEFINE T == {n \in Nat : \E f : Sums(f, s, n)}
<1>1. 0 \in T
  <2> DEFINE f == [i \in 1..0 |-> s]
  <2>1. Sums(f, s, 0)
    BY DEF Sums
  <2> QED
    BY <2>1
<1>2. ASSUME NEW n \in Nat, n \in T
      PROVE  n + 1 \in T
  <2>1. PICK f : Sums(f, s, n)
    BY <1>2
  <2> DEFINE g == [i \in 1..n + 1 |-> IF i = 1 THEN s[i] ELSE f[i - 1] \o s[i]]
  <2>2. \A i \in 1..n : f[i] = IF i = 1 THEN s[i] ELSE f[i - 1] \o s[i]
    BY <2>1 DEF Sums
  <2>3. \A i \in 1..n : g[i] = f[i]
    BY <2>2
  <2>4. ASSUME NEW i \in 1..n + 1
        PROVE  g[i] = IF i = 1 THEN s[i] ELSE g[i - 1] \o s[i]
    <3>1. i = 1 \/ i - 1 \in 1..n
      OBVIOUS
    <3>2. g[i] = IF i = 1 THEN s[i] ELSE f[i - 1] \o s[i]
      OBVIOUS
    <3> HIDE DEF g
    <3> QED
      BY <2>3, <3>1, <3>2
  <2>5. Sums(g, s, n + 1)
    <3>1. g = [i \in 1..n + 1 |-> g[i]]
      OBVIOUS
    <3> HIDE DEF g
    <3> QED
      BY <2>4, <3>1 DEF Sums
  <2> QED
    BY <2>5
<1> HIDE DEF T
<1>3. m \in T
  BY <1>1, <1>2, NatAll
<1> QED
  BY <1>3 DEF T

\* They are determined by their last.
LEMMA SumsAgree ==
    ASSUME NEW s, NEW t, NEW m \in Nat, NEW n \in Nat, NEW f, NEW g,
           Sums(f, s, m), Sums(g, t, n), m <= n, \A i \in 1..m : s[i] = t[i]
    PROVE  \A i \in 1..m : f[i] = g[i]
<1> DEFINE T == {i \in Nat : i \in 1..m => f[i] = g[i]}
<1>1. \A i \in 1..m : f[i] = IF i = 1 THEN s[i] ELSE f[i - 1] \o s[i]
  BY DEF Sums
<1>2. \A i \in 1..n : g[i] = IF i = 1 THEN t[i] ELSE g[i - 1] \o t[i]
  BY DEF Sums
<1>3. 0 \in T
  OBVIOUS
<1>4. ASSUME NEW i \in Nat, i \in T
      PROVE  i + 1 \in T
  <2>1. SUFFICES ASSUME i + 1 \in 1..m
                 PROVE  f[i + 1] = g[i + 1]
    OBVIOUS
  <2>2. i + 1 \in 1..n /\ s[i + 1] = t[i + 1]
    BY <2>1
  <2>3. (i + 1) - 1 = i
    OBVIOUS
  <2>4. i + 1 = 1 \/ f[i] = g[i]
    BY <1>4, <2>1
  <2>5. f[i + 1] = IF i + 1 = 1 THEN s[i + 1] ELSE f[i] \o s[i + 1]
    BY <1>1, <2>1, <2>3
  <2>6. g[i + 1] = IF i + 1 = 1 THEN t[i + 1] ELSE g[i] \o t[i + 1]
    BY <1>2, <2>2, <2>3
  <2> QED
    BY <2>2, <2>4, <2>5, <2>6
<1> HIDE DEF T
<1>5. Nat \subseteq T
  BY <1>3, <1>4, NatAll
<1> QED
  BY <1>5 DEF T

\* What FlattenSeq takes from its recursive function.
LEMMA FlattenIs ==
    ASSUME NEW s, NEW n \in Nat, Len(s) = n, n > 0, NEW f, Sums(f, s, n)
    PROVE  FlattenSeq(s) = f[n]
<1> DEFINE g == CHOOSE h : h = [i \in 1..Len(s) |-> IF i = 1 THEN s[i] ELSE h[i - 1] \o s[i]]
<1>1. \E h : h = [i \in 1..Len(s) |-> IF i = 1 THEN s[i] ELSE h[i - 1] \o s[i]]
  BY SumsExist DEF Sums
<1>2. Sums(g, s, n)
  BY <1>1 DEF Sums
<1>3. FlattenSeq(s) = g[Len(s)]
  BY DEF FlattenSeq
<1> HIDE DEF g
<1> QED
  BY <1>2, <1>3, SumsAgree

\* FlattenSeq of nothing, of a first, of one more at the end.
LEMMA FlattenEmpty == FlattenSeq(<<>>) = <<>>
BY DEF FlattenSeq

\* One more member is one more summand.
LEMMA FlattenMore ==
    ASSUME NEW n \in Nat, n > 0, NEW s, Len(s) = n, NEW t, Len(t) = n + 1,
           \A i \in 1..n : s[i] = t[i]
    PROVE  FlattenSeq(t) = FlattenSeq(s) \o t[n + 1]
<1>1. PICK f : Sums(f, s, n)
  BY SumsExist
<1>2. PICK g : Sums(g, t, n + 1)
  BY SumsExist
<1>3. FlattenSeq(s) = f[n] /\ FlattenSeq(t) = g[n + 1]
  BY <1>1, <1>2, FlattenIs
<1>4. \A i \in 1..n : f[i] = g[i]
  BY <1>1, <1>2, SumsAgree
<1>5. n + 1 \in 1..n + 1 /\ (n + 1) - 1 = n /\ n + 1 # 1 /\ n \in 1..n
  OBVIOUS
<1>6. g[n + 1] = g[n] \o t[n + 1]
  BY <1>2, <1>5 DEF Sums
<1> QED
  BY <1>3, <1>4, <1>5, <1>6

LEMMA FlattenFirst ==
    ASSUME NEW t, Len(t) = 1
    PROVE  FlattenSeq(t) = t[1]
<1>1. PICK g : Sums(g, t, 1)
  BY SumsExist
<1>2. g[1] = t[1]
  BY <1>1 DEF Sums
<1>3. 1 \in Nat /\ 1 > 0
  OBVIOUS
<1>4. FlattenSeq(t) = g[1]
  BY <1>1, <1>3, FlattenIs, Zenon
<1> QED
  BY <1>2, <1>4

LEMMA FlattenAppend ==
    ASSUME NEW X, NEW s \in Seq(Seq(X)), NEW a \in Seq(X)
    PROVE  FlattenSeq(Append(s, a)) = FlattenSeq(s) \o a
<1>1. CASE s = <<>>
  <2>1. Len(Append(s, a)) = 1 /\ Append(s, a)[1] = a
    BY <1>1
  <2> QED
    BY <1>1, <2>1, FlattenFirst, FlattenEmpty, ConcatEmptySeq
<1>2. CASE s # <<>>
  <2> DEFINE n == Len(s)
  <2>1. /\ n \in Nat /\ n > 0 /\ Len(Append(s, a)) = n + 1
        /\ Append(s, a)[n + 1] = a /\ \A i \in 1..n : s[i] = Append(s, a)[i]
    BY <1>2
  <2> HIDE DEF n
  <2>2. Len(s) = n
    BY DEF n
  <2>3. FlattenSeq(Append(s, a)) = FlattenSeq(s) \o Append(s, a)[n + 1]
    BY ONLY <2>1, <2>2, FlattenMore
  <2> QED
    BY <2>1, <2>3
<1> QED
  BY <1>1, <1>2

\* A sequence that is not empty ends in its last element.
LEMMA LastOff ==
    ASSUME NEW X, NEW n \in Nat, NEW s \in Seq(X), Len(s) = n + 1
    PROVE  /\ s = Append(SubSeq(s, 1, n), s[n + 1])
           /\ SubSeq(s, 1, n) \in Seq(X)
           /\ Len(SubSeq(s, 1, n)) = n
           /\ s[n + 1] \in X
OBVIOUS

\* Flattened sequences over X are sequences over X.
LEMMA FlattenType ==
    ASSUME NEW X, NEW s \in Seq(Seq(X))
    PROVE  FlattenSeq(s) \in Seq(X)
<1> DEFINE T == {n \in Nat : \A t \in Seq(Seq(X)) : Len(t) = n => FlattenSeq(t) \in Seq(X)}
<1>1. 0 \in T
  BY FlattenEmpty
<1>2. ASSUME NEW n \in Nat, n \in T
      PROVE  n + 1 \in T
  <2>1. SUFFICES ASSUME NEW t \in Seq(Seq(X)), Len(t) = n + 1
                 PROVE  FlattenSeq(t) \in Seq(X)
    OBVIOUS
  <2> DEFINE u == SubSeq(t, 1, n)
             a == t[n + 1]
  <2>2. t = Append(u, a) /\ u \in Seq(Seq(X)) /\ a \in Seq(X) /\ Len(u) = n
    BY <2>1, LastOff
  <2> HIDE DEF u, a
  <2>5. FlattenSeq(t) = FlattenSeq(u) \o a
    BY <2>2, FlattenAppend
  <2>4. FlattenSeq(u) \in Seq(X)
    BY <1>2, <2>2
  <2> QED
    BY <2>2, <2>4, <2>5, ConcatProperties
<1> HIDE DEF T
<1>3. Len(s) \in T
  BY <1>1, <1>2, NatAll
<1> QED
  BY <1>3 DEF T

\* Two sequences flattened one after the other.
LEMMA FlattenConcat ==
    ASSUME NEW X, NEW s \in Seq(Seq(X)), NEW t \in Seq(Seq(X))
    PROVE  FlattenSeq(s \o t) = FlattenSeq(s) \o FlattenSeq(t)
<1> DEFINE T == {n \in Nat : \A u \in Seq(Seq(X)) : Len(u) = n =>
                                 FlattenSeq(s \o u) = FlattenSeq(s) \o FlattenSeq(u)}
<1>1. 0 \in T
  <2>1. SUFFICES ASSUME NEW u \in Seq(Seq(X)), Len(u) = 0
                 PROVE  FlattenSeq(s \o u) = FlattenSeq(s) \o FlattenSeq(u)
    OBVIOUS
  <2>2. u = <<>> /\ s \o u = s
    BY <2>1
  <2>3. FlattenSeq(s) \o <<>> = FlattenSeq(s)
    BY FlattenType, ConcatEmptySeq
  <2> QED
    BY <2>2, <2>3, FlattenEmpty
<1>2. ASSUME NEW n \in Nat, n \in T
      PROVE  n + 1 \in T
  <2>1. SUFFICES ASSUME NEW u \in Seq(Seq(X)), Len(u) = n + 1
                 PROVE  FlattenSeq(s \o u) = FlattenSeq(s) \o FlattenSeq(u)
    OBVIOUS
  <2> DEFINE v == SubSeq(u, 1, n)
             a == u[n + 1]
  <2>2. u = Append(v, a) /\ v \in Seq(Seq(X)) /\ a \in Seq(X) /\ Len(v) = n
    BY <2>1, LastOff
  <2> HIDE DEF v, a
  <2>4. FlattenSeq(s \o v) = FlattenSeq(s) \o FlattenSeq(v)
    BY <1>2, <2>2
  <2>5. s \o u = Append(s \o v, a)
    BY <2>2
  <2>3. v \in Seq(Seq(X)) /\ a \in Seq(X) /\ s \o v \in Seq(Seq(X))
    BY <2>2
  <2>6. FlattenSeq(s \o u) = FlattenSeq(s \o v) \o a
    <3>1. FlattenSeq(Append(s \o v, a)) = FlattenSeq(s \o v) \o a
      BY ONLY <2>3, FlattenAppend
    <3> QED
      BY <2>5, <3>1
  <2>7. FlattenSeq(u) = FlattenSeq(v) \o a
    <3>1. FlattenSeq(Append(v, a)) = FlattenSeq(v) \o a
      BY ONLY <2>3, FlattenAppend
    <3> QED
      BY <2>2, <3>1
  <2>8. FlattenSeq(s) \in Seq(X) /\ FlattenSeq(v) \in Seq(X)
    BY <2>3, FlattenType
  <2>9. (FlattenSeq(s) \o FlattenSeq(v)) \o a = FlattenSeq(s) \o (FlattenSeq(v) \o a)
    <3> DEFINE fs == FlattenSeq(s)
               fv == FlattenSeq(v)
    <3>1. fs \in Seq(X) /\ fv \in Seq(X) /\ a \in Seq(X)
      BY <2>3, <2>8
    <3> HIDE DEF fs, fv
    <3>2. (fs \o fv) \o a = fs \o (fv \o a)
      BY ONLY <3>1, ConcatAssociative
    <3> QED
      BY <3>2 DEF fs, fv
  <2> QED
    BY <2>4, <2>6, <2>7, <2>9
<1>3. Len(t) \in Nat
  OBVIOUS
<1> HIDE DEF T
<1>4. Nat \subseteq T
  BY ONLY <1>1, <1>2, NatAll
<1> QED
  BY <1>3, <1>4 DEF T

\* A single sequence is left as it is.
LEMMA FlattenOne ==
    ASSUME NEW X, NEW a \in Seq(X)
    PROVE  FlattenSeq(<<a>>) = a
<1>1. <<a>> = Append(<<>>, a) /\ <<>> \in Seq(Seq(X))
  OBVIOUS
<1>2. FlattenSeq(Append(<<>>, a)) = FlattenSeq(<<>>) \o a
  BY <1>1, FlattenAppend
<1> QED
  BY <1>1, <1>2, FlattenEmpty, ConcatEmptySeq

-----------------------------------------------------------------------------
(* Packets one after the other *)

\* The packets sent, numbered in order.
Sent == 1..Len(size)

\* Every packet has one of the sizes.
Sized == size \in Seq(Sizes) /\ Len(size) <= MaxPackets

\* A packet sent has at least the bytes of a header.
LEMMA BytesAre ==
    ASSUME Sized, NEW n \in Sent
    PROVE  /\ n \in Packets
           /\ size[n] \in Nat /\ size[n] >= HeaderSize /\ size[n] > 0
           /\ BytesOf(n) \in Seq(Byte)
           /\ Len(BytesOf(n)) = size[n]
           /\ \A k \in 1..size[n] : BytesOf(n)[k] = <<n, k>>
<1>1. n \in Packets /\ size[n] \in Sizes
  BY SizeAssumption DEF Sized, Sent, Packets
<1>2. size[n] \in Nat /\ size[n] >= HeaderSize /\ size[n] > 0
  <2>1. HeaderSize \in Nat /\ HeaderSize > 0
    BY SizeAssumption
  <2>2. size[n] \in Nat /\ size[n] >= HeaderSize
    BY <1>1, SizeAssumption
  <2> QED
    BY <2>1, <2>2
<1>3. \A k \in 1..size[n] : <<n, k>> \in Byte
  BY <1>1, <1>2 DEF Byte
<1> QED
  BY <1>1, <1>2, <1>3 DEF BytesOf

\* StreamOf by its parts: one sequence of bytes for each packet.
Pieces(ns) == [k \in 1..Len(ns) |-> BytesOf(ns[k])]

LEMMA PiecesType ==
    ASSUME Sized, NEW ns \in Seq(Sent)
    PROVE  Pieces(ns) \in Seq(Seq(Byte)) /\ Len(Pieces(ns)) = Len(ns)
<1>1. \A k \in 1..Len(ns) : BytesOf(ns[k]) \in Seq(Byte)
  BY BytesAre
<1> QED
  BY <1>1 DEF Pieces

LEMMA StreamIs == ASSUME NEW ns PROVE StreamOf(ns) = FlattenSeq(Pieces(ns))
BY DEF StreamOf, Pieces

\* The bytes of packets, of none, of two rows of packets, of one.
LEMMA StreamType ==
    ASSUME Sized, NEW ns \in Seq(Sent)
    PROVE  StreamOf(ns) \in Seq(Byte)
BY StreamIs, PiecesType, FlattenType

LEMMA StreamEmpty == StreamOf(<<>>) = <<>>
<1>1. Pieces(<<>>) = <<>>
  BY DEF Pieces
<1> QED
  BY <1>1, StreamIs, FlattenEmpty

LEMMA StreamConcat ==
    ASSUME Sized, NEW ns \in Seq(Sent), NEW ms \in Seq(Sent)
    PROVE  StreamOf(ns \o ms) = StreamOf(ns) \o StreamOf(ms)
<1> DEFINE u == Pieces(ns)
           v == Pieces(ms)
           w == Pieces(ns \o ms)
           m == Len(ns)
           n == Len(ms)
<1>1. u \in Seq(Seq(Byte)) /\ Len(u) = m /\ v \in Seq(Seq(Byte)) /\ Len(v) = n
  BY PiecesType
<1>2. /\ ns \o ms \in Seq(Sent) /\ Len(ns \o ms) = m + n /\ m \in Nat /\ n \in Nat
      /\ \A k \in 1..m + n : (ns \o ms)[k] = IF k <= m THEN ns[k] ELSE ms[k - m]
  OBVIOUS
<1>3. w \in Seq(Seq(Byte)) /\ Len(w) = m + n
  BY <1>2, PiecesType
<1>4. /\ \A k \in 1..m : u[k] = BytesOf(ns[k])
      /\ \A k \in 1..n : v[k] = BytesOf(ms[k])
      /\ \A k \in 1..m + n : w[k] = BytesOf((ns \o ms)[k])
  BY <1>2 DEF Pieces
<1> HIDE DEF u, v, w, m, n
<1>5. /\ u \o v \in Seq(Seq(Byte)) /\ Len(u \o v) = m + n
      /\ \A k \in 1..m + n : (u \o v)[k] = IF k <= m THEN u[k] ELSE v[k - m]
  BY <1>1, <1>2, ConcatProperties
<1>6. w = u \o v
  <2>1. ASSUME NEW k \in 1..m + n
        PROVE  w[k] = (u \o v)[k]
    <3>1. CASE k <= m
      <4>1. k \in 1..m
        BY <1>2, <3>1
      <4> QED
        BY <1>2, <1>4, <1>5, <3>1, <4>1
    <3>2. CASE ~(k <= m)
      <4>1. k - m \in 1..n
        BY <1>2, <3>2
      <4> QED
        BY <1>2, <1>4, <1>5, <3>2, <4>1
    <3> QED
      BY <3>1, <3>2
  <2>2. u \o v \in Seq(Seq(Byte)) /\ Len(w) = Len(u \o v)
    BY <1>3, <1>5
  <2> DEFINE x == u \o v
  <2> HIDE DEF x
  <2>3. x \in Seq(Seq(Byte)) /\ Len(w) = Len(x) /\ \A k \in 1..Len(w) : w[k] = x[k]
    BY <1>3, <2>1, <2>2 DEF x
  <2>4. w = x
    BY <1>3, <2>3, SeqEqual
  <2> QED
    BY <2>4 DEF x
<1>7. FlattenSeq(u \o v) = FlattenSeq(u) \o FlattenSeq(v)
  BY <1>1, FlattenConcat
<1> QED
  BY <1>6, <1>7, StreamIs DEF u, v, w

LEMMA StreamOne ==
    ASSUME Sized, NEW n \in Sent
    PROVE  StreamOf(<<n>>) = BytesOf(n)
<1>1. Pieces(<<n>>) = <<BytesOf(n)>>
  BY DEF Pieces
<1>2. BytesOf(n) \in Seq(Byte)
  BY BytesAre
<1> QED
  BY <1>1, <1>2, StreamIs, FlattenOne

\* The first packet of a stream comes first.
LEMMA StreamFirst ==
    ASSUME Sized, NEW ns \in Seq(Sent), ns # <<>>
    PROVE  /\ ns[1] \in Sent /\ Tail(ns) \in Seq(Sent)
           /\ StreamOf(ns) = BytesOf(ns[1]) \o StreamOf(Tail(ns))
<1>1. ns[1] \in Sent /\ Tail(ns) \in Seq(Sent) /\ <<ns[1]>> \in Seq(Sent)
  OBVIOUS
<1>2. ns = <<ns[1]>> \o Tail(ns)
  OBVIOUS
<1>3. StreamOf(<<ns[1]>> \o Tail(ns)) = StreamOf(<<ns[1]>>) \o StreamOf(Tail(ns))
  BY <1>1, StreamConcat
<1>4. StreamOf(<<ns[1]>>) = BytesOf(ns[1])
  BY <1>1, StreamOne
<1> QED
  BY <1>1, <1>2, <1>3, <1>4

-----------------------------------------------------------------------------
(* Sequences without repetition *)

\* ToSet and IsInjective of a sequence, by its positions.
LEMMA InSet ==
    ASSUME NEW X, NEW s \in Seq(X), NEW x
    PROVE  x \in ToSet(s) <=> \E i \in 1..Len(s) : s[i] = x
BY DEF ToSet

LEMMA InjectiveIs ==
    ASSUME NEW X, NEW s \in Seq(X)
    PROVE  IsInjective(s) <=> \A i, j \in 1..Len(s) : s[i] = s[j] => i = j
<1>1. DOMAIN s = 1..Len(s)
  OBVIOUS
<1> QED
  BY <1>1 DEF IsInjective

\* What two sequences hold, and when together they repeat nothing.
LEMMA ConcatSet ==
    ASSUME NEW X, NEW s \in Seq(X), NEW t \in Seq(X)
    PROVE  ToSet(s \o t) = ToSet(s) \cup ToSet(t)
<1>1. /\ s \o t \in Seq(X) /\ Len(s \o t) = Len(s) + Len(t)
      /\ Len(s) \in Nat /\ Len(t) \in Nat
      /\ \A i \in 1..Len(s) + Len(t) : (s \o t)[i] = IF i <= Len(s) THEN s[i] ELSE t[i - Len(s)]
  BY ConcatProperties, LenProperties
<1>2. ASSUME NEW x, x \in ToSet(s \o t)
      PROVE  x \in ToSet(s) \cup ToSet(t)
  <2>1. PICK i \in 1..Len(s) + Len(t) : (s \o t)[i] = x
    BY <1>1, <1>2, InSet
  <2>2. CASE i <= Len(s)
    BY <1>1, <2>1, <2>2, InSet
  <2>3. CASE ~(i <= Len(s))
    <3>1. i - Len(s) \in 1..Len(t) /\ t[i - Len(s)] = x
      BY <1>1, <2>1, <2>3
    <3> QED
      BY <3>1, InSet
  <2> QED
    BY <2>2, <2>3
<1>3. ASSUME NEW x, x \in ToSet(s)
      PROVE  x \in ToSet(s \o t)
  <2>1. PICK i \in 1..Len(s) : s[i] = x
    BY <1>3, InSet
  <2>2. i \in 1..Len(s) + Len(t) /\ (s \o t)[i] = x
    BY <1>1, <2>1
  <2> QED
    BY <1>1, <2>2, InSet
<1>4. ASSUME NEW x, x \in ToSet(t)
      PROVE  x \in ToSet(s \o t)
  <2>1. PICK i \in 1..Len(t) : t[i] = x
    BY <1>4, InSet
  <2>2. i + Len(s) \in 1..Len(s) + Len(t) /\ ~(i + Len(s) <= Len(s)) /\ (i + Len(s)) - Len(s) = i
    BY <1>1
  <2>3. (s \o t)[i + Len(s)] = x
    BY <1>1, <2>1, <2>2
  <2> QED
    BY <1>1, <2>2, <2>3, InSet
<1> QED
  BY <1>2, <1>3, <1>4

LEMMA ConcatInjective ==
    ASSUME NEW X, NEW s \in Seq(X), NEW t \in Seq(X)
    PROVE  IsInjective(s \o t) <=>
              /\ IsInjective(s) /\ IsInjective(t)
              /\ ToSet(s) \cap ToSet(t) = {}
<1> DEFINE m == Len(s)
           n == Len(t)
<1>1. /\ s \o t \in Seq(X) /\ Len(s \o t) = m + n
      /\ m \in Nat /\ n \in Nat
      /\ \A i \in 1..m + n : (s \o t)[i] = IF i <= m THEN s[i] ELSE t[i - m]
  BY ConcatProperties, LenProperties
<1>2. /\ \A x : x \in ToSet(s) <=> \E i \in 1..m : s[i] = x
      /\ \A x : x \in ToSet(t) <=> \E i \in 1..n : t[i] = x
  BY InSet
<1>3. /\ IsInjective(s) <=> \A i, j \in 1..m : s[i] = s[j] => i = j
      /\ IsInjective(t) <=> \A i, j \in 1..n : t[i] = t[j] => i = j
      /\ IsInjective(s \o t) <=> \A i, j \in 1..m + n : (s \o t)[i] = (s \o t)[j] => i = j
  BY <1>1, InjectiveIs
<1> DEFINE w == s \o t
<1> HIDE DEF m, n, w
<1>4. /\ \A i \in 1..m : i \in 1..m + n /\ w[i] = s[i]
      /\ \A i \in 1..n : i + m \in 1..m + n /\ w[i + m] = t[i]
  BY <1>1 DEF w
<1>5. ASSUME IsInjective(w)
      PROVE  IsInjective(s) /\ IsInjective(t) /\ ToSet(s) \cap ToSet(t) = {}
  <2>1. \A i, j \in 1..m + n : w[i] = w[j] => i = j
    BY <1>3, <1>5 DEF w
  <2>2. \A i, j \in 1..m : s[i] = s[j] => i = j
    BY <1>4, <2>1
  <2>3. \A i, j \in 1..n : t[i] = t[j] => i = j
    <3>1. SUFFICES ASSUME NEW i \in 1..n, NEW j \in 1..n, t[i] = t[j]
                   PROVE  i = j
      OBVIOUS
    <3>2. i + m = j + m
      BY <1>4, <2>1, <3>1
    <3> QED
      BY <1>1, <3>2
  <2>4. ASSUME NEW i \in 1..m, NEW j \in 1..n
        PROVE  s[i] # t[j]
    <3>1. i # j + m
      BY <1>1
    <3> QED
      BY <1>4, <2>1, <3>1
  <2> QED
    BY <1>2, <1>3, <2>2, <2>3, <2>4
<1>6. ASSUME IsInjective(s), IsInjective(t), ToSet(s) \cap ToSet(t) = {}
      PROVE  IsInjective(w)
  <2>1. \A i, j \in 1..m : s[i] = s[j] => i = j
    BY <1>3, <1>6
  <2>2. \A i, j \in 1..n : t[i] = t[j] => i = j
    BY <1>3, <1>6
  <2>3. \A i \in 1..m, j \in 1..n : s[i] # t[j]
    BY <1>2, <1>6
  <2>4. ASSUME NEW i \in 1..m + n
        PROVE  \/ i \in 1..m /\ i <= m /\ w[i] = s[i]
               \/ i - m \in 1..n /\ ~(i <= m) /\ w[i] = t[i - m]
    BY <1>1 DEF w
  <2>5. SUFFICES ASSUME NEW i \in 1..m + n, NEW j \in 1..m + n, w[i] = w[j]
                 PROVE  i = j
    BY <1>3 DEF w
  <2>6. CASE i <= m /\ j <= m
    BY <2>1, <2>4, <2>5, <2>6
  <2>7. CASE ~(i <= m) /\ ~(j <= m)
    <3>1. i - m = j - m
      BY <2>2, <2>4, <2>5, <2>7
    <3> QED
      BY <1>1, <3>1
  <2>8. CASE i <= m /\ ~(j <= m)
    BY <2>3, <2>4, <2>5, <2>8
  <2>9. CASE ~(i <= m) /\ j <= m
    BY <2>3, <2>4, <2>5, <2>9
  <2> QED
    BY <2>6, <2>7, <2>8, <2>9
<1> QED
  BY <1>5, <1>6 DEF w

\* The bytes of a packet are its offsets, each once.
LEMMA BytesSet ==
    ASSUME Sized, NEW n \in Sent
    PROVE  /\ ToSet(BytesOf(n)) = {<<n, k>> : k \in 1..size[n]}
           /\ IsInjective(BytesOf(n))
<1>1. DOMAIN BytesOf(n) = 1..size[n] /\ \A k \in 1..size[n] : BytesOf(n)[k] = <<n, k>>
  BY BytesAre DEF BytesOf
<1> QED
  BY <1>1 DEF ToSet, IsInjective

\* Packets that differ are made of bytes that differ.
LEMMA StreamDistinct ==
    ASSUME Sized, NEW ns \in Seq(Sent), IsInjective(ns)
    PROVE  /\ IsInjective(StreamOf(ns))
           /\ ToSet(StreamOf(ns)) = UNION {ToSet(BytesOf(n)) : n \in ToSet(ns)}
<1> DEFINE Good(q) == /\ IsInjective(StreamOf(q))
                      /\ ToSet(StreamOf(q)) = UNION {ToSet(BytesOf(n)) : n \in ToSet(q)}
           T == {m \in Nat : \A q \in Seq(Sent) : Len(q) = m /\ IsInjective(q) => Good(q)}
<1>1. 0 \in T
  <2>1. SUFFICES ASSUME NEW q \in Seq(Sent), Len(q) = 0
                 PROVE  Good(q)
    OBVIOUS
  <2>2. q = <<>> /\ StreamOf(q) = <<>>
    BY <2>1, StreamEmpty
  <2> QED
    BY <2>2 DEF IsInjective, ToSet
<1>2. ASSUME NEW m \in Nat, m \in T
      PROVE  m + 1 \in T
  <2>1. SUFFICES ASSUME NEW q \in Seq(Sent), Len(q) = m + 1, IsInjective(q)
                 PROVE  Good(q)
    OBVIOUS
  <2> DEFINE u == SubSeq(q, 1, m)
             n == q[m + 1]
  <2>2. q = Append(u, n) /\ u \in Seq(Sent) /\ n \in Sent /\ Len(u) = m
    BY <2>1, LastOff
  <2> HIDE DEF u, n
  <2>3. q = u \o <<n>> /\ <<n>> \in Seq(Sent)
    BY <2>2
  <2>4. IsInjective(u) /\ ToSet(u) \cap ToSet(<<n>>) = {} /\ ToSet(q) = ToSet(u) \cup ToSet(<<n>>)
    <3>1. IsInjective(u \o <<n>>)
      BY <2>1, <2>3
    <3>2. u \in Seq(Sent) /\ <<n>> \in Seq(Sent)
      BY <2>2, <2>3
    <3>3. IsInjective(u) /\ ToSet(u) \cap ToSet(<<n>>) = {}
      BY ONLY <3>1, <3>2, ConcatInjective
    <3>4. ToSet(u \o <<n>>) = ToSet(u) \cup ToSet(<<n>>)
      BY ONLY <3>2, ConcatSet
    <3> QED
      BY <2>3, <3>3, <3>4
  <2>5. ToSet(<<n>>) = {n}
    BY DEF ToSet
  <2>6. Good(u)
    BY <1>2, <2>2, <2>4
  <2>7. StreamOf(q) = StreamOf(u) \o BytesOf(n)
    BY <2>2, <2>3, StreamConcat, StreamOne
  <2>8. StreamOf(u) \in Seq(Byte) /\ BytesOf(n) \in Seq(Byte)
    BY <2>2, StreamType, BytesAre
  <2>9. ToSet(StreamOf(q)) = ToSet(StreamOf(u)) \cup ToSet(BytesOf(n))
    BY <2>7, <2>8, ConcatSet
  <2>10. ToSet(u) \subseteq Sent /\ n \notin ToSet(u)
    BY <2>2, <2>4, <2>5 DEF ToSet
  <2>11. ToSet(StreamOf(u)) \cap ToSet(BytesOf(n)) = {}
    BY <2>2, <2>6, <2>10, BytesSet
  <2>12. IsInjective(StreamOf(q))
    <3>1. IsInjective(BytesOf(n)) /\ IsInjective(StreamOf(u))
      BY <2>2, <2>6, BytesSet
    <3> QED
      BY <2>7, <2>8, <2>11, <3>1, ConcatInjective
  <2>13. ToSet(StreamOf(q)) = UNION {ToSet(BytesOf(k)) : k \in ToSet(q)}
    BY <2>4, <2>5, <2>6, <2>9
  <2> QED
    BY <2>12, <2>13
<1>3. Len(ns) \in Nat
  OBVIOUS
<1> HIDE DEF T
<1>4. Nat \subseteq T
  BY ONLY <1>1, <1>2, NatAll
<1> QED
  BY <1>3, <1>4 DEF T

-----------------------------------------------------------------------------
(* Reading *)

\* The states of the reader.
PeerRecord ==
    {p \in [state : {"reading", "stopped", "garbled", "closed"}, header : Seq(Byte),
            payload : Seq(Byte), out : Seq(Packets \cup {Torn})] : Len(p.header) <= HeaderSize}

\* A byte leaves the reader in one of its states.
LEMMA FeedType ==
    ASSUME NEW p \in PeerRecord, NEW b \in Byte
    PROVE  Feed(b, p) \in PeerRecord
<1> DEFINE inHeader == Len(p.header) < HeaderSize
           header == IF inHeader THEN Append(p.header, b) ELSE p.header
           payload == IF inHeader THEN p.payload ELSE Append(p.payload, b)
           n == header[1][1]
           out == Append(p.out, IF header \o payload = BytesOf(n) THEN n ELSE Torn)
<1>1. /\ p.state \in {"reading", "stopped", "garbled", "closed"} /\ p.header \in Seq(Byte)
      /\ p.payload \in Seq(Byte) /\ p.out \in Seq(Packets \cup {Torn})
      /\ Len(p.header) \in Nat /\ Len(p.header) <= HeaderSize
      /\ p = [state |-> p.state, header |-> p.header, payload |-> p.payload, out |-> p.out]
  BY DEF PeerRecord
<1>2. HeaderSize \in Nat /\ HeaderSize > 0
  BY SizeAssumption
<1>3. header \in Seq(Byte) /\ Len(header) <= HeaderSize /\ payload \in Seq(Byte)
  BY <1>1, <1>2
<1>4. Len(header) > 0
  BY <1>1, <1>2
<1>5. n \in Packets
  <2>1. header[1] \in Byte
    BY <1>3, <1>4
  <2> QED
    BY <2>1 DEF Byte
<1>6. out \in Seq(Packets \cup {Torn})
  BY <1>1, <1>5
<1>7. \/ Feed(b, p) = p
      \/ Feed(b, p) = [p EXCEPT !.header = header]
      \/ Feed(b, p) = [p EXCEPT !.state = "garbled", !.header = header]
      \/ Feed(b, p) = [p EXCEPT !.state = "closed", !.header = header]
      \/ Feed(b, p) = [p EXCEPT !.header = header, !.payload = payload]
      \/ Feed(b, p) = [state |-> IF n \in Unknown THEN "stopped" ELSE "reading",
                       header |-> <<>>, payload |-> <<>>, out |-> out]
  BY DEF Feed
<1> HIDE DEF inHeader, header, payload, n, out
<1>8. <<>> \in Seq(Byte) /\ Len(<<>>) = 0
  OBVIOUS
<1>9. CASE Feed(b, p) = [p EXCEPT !.header = header]
  BY <1>1, <1>3, <1>9 DEF PeerRecord
<1>10. CASE Feed(b, p) = [p EXCEPT !.state = "garbled", !.header = header]
  BY <1>1, <1>3, <1>10 DEF PeerRecord
<1>11. CASE Feed(b, p) = [p EXCEPT !.header = header, !.payload = payload]
  BY <1>1, <1>3, <1>11 DEF PeerRecord
<1>12. CASE Feed(b, p) = [state |-> IF n \in Unknown THEN "stopped" ELSE "reading",
                          header |-> <<>>, payload |-> <<>>, out |-> out]
  BY <1>2, <1>6, <1>8, <1>12 DEF PeerRecord
<1>13. CASE Feed(b, p) = [p EXCEPT !.state = "closed", !.header = header]
  BY <1>1, <1>3, <1>13 DEF PeerRecord
<1> QED
  BY <1>7, <1>9, <1>10, <1>11, <1>12, <1>13

\* The peer is behind the packets of ns: the bytes that it holds of one and
\* the bytes of w are what they are made of.
Ahead(p, w, ns, rest) ==
    /\ p.header \o p.payload \o w = StreamOf(ns)
    /\ p.out \in Seq(Sent)
    /\ IsInjective(ns)
    /\ ToSet(ns) \cap rest = {}
    /\ ToSet(ns) \cup rest = Sent \ ToSet(p.out)
    /\ Len(p.header) < HeaderSize => p.payload = <<>>
    /\ p.header # <<>> => Len(p.header) + Len(p.payload) < size[ns[1]]

\* What a stream begins with, if it is no longer than the first packet.
LEMMA Beginning ==
    ASSUME Sized, NEW n \in Sent, NEW s \in Seq(Byte), NEW t \in Seq(Byte), NEW w \in Seq(Byte),
           s \o w = BytesOf(n) \o t, Len(s) <= size[n]
    PROVE  /\ \A k \in 1..Len(s) : s[k] = <<n, k>>
           /\ Len(s) = size[n] => s = BytesOf(n) /\ w = t
<1> DEFINE c == BytesOf(n)
<1>1. /\ c \in Seq(Byte) /\ Len(c) = size[n] /\ size[n] \in Nat
      /\ \A k \in 1..size[n] : c[k] = <<n, k>>
  BY BytesAre
<1>2. s \o w = c \o t
  OBVIOUS
<1> HIDE DEF c
<1>3. ASSUME NEW k \in 1..Len(s)
      PROVE  s[k] = c[k] /\ k \in 1..size[n]
  <2>1. (s \o w)[k] = s[k] /\ (c \o t)[k] = c[k]
    BY <1>1, <1>3
  <2> QED
    BY <1>1, <1>2, <1>3, <2>1
<1>4. ASSUME Len(s) = size[n]
      PROVE  s = c /\ w = t
  <2>1. s = c
    BY <1>1, <1>3, <1>4, SeqEqual
  <2>2. c \o w = c \o t
    BY <1>2, <2>1
  <2> QED
    BY <1>1, <2>1, <2>2, ConcatSimplifications
<1> QED
  BY <1>1, <1>3, <1>4 DEF c

\* One byte more: the peer has more of the packet, or has handled it.
LEMMA FeedAhead ==
    ASSUME Sized, NEW p \in PeerRecord, p.state = "reading", NEW b \in Byte, NEW w \in Seq(Byte),
           NEW ns \in Seq(Sent), NEW rest, Ahead(p, <<b>> \o w, ns, rest)
    PROVE  /\ ns # <<>>
           /\ \/ /\ Feed(b, p).out = p.out
                 /\ Feed(b, p).state = "reading" => Ahead(Feed(b, p), w, ns, rest)
              \/ /\ Feed(b, p).out = Append(p.out, ns[1])
                 /\ Feed(b, p).state = "reading" => Ahead(Feed(b, p), w, Tail(ns), rest)
<1> DEFINE inHeader == Len(p.header) < HeaderSize
           header == IF inHeader THEN Append(p.header, b) ELSE p.header
           payload == IF inHeader THEN p.payload ELSE Append(p.payload, b)
           s == header \o payload
           n == ns[1]
           q == Feed(b, p)
<1>1. /\ p.header \in Seq(Byte) /\ p.payload \in Seq(Byte) /\ p.out \in Seq(Sent)
      /\ Len(p.header) \in Nat /\ Len(p.payload) \in Nat /\ Len(p.header) <= HeaderSize
      /\ p = [state |-> p.state, header |-> p.header, payload |-> p.payload, out |-> p.out]
  BY DEF PeerRecord, Ahead
<1>2. HeaderSize \in Nat /\ HeaderSize > 0
  BY SizeAssumption
<1>3. p.header \o p.payload \o (<<b>> \o w) = StreamOf(ns)
  BY DEF Ahead
<1>4. header \in Seq(Byte) /\ payload \in Seq(Byte) /\ s \in Seq(Byte)
  BY <1>1, <1>2
<1>5. /\ Len(header) \in Nat /\ Len(payload) \in Nat
      /\ Len(header) > 0 /\ Len(header) <= HeaderSize
      /\ Len(header) + Len(payload) = Len(p.header) + Len(p.payload) + 1
      /\ Len(s) = Len(header) + Len(payload)
  BY <1>1, <1>2
<1>6. Len(header) < HeaderSize => payload = <<>>
  BY <1>1, <1>2 DEF Ahead
<1>7. s \o w = StreamOf(ns)
  <2>1. s = (p.header \o p.payload) \o <<b>>
    <3>1. CASE inHeader
      <4>1. p.payload = <<>>
        BY <3>1 DEF Ahead
      <4>2. s = Append(p.header, b) \o <<>>
        BY <3>1, <4>1
      <4>3. p.header \o p.payload = p.header
        BY <1>1, <4>1
      <4> QED
        BY <1>1, <4>2, <4>3
    <3>2. CASE ~inHeader
      <4>1. s = p.header \o Append(p.payload, b)
        BY <3>2
      <4> QED
        BY <1>1, <4>1
    <3> QED
      BY <3>1, <3>2
  <2> DEFINE x == p.header \o p.payload
  <2>2. /\ x \in Seq(Byte) /\ <<b>> \in Seq(Byte)
        /\ s = x \o <<b>>
        /\ x \o (<<b>> \o w) = StreamOf(ns)
    <3>1. x \in Seq(Byte) /\ <<b>> \in Seq(Byte)
      BY <1>1
    <3>2. s = x \o <<b>>
      BY <2>1
    <3>3. x \o (<<b>> \o w) = StreamOf(ns)
      BY <1>3
    <3> QED
      BY <3>1, <3>2, <3>3
  <2> HIDE DEF x, s
  <2>3. (x \o <<b>>) \o w = x \o (<<b>> \o w)
    BY ONLY <2>2, w \in Seq(Byte), ConcatAssociative
  <2> QED
    BY <2>2, <2>3
<1>8. ns # <<>>
  <2>1. SUFFICES ASSUME ns = <<>>
                 PROVE  FALSE
    OBVIOUS
  <2>2. s \o w = <<>>
    BY <1>7, <2>1, StreamEmpty
  <2> HIDE DEF s
  <2>3. Len(s \o w) = Len(s) + Len(w) /\ Len(w) \in Nat
    BY <1>4
  <2>4. Len(s \o w) = 0
    BY <2>2
  <2>5. Len(s) \in Nat /\ Len(s) > 0
    <3> HIDE DEF header, payload
    <3> QED
      BY <1>5 DEF s
  <2> QED
    BY <2>3, <2>4, <2>5
<1>9. /\ n \in Sent /\ Tail(ns) \in Seq(Sent)
      /\ StreamOf(ns) = BytesOf(n) \o StreamOf(Tail(ns))
  BY <1>8, StreamFirst
<1>10. StreamOf(Tail(ns)) \in Seq(Byte) /\ size[n] \in Nat /\ size[n] >= HeaderSize
  BY <1>9, StreamType, BytesAre
<1>11. Len(s) <= size[n]
  <2>1. CASE p.header = <<>>
    <3>1. p.payload = <<>>
      BY <1>2, <2>1 DEF Ahead
    <3> QED
      BY <1>2, <1>5, <1>10, <2>1, <3>1
  <2>2. CASE p.header # <<>>
    <3>1. Len(p.header) + Len(p.payload) < size[n]
      BY <2>2 DEF Ahead
    <3> QED
      BY <1>1, <1>5, <1>10, <3>1
  <2> QED
    BY <2>1, <2>2
<1>12. /\ \A k \in 1..Len(s) : s[k] = <<n, k>>
       /\ Len(s) = size[n] => s = BytesOf(n) /\ w = StreamOf(Tail(ns))
  <2>1. s \o w = BytesOf(n) \o StreamOf(Tail(ns))
    BY <1>7, <1>9
  <2>2. s \in Seq(Byte) /\ n \in Sent /\ StreamOf(Tail(ns)) \in Seq(Byte)
    BY <1>4, <1>9, <1>10
  <2> HIDE DEF s, n
  <2> QED
    BY <1>11, <2>1, <2>2, Beginning
<1>13. header[1][1] = n
  <2> HIDE DEF header, payload, n
  <2>1. s[1] = header[1] /\ 1 \in 1..Len(s)
    BY <1>4, <1>5, ConcatProperties
  <2>2. s[1] = <<n, 1>>
    BY <1>12, <2>1
  <2> QED
    BY ONLY <2>1, <2>2
<1>14. q = IF Len(header) < HeaderSize THEN [p EXCEPT !.header = header]
           ELSE IF ~Recognised(header, n, p.out)
           THEN [p EXCEPT !.state = "garbled", !.header = header]
           ELSE IF size[n] > MaxSize
           THEN [p EXCEPT !.state = "closed", !.header = header]
           ELSE IF Len(payload) < size[n] - HeaderSize
           THEN [p EXCEPT !.header = header, !.payload = payload]
           ELSE [state |-> IF n \in Unknown THEN "stopped" ELSE "reading",
                 header |-> <<>>, payload |-> <<>>,
                 out |-> Append(p.out, IF s = BytesOf(n) THEN n ELSE Torn)]
  <2>1. q = IF Len(header) < HeaderSize THEN [p EXCEPT !.header = header]
            ELSE IF ~Recognised(header, header[1][1], p.out)
            THEN [p EXCEPT !.state = "garbled", !.header = header]
            ELSE IF size[header[1][1]] > MaxSize
            THEN [p EXCEPT !.state = "closed", !.header = header]
            ELSE IF Len(payload) < size[header[1][1]] - HeaderSize
            THEN [p EXCEPT !.header = header, !.payload = payload]
            ELSE [state |-> IF header[1][1] \in Unknown THEN "stopped" ELSE "reading",
                  header |-> <<>>, payload |-> <<>>,
                  out |-> Append(p.out, IF header \o payload = BytesOf(header[1][1])
                                        THEN header[1][1] ELSE Torn)]
    BY Zenon DEF Feed
  <2> HIDE DEF header, payload, n, q
  <2> QED
    BY <1>13, <2>1, Zenon
<1> HIDE DEF inHeader, header, payload, s, n, q
\* The packet is not complete yet.
<1>15. ASSUME Len(header) < HeaderSize \/ Len(payload) < size[n] - HeaderSize,
              q.out = p.out, q.header = header, q.payload = payload
       PROVE  Ahead(q, w, ns, rest)
  <2>1. Len(header) + Len(payload) < size[n]
    <3>1. CASE Len(header) < HeaderSize
      BY <1>2, <1>5, <1>6, <1>10, <3>1
    <3>2. CASE Len(payload) < size[n] - HeaderSize
      BY <1>2, <1>5, <1>10, <3>2
    <3> QED
      BY <1>15, <3>1, <3>2
  <2>2. q.header \o q.payload \o w = StreamOf(ns)
    BY <1>7, <1>15 DEF s
  <2>3. /\ q.out \in Seq(Sent) /\ IsInjective(ns) /\ ToSet(ns) \cap rest = {}
        /\ ToSet(ns) \cup rest = Sent \ ToSet(q.out)
    BY <1>15 DEF Ahead
  <2>4. Len(q.header) < HeaderSize => q.payload = <<>>
    BY <1>6, <1>15
  <2>5. Len(q.header) + Len(q.payload) < size[ns[1]]
    BY <1>15, <2>1 DEF n
  <2> QED
    BY <2>2, <2>3, <2>4, <2>5 DEF Ahead
<1>16. CASE Len(header) < HeaderSize
  <2>1. q = [p EXCEPT !.header = header]
    BY <1>14, <1>16
  <2>2. payload = p.payload
    BY <1>6, <1>16, <1>1, <1>2 DEF inHeader, header, payload
  <2>3. q.out = p.out /\ q.header = header /\ q.payload = payload
    BY <1>1, <2>1, <2>2
  <2> QED
    BY <1>8, <1>15, <1>16, <2>3 DEF q
<1>17. CASE ~(Len(header) < HeaderSize) /\ ~Recognised(header, n, p.out)
  <2>1. q = [p EXCEPT !.state = "garbled", !.header = header]
    BY <1>14, <1>17
  <2>2. q.out = p.out /\ q.state = "garbled"
    BY <1>1, <2>1
  <2> QED
    BY <1>8, <2>2 DEF q
<1>20. CASE /\ ~(Len(header) < HeaderSize) /\ Recognised(header, n, p.out)
            /\ size[n] > MaxSize
  <2>1. q = [p EXCEPT !.state = "closed", !.header = header]
    BY <1>14, <1>20
  <2>2. q.out = p.out /\ q.state = "closed"
    BY <1>1, <2>1
  <2> QED
    BY <1>8, <2>2 DEF q
<1>18. CASE /\ ~(Len(header) < HeaderSize) /\ Recognised(header, n, p.out)
            /\ ~(size[n] > MaxSize) /\ Len(payload) < size[n] - HeaderSize
  <2>1. q = [p EXCEPT !.header = header, !.payload = payload]
    BY <1>14, <1>18
  <2>2. q.out = p.out /\ q.header = header /\ q.payload = payload
    BY <1>1, <2>1
  <2> QED
    BY <1>8, <1>15, <1>18, <2>2 DEF q
<1>19. CASE /\ ~(Len(header) < HeaderSize) /\ Recognised(header, n, p.out)
            /\ ~(size[n] > MaxSize) /\ ~(Len(payload) < size[n] - HeaderSize)
  <2>1. Len(s) = size[n]
    <3>1. Len(header) = HeaderSize
      BY <1>2, <1>5, <1>19
    <3>2. Len(payload) >= size[n] - HeaderSize
      BY <1>2, <1>5, <1>10, <1>19
    <3> QED
      <4>1. Len(s) = Len(header) + Len(payload) /\ Len(payload) \in Nat
        BY <1>5
      <4>2. size[n] \in Nat /\ HeaderSize \in Nat
        BY <1>2, <1>10
      <4> QED
        BY ONLY <1>11, <3>1, <3>2, <4>1, <4>2
  <2>2. s = BytesOf(n) /\ w = StreamOf(Tail(ns))
    BY <1>12, <2>1
  <2>3. q = [state |-> IF n \in Unknown THEN "stopped" ELSE "reading",
             header |-> <<>>, payload |-> <<>>, out |-> Append(p.out, n)]
    BY <1>14, <1>19, <2>2
  <2>4. q.out = Append(p.out, n) /\ q.header = <<>> /\ q.payload = <<>>
    BY <2>3
  <2>5. q.header \o q.payload \o w = StreamOf(Tail(ns))
    BY <2>2, <2>4
  <2>6. q.out \in Seq(Sent) /\ ToSet(q.out) = ToSet(p.out) \cup {n}
    <3>1. q.out = p.out \o <<n>> /\ <<n>> \in Seq(Sent)
      BY <1>1, <1>9, <2>4
    <3>2. ToSet(<<n>>) = {n}
      BY DEF ToSet
    <3>3. p.out \in Seq(Sent)
      BY <1>1
    <3>4. ToSet(p.out \o <<n>>) = ToSet(p.out) \cup ToSet(<<n>>)
      <4> DEFINE u == p.out
                 v == <<n>>
      <4>1. u \in Seq(Sent) /\ v \in Seq(Sent)
        BY <3>1, <3>3
      <4> HIDE DEF u, v
      <4>2. ToSet(u \o v) = ToSet(u) \cup ToSet(v)
        BY ONLY <4>1, ConcatSet
      <4> QED
        BY <4>2 DEF u, v
    <3>5. p.out \o <<n>> \in Seq(Sent)
      BY <3>1, <3>3
    <3> QED
      BY <3>1, <3>2, <3>4, <3>5
  <2>7. /\ IsInjective(Tail(ns)) /\ n \notin ToSet(Tail(ns))
        /\ ToSet(ns) = {n} \cup ToSet(Tail(ns))
    <3>1. ns = <<n>> \o Tail(ns) /\ <<n>> \in Seq(Sent)
      BY <1>8, <1>9 DEF n
    <3>2. IsInjective(<<n>> \o Tail(ns))
      BY <3>1 DEF Ahead
    <3>3. ToSet(<<n>>) = {n}
      BY DEF ToSet
    <3>4. Tail(ns) \in Seq(Sent)
      BY <1>9
    <3>5. IsInjective(Tail(ns)) /\ ToSet(<<n>>) \cap ToSet(Tail(ns)) = {}
      BY <3>1, <3>2, <3>4, ConcatInjective
    <3>6. ToSet(<<n>> \o Tail(ns)) = ToSet(<<n>>) \cup ToSet(Tail(ns))
      BY <3>1, <3>4, ConcatSet
    <3> QED
      BY <3>1, <3>3, <3>5, <3>6
  <2>8. ToSet(ns) \cap rest = {} /\ ToSet(ns) \cup rest = Sent \ ToSet(p.out)
    BY DEF Ahead
  <2>9. /\ ToSet(Tail(ns)) \cap rest = {}
        /\ ToSet(Tail(ns)) \cup rest = Sent \ ToSet(q.out)
    BY <2>6, <2>7, <2>8
  <2>10. Ahead(q, w, Tail(ns), rest)
    BY <2>4, <2>5, <2>6, <2>7, <2>9 DEF Ahead
  <2> QED
    BY <1>8, <2>4, <2>10 DEF q, n
<1> QED
  BY <1>16, <1>17, <1>18, <1>19, <1>20

\* f tells what the peer is after up to j bytes.
Feeds(f, j) ==
    f = [k \in 0..j |-> IF k = 0 THEN Peer ELSE Feed(wire[k], f[k - 1])]

\* Fed exists, is unique, and goes byte by byte through the wire.
LEMMA FeedsExist ==
    ASSUME NEW j \in Nat
    PROVE  \E f : Feeds(f, j)
<1> DEFINE T == {n \in Nat : \E f : Feeds(f, n)}
<1>1. 0 \in T
  <2> DEFINE f == [k \in 0..0 |-> Peer]
  <2>1. Feeds(f, 0)
    BY DEF Feeds
  <2> QED
    BY <2>1
<1>2. ASSUME NEW n \in Nat, n \in T
      PROVE  n + 1 \in T
  <2>1. PICK f : Feeds(f, n)
    BY <1>2
  <2> DEFINE g == [k \in 0..n + 1 |-> IF k = 0 THEN Peer ELSE Feed(wire[k], f[k - 1])]
  <2>2. \A k \in 0..n : f[k] = IF k = 0 THEN Peer ELSE Feed(wire[k], f[k - 1])
    BY <2>1 DEF Feeds
  <2>3. \A k \in 0..n : g[k] = f[k]
    BY <2>2
  <2>4. ASSUME NEW k \in 0..n + 1
        PROVE  g[k] = IF k = 0 THEN Peer ELSE Feed(wire[k], g[k - 1])
    <3>1. k = 0 \/ k - 1 \in 0..n
      OBVIOUS
    <3>2. g[k] = IF k = 0 THEN Peer ELSE Feed(wire[k], f[k - 1])
      OBVIOUS
    <3> HIDE DEF g
    <3> QED
      BY <2>3, <3>1, <3>2
  <2>5. Feeds(g, n + 1)
    <3>1. g = [k \in 0..n + 1 |-> g[k]]
      OBVIOUS
    <3> HIDE DEF g
    <3> QED
      BY <2>4, <3>1 DEF Feeds
  <2> QED
    BY <2>5
<1> HIDE DEF T
<1>3. Nat \subseteq T
  BY ONLY <1>1, <1>2, NatAll
<1> QED
  BY <1>3 DEF T

LEMMA FeedsAgree ==
    ASSUME NEW i \in Nat, NEW j \in Nat, i <= j, NEW f, NEW g, Feeds(f, i), Feeds(g, j)
    PROVE  \A k \in 0..i : f[k] = g[k]
<1> DEFINE T == {k \in Nat : k \in 0..i => f[k] = g[k]}
<1>1. \A k \in 0..i : f[k] = IF k = 0 THEN Peer ELSE Feed(wire[k], f[k - 1])
  BY DEF Feeds
<1>2. \A k \in 0..j : g[k] = IF k = 0 THEN Peer ELSE Feed(wire[k], g[k - 1])
  BY DEF Feeds
<1>3. 0 \in T
  BY <1>1, <1>2
<1>4. ASSUME NEW k \in Nat, k \in T
      PROVE  k + 1 \in T
  <2>1. SUFFICES ASSUME k + 1 \in 0..i
                 PROVE  f[k + 1] = g[k + 1]
    OBVIOUS
  <2>2. k \in 0..i /\ k + 1 \in 0..j /\ (k + 1) - 1 = k /\ k + 1 # 0
    BY <2>1
  <2>3. f[k] = g[k]
    BY <1>4, <2>2
  <2> QED
    BY <1>1, <1>2, <2>1, <2>2, <2>3
<1> HIDE DEF T
<1>5. Nat \subseteq T
  BY ONLY <1>3, <1>4, NatAll
<1> QED
  BY <1>5 DEF T

LEMMA FedIs ==
    ASSUME NEW j \in Nat, NEW f, Feeds(f, j)
    PROVE  Fed(j) = f[j]
<1> DEFINE g == CHOOSE h : h = [k \in 0..j |-> IF k = 0 THEN Peer ELSE Feed(wire[k], h[k - 1])]
<1>1. \E h : h = [k \in 0..j |-> IF k = 0 THEN Peer ELSE Feed(wire[k], h[k - 1])]
  BY FeedsExist DEF Feeds
<1>2. Feeds(g, j)
  BY <1>1 DEF Feeds
<1>3. Fed(j) = g[j]
  BY DEF Fed
<1> HIDE DEF g
<1> QED
  BY <1>2, <1>3, FeedsAgree

LEMMA FedSteps ==
    /\ Fed(0) = Peer
    /\ \A j \in Nat : Fed(j + 1) = Feed(wire[j + 1], Fed(j))
<1>1. ASSUME NEW j \in Nat
      PROVE  Fed(j + 1) = Feed(wire[j + 1], Fed(j))
  <2>1. PICK f : Feeds(f, j)
    BY FeedsExist
  <2>2. PICK g : Feeds(g, j + 1)
    BY FeedsExist
  <2>3. f[j] = g[j]
    BY <2>1, <2>2, FeedsAgree
  <2>4. Fed(j) = f[j] /\ Fed(j + 1) = g[j + 1]
    BY <2>1, <2>2, FedIs
  <2>5. j + 1 \in 0..j + 1 /\ j + 1 # 0 /\ (j + 1) - 1 = j
    OBVIOUS
  <2>6. g[j + 1] = Feed(wire[j + 1], g[j])
    BY <2>2, <2>5 DEF Feeds
  <2> QED
    BY <2>3, <2>4, <2>6
<1>2. Fed(0) = Peer
  <2>1. PICK f : Feeds(f, 0)
    BY FeedsExist
  <2>2. f[0] = Peer
    BY <2>1 DEF Feeds
  <2> QED
    BY <2>1, <2>2, FedIs
<1> QED
  BY <1>1, <1>2

LEMMA PeerType == ASSUME TypeOK PROVE Peer \in PeerRecord
BY DEF TypeOK, Peer, PeerRecord

\* Any portion of the wire leaves the reader in one of its states.
LEMMA FedType ==
    ASSUME TypeOK, NEW j \in 0..Len(wire)
    PROVE  Fed(j) \in PeerRecord
<1> DEFINE T == {k \in Nat : k \in 0..Len(wire) => Fed(k) \in PeerRecord}
<1>1. 0 \in T
  BY FedSteps, PeerType
<1>2. ASSUME NEW k \in Nat, k \in T
      PROVE  k + 1 \in T
  <2>1. SUFFICES ASSUME k + 1 \in 0..Len(wire)
                 PROVE  Fed(k + 1) \in PeerRecord
    OBVIOUS
  <2>2. wire[k + 1] \in Byte /\ k \in 0..Len(wire)
    BY <2>1 DEF TypeOK
  <2>3. Fed(k) \in PeerRecord
    BY <1>2, <2>2
  <2> QED
    BY <2>2, <2>3, FeedType, FedSteps
<1> HIDE DEF T
<1>3. Nat \subseteq T
  BY ONLY <1>1, <1>2, NatAll
<1>4. j \in Nat
  BY DEF TypeOK
<1> QED
  BY <1>3, <1>4 DEF T

\* After any number of bytes the peer is ahead of what is left, and what it
\* has handled and has ahead is what it had handled and ahead before.
FedTo(j, tail, ns, rest, ms) ==
    /\ Fed(j).out \o ms = delivered \o ns
    /\ Fed(j).state = "reading" => Ahead(Fed(j), SubSeq(wire, j + 1, Len(wire)) \o tail, ms, rest)

\* The first of a row goes over to the end of what was before it.
LEMMA OverToIt ==
    ASSUME NEW X, NEW s \in Seq(X), NEW t \in Seq(X), t # <<>>
    PROVE  Append(s, t[1]) \o Tail(t) = s \o t
<1>1. t[1] \in X /\ Tail(t) \in Seq(X) /\ t = <<t[1]>> \o Tail(t) /\ <<t[1]>> \in Seq(X)
  OBVIOUS
<1>2. Append(s, t[1]) = s \o <<t[1]>>
  BY <1>1
<1> DEFINE u == <<t[1]>>
           v == Tail(t)
<1>3. u \in Seq(X) /\ v \in Seq(X) /\ t = u \o v /\ Append(s, t[1]) = s \o u
  BY <1>1, <1>2
<1> HIDE DEF u, v
<1>4. (s \o u) \o v = s \o (u \o v)
  BY <1>3, ConcatAssociative
<1>5. Append(s, t[1]) \o v = s \o t
  BY <1>3, <1>4
<1> QED
  BY <1>5 DEF v

\* After a portion of the wire the reader has handled some of the packets that
\* were ahead, in their order, and has the others ahead.
LEMMA FedAhead ==
    ASSUME TypeOK, NEW tail \in Seq(Byte), NEW rest, NEW ns \in Seq(Sent),
           Ahead(Peer, wire \o tail, ns, rest), NEW j \in 0..Len(wire)
    PROVE  \E ms \in Seq(Sent) : Fed(j).out \in Seq(Sent) /\ FedTo(j, tail, ns, rest, ms)
<1> DEFINE Done(k) == \E ms \in Seq(Sent) : Fed(k).out \in Seq(Sent) /\ FedTo(k, tail, ns, rest, ms)
           T == {k \in Nat : k \in 0..Len(wire) => Done(k)}
<1>0. Sized /\ wire \in Seq(Byte) /\ Len(wire) \in Nat
  BY DEF TypeOK, Sized
<1>1. 0 \in T
  <2>1. Fed(0) = Peer /\ Peer.out = delivered
    BY FedSteps DEF Peer
  <2>2. SubSeq(wire, 0 + 1, Len(wire)) = wire
    BY <1>0
  <2>3. FedTo(0, tail, ns, rest, ns)
    BY <2>1, <2>2 DEF FedTo
  <2>4. Fed(0).out \in Seq(Sent)
    BY <2>1 DEF Ahead
  <2> QED
    BY <2>3, <2>4
<1>2. ASSUME NEW k \in Nat, k \in T
      PROVE  k + 1 \in T
  <2>1. SUFFICES ASSUME k + 1 \in 0..Len(wire)
                 PROVE  Done(k + 1)
    OBVIOUS
  <2>2. k \in 0..Len(wire)
    BY <2>1
  <2>3. PICK ms \in Seq(Sent) : Fed(k).out \in Seq(Sent) /\ FedTo(k, tail, ns, rest, ms)
    BY <1>2, <2>2
  <2> DEFINE p == Fed(k)
             b == wire[k + 1]
             w == SubSeq(wire, k + 2, Len(wire)) \o tail
  <2>4. p \in PeerRecord /\ b \in Byte /\ Fed(k + 1) = Feed(b, p)
    <3>1. p \in PeerRecord
      BY <2>2, FedType
    <3>2. b \in Byte
      BY <1>0, <2>1
    <3>3. Fed(k + 1) = Feed(b, p)
      BY FedSteps
    <3> QED
      BY <3>1, <3>2, <3>3
  <2>5. CASE p.state # "reading"
    <3>1. Fed(k + 1) = p
      BY <2>4, <2>5 DEF Feed
    <3>2. FedTo(k + 1, tail, ns, rest, ms)
      BY <2>3, <2>5, <3>1 DEF FedTo
    <3> QED
      BY <2>3, <3>1, <3>2
  <2>6. CASE p.state = "reading"
    <3>1. w \in Seq(Byte) /\ SubSeq(wire, k + 1, Len(wire)) \o tail = <<b>> \o w
      <4> DEFINE v == SubSeq(wire, k + 2, Len(wire))
      <4>1. v \in Seq(Byte) /\ <<b>> \in Seq(Byte)
        BY <1>0, <2>1, <2>4
      <4>2. SubSeq(wire, k + 1, Len(wire)) = <<b>> \o v
        <5>1. k + 1 \in 1..Len(wire) /\ Len(wire) \in (k + 1)..Len(wire) /\ (k + 1) + 1 = k + 2
          BY <1>0, <2>1
        <5> QED
          BY <1>0, <5>1, SubSeqRecursiveFirst
      <4> HIDE DEF v, b
      <4>3. (<<b>> \o v) \o tail = <<b>> \o (v \o tail)
        BY <4>1, ConcatAssociative
      <4>4. v \o tail \in Seq(Byte)
        BY <4>1
      <4> QED
        BY <4>2, <4>3, <4>4 DEF v
    <3> HIDE DEF w, b, p
    <3>2. Ahead(p, <<b>> \o w, ms, rest) /\ p.out \o ms = delivered \o ns /\ p.out \in Seq(Sent)
      BY <2>3, <2>6, <3>1 DEF FedTo, p
    <3> DEFINE q == Feed(b, p)
    <3>3. /\ ms # <<>>
          /\ \/ q.out = p.out /\ (q.state = "reading" => Ahead(q, w, ms, rest))
             \/ q.out = Append(p.out, ms[1]) /\ (q.state = "reading" => Ahead(q, w, Tail(ms), rest))
      BY <1>0, <2>4, <2>6, <3>1, <3>2, FeedAhead
    <3> HIDE DEF q
    <3>4. Fed(k + 1) = q /\ w = SubSeq(wire, (k + 1) + 1, Len(wire)) \o tail
      BY <2>4 DEF q, w
    <3>5. CASE q.out = p.out /\ (q.state = "reading" => Ahead(q, w, ms, rest))
      <4>1. FedTo(k + 1, tail, ns, rest, ms)
        BY <3>2, <3>4, <3>5 DEF FedTo
      <4> QED
        BY <3>2, <3>4, <3>5, <4>1
    <3>6. CASE q.out = Append(p.out, ms[1]) /\ (q.state = "reading" => Ahead(q, w, Tail(ms), rest))
      <4>1. ms[1] \in Sent /\ Tail(ms) \in Seq(Sent) /\ ms = <<ms[1]>> \o Tail(ms)
        BY <3>3
      <4>2. q.out \in Seq(Sent)
        BY <3>2, <3>6, <4>1
      <4>3. q.out \o Tail(ms) = p.out \o ms
        BY <3>2, <3>3, <3>6, OverToIt
      <4>4. FedTo(k + 1, tail, ns, rest, Tail(ms))
        BY <3>2, <3>4, <3>6, <4>3 DEF FedTo
      <4> QED
        BY <3>4, <4>1, <4>2, <4>4
    <3> QED
      BY <3>3, <3>5, <3>6
  <2> QED
    BY <2>5, <2>6
<1> HIDE DEF T
<1>3. Nat \subseteq T
  BY ONLY <1>1, <1>2, NatAll
<1>4. j \in Nat
  BY <1>0
<1> QED
  BY <1>3, <1>4 DEF T

-----------------------------------------------------------------------------
(* Typing *)

\* The packets not yet packed were sent; the loop of Socket::Update has a buffer.
Waiting ==
    /\ bufferQueue \in Seq(Sent)
    /\ pc = "flush" => writeQueue # <<>>

\* The history of Update, and whether the connection is encrypted.
LEMMA FlagsStay ==
    ASSUME TypeOK, UNCHANGED <<cramped, encrypted>>
    PROVE  cramped' \subseteq Packets /\ encrypted' \in BOOLEAN
BY Zenon DEF TypeOK

\* Typing, one action at a time.
LEMMA TypeInit == Init => TypeOK /\ Waiting
<1> SUFFICES ASSUME Init
             PROVE  TypeOK /\ Waiting
  OBVIOUS
<1>1. MaxPackets \in Nat /\ WireSize \in Nat /\ HeaderSize \in Nat
  BY SizeAssumption
<1>2. isWritingAsync \in BOOLEAN /\ closed \in BOOLEAN /\ encrypted \in BOOLEAN
  BY Zenon DEF Init
<1> QED
  BY <1>1, <1>2 DEF Init, TypeOK, Waiting

LEMMA TypedSend ==
    ASSUME TypeOK, Waiting, NEW s \in Sizes, SendPacket(s)
    PROVE  TypeOK' /\ Waiting'
<1>1. /\ Len(size) < MaxPackets /\ size' = Append(size, s) /\ size \in Seq(Sizes)
      /\ bufferQueue' = Append(bufferQueue, Len(size) + 1)
      /\ bufferQueue \in Seq(1..Len(size)) /\ Len(size) \in Nat /\ MaxPackets \in Nat
  BY SizeAssumption DEF SendPacket, TypeOK, Waiting, Sent
<1>2. Len(size') = Len(size) + 1 /\ size' \in Seq(Sizes) /\ Len(size') <= MaxPackets
  BY <1>1
<1>3. bufferQueue' \in Seq(1..Len(size'))
  BY <1>1, <1>2
<1>4. 1..Len(size') \subseteq Packets
  BY <1>1, <1>2 DEF Packets
<1>5. bufferQueue' \in Seq(Packets)
  BY <1>3, <1>4
<1> QED
  BY <1>2, <1>3, <1>5 DEF SendPacket, TypeOK, Waiting, Sent, readVars

LEMMA TypedPack ==
    ASSUME TypeOK, Waiting, Pack
    PROVE  TypeOK' /\ Waiting'
<1> DEFINE n == Head(bufferQueue)
<1>1. n \in Sent /\ Tail(bufferQueue) \in Seq(Sent) /\ Tail(bufferQueue) \in Seq(Packets)
  BY DEF Pack, TypeOK, Waiting
<1>2. BytesOf(n) \in Seq(Byte)
  BY <1>1, BytesAre DEF TypeOK, Sized
<1>3. buffer' \in Seq(Byte) /\ writeQueue' \in Seq(Seq(Byte))
  <2> HIDE DEF n
  <2>1. buffer \in Seq(Byte) /\ writeQueue \in Seq(Seq(Byte)) /\ <<>> \in Seq(Byte)
    BY DEF TypeOK
  <2>2. PICK queue \in {writeQueue, Append(writeQueue, buffer)} :
        \E rest \in {buffer, <<>>} :
           \/ buffer' = rest \o BytesOf(n) /\ writeQueue' = queue
           \/ buffer' = rest /\ writeQueue' = Append(queue, BytesOf(n))
    BY Zenon DEF Pack, n
  <2>3. PICK rest \in {buffer, <<>>} :
           \/ buffer' = rest \o BytesOf(n) /\ writeQueue' = queue
           \/ buffer' = rest /\ writeQueue' = Append(queue, BytesOf(n))
    BY <2>2
  <2>4. queue \in Seq(Seq(Byte)) /\ rest \in Seq(Byte)
    <3>1. Append(writeQueue, buffer) \in Seq(Seq(Byte))
      BY <2>1
    <3>2. queue = writeQueue \/ queue = Append(writeQueue, buffer)
      BY <2>2
    <3>3. rest = buffer \/ rest = <<>>
      BY <2>3
    <3> QED
      BY <2>1, <3>1, <3>2, <3>3
  <2>5. rest \o BytesOf(n) \in Seq(Byte) /\ Append(queue, BytesOf(n)) \in Seq(Seq(Byte))
    BY <1>2, <2>4
  <2> QED
    BY <2>3, <2>4, <2>5
<1>4. /\ bufferQueue' = Tail(bufferQueue) /\ pc = "pack"
      /\ UNCHANGED <<size, pc, isWritingAsync, closed, wire, readVars>>
  BY DEF Pack
<1>5. cramped' \subseteq Packets /\ encrypted' \in BOOLEAN
  <2>1. cramped' = cramped \/ cramped' = cramped \cup {n}
    BY DEF Pack
  <2>2. n \in Packets
    <3>1. bufferQueue \in Seq(Packets) /\ bufferQueue # <<>>
      BY DEF Pack, TypeOK
    <3> QED
      BY ONLY <3>1 DEF n
  <2>3. encrypted' \in BOOLEAN
    BY <1>4, Zenon DEF TypeOK, readVars
  <2> QED
    BY <2>1, <2>2, <2>3 DEF TypeOK
<1> QED
  BY <1>1, <1>3, <1>4, <1>5 DEF TypeOK, Waiting, Sent, readVars

\* The types of sequences, as names.
Three(X, a, b, c) == a \in Seq(X) /\ b \in Seq(X) /\ c \in Seq(X)
Filled(Y, q) == q \in Seq(Y) /\ q # <<>>
Buffers(X, s) == s \in Seq(Seq(X))

\* Sequences in a row may be taken together in any way.
LEMMA Together ==
    ASSUME NEW X, NEW a, NEW b, NEW c, NEW d, Three(X, a, b, c), Three(X, d, d, d)
    PROVE  (a \o b) \o (c \o d) = a \o ((b \o c) \o d)
<1>1. a \in Seq(X) /\ b \in Seq(X) /\ c \in Seq(X) /\ d \in Seq(X)
  BY DEF Three
<1>2. c \o d \in Seq(X)
  BY <1>1
<1>3. ASSUME NEW e \in Seq(X) PROVE (a \o b) \o e = a \o (b \o e)
  BY ONLY <1>1, <1>3, ConcatAssociative
<1>4. (b \o c) \o d = b \o (c \o d)
  BY ONLY <1>1, ConcatAssociative
<1>5. (a \o b) \o (c \o d) = a \o (b \o (c \o d))
  BY ONLY <1>2, <1>3
<1> QED
  BY ONLY <1>4, <1>5

LEMMA Reassociated ==
    ASSUME NEW X, NEW a, NEW b, NEW c, Three(X, a, b, c)
    PROVE  a \o (b \o c) = (a \o b) \o c
<1>1. a \in Seq(X) /\ b \in Seq(X) /\ c \in Seq(X)
  BY DEF Three
<1> QED
  BY ONLY <1>1, ConcatAssociative

\* The front of a queue of buffers.
LEMMA FlattenHead ==
    ASSUME NEW X, NEW a, NEW s, Three(X, a, a, a), Buffers(X, s)
    PROVE  FlattenSeq(Cons(a, s)) = a \o FlattenSeq(s)
<1>1. <<a>> \in Seq(Seq(X)) /\ a \in Seq(X)
  BY DEF Three
<1>2. FlattenSeq(Cons(a, s)) = FlattenSeq(<<a>>) \o FlattenSeq(s)
  BY <1>1, FlattenConcat DEF Buffers, Cons
<1> QED
  BY <1>1, <1>2, FlattenOne

LEMMA FrontIs ==
    ASSUME NEW Y, NEW q, Filled(Y, q)
    PROVE  /\ Head(q) \in Y /\ Tail(q) \in Seq(Y) /\ q = Cons(Head(q), Tail(q))
           /\ Len(q) \in Nat /\ Len(Tail(q)) = Len(q) - 1
<1>1. q \in Seq(Y) /\ q # <<>>
  BY DEF Filled
<1>2. ASSUME NEW t \in Seq(Y), t # <<>>
      PROVE  /\ Head(t) \in Y /\ Tail(t) \in Seq(Y) /\ t = Cons(Head(t), Tail(t))
             /\ Len(t) \in Nat /\ Len(Tail(t)) = Len(t) - 1
  BY ONLY <1>2 DEF Cons
<1> QED
  BY ONLY <1>1, <1>2

LEMMA FrontChanged ==
    ASSUME NEW Y, NEW q, Filled(Y, q), NEW x \in Y
    PROVE  /\ [q EXCEPT ![1] = x] = Cons(x, Tail(q))
           /\ [q EXCEPT ![1] = x] \in Seq(Y) /\ [q EXCEPT ![1] = x] # <<>>
BY DEF Filled, Cons

\* A buffer cut in two.
LEMMA Parts ==
    ASSUME NEW X, NEW s \in Seq(X), NEW j \in 1..Len(s)
    PROVE  /\ SubSeq(s, 1, j) \in Seq(X) /\ Len(SubSeq(s, 1, j)) = j
           /\ SubSeq(s, j + 1, Len(s)) \in Seq(X)
           /\ SubSeq(s, 1, j) \o SubSeq(s, j + 1, Len(s)) = s
           /\ j = Len(s) => SubSeq(s, 1, j) = s
OBVIOUS

\* Bytes from the front of a queue of buffers go to the end of w.
LEMMA BytesMove ==
    ASSUME NEW X, NEW w, NEW now, NEW later, NEW s, Three(X, w, now, later), Buffers(X, s)
    PROVE  (w \o now) \o FlattenSeq(Cons(later, s)) = w \o FlattenSeq(Cons(now \o later, s))
<1>1. FlattenSeq(s) \in Seq(X)
  BY FlattenType DEF Buffers
<1>2. Three(X, later, later, later) /\ Three(X, FlattenSeq(s), FlattenSeq(s), FlattenSeq(s))
  BY <1>1 DEF Three
<1>3. now \o later \in Seq(X)
  BY DEF Three
<1>4. Three(X, now \o later, now \o later, now \o later)
  BY <1>3 DEF Three
<1>5. FlattenSeq(Cons(later, s)) = later \o FlattenSeq(s)
  BY ONLY <1>2, Buffers(X, s), FlattenHead
<1>6. FlattenSeq(Cons(now \o later, s)) = (now \o later) \o FlattenSeq(s)
  BY ONLY <1>4, Buffers(X, s), FlattenHead
<1>7. (w \o now) \o (later \o FlattenSeq(s)) = w \o ((now \o later) \o FlattenSeq(s))
  BY ONLY Three(X, w, now, later), <1>2, Together
<1> QED
  BY ONLY <1>5, <1>6, <1>7

\* A whole buffer from the front of a queue goes to the end of w.
LEMMA BufferMoves ==
    ASSUME NEW X, NEW w, NEW a, NEW s, Three(X, w, a, a), Buffers(X, s)
    PROVE  (w \o a) \o FlattenSeq(s) = w \o FlattenSeq(Cons(a, s))
<1>1. FlattenSeq(s) \in Seq(X) /\ w \in Seq(X) /\ a \in Seq(X) /\ Three(X, a, a, a)
  BY FlattenType DEF Three, Buffers
<1>2. FlattenSeq(Cons(a, s)) = a \o FlattenSeq(s)
  BY ONLY <1>1, Buffers(X, s), FlattenHead
<1>3. (w \o a) \o FlattenSeq(s) = w \o (a \o FlattenSeq(s))
  BY ONLY <1>1, ConcatAssociative
<1> QED
  BY ONLY <1>2, <1>3

\* The queue without the first j bytes of its front, which go to the end of w.
Without(q, j) == IF j = Len(Head(q)) THEN Tail(q)
                 ELSE [q EXCEPT ![1] = SubSeq(Head(q), j + 1, Len(Head(q)))]

LEMMA FrontLeaves ==
    ASSUME NEW X, NEW w, NEW q, Three(X, w, w, w), Filled(Seq(X), q),
           NEW j \in 1..Len(Head(q))
    PROVE  /\ (w \o SubSeq(Head(q), 1, j)) \o FlattenSeq(Without(q, j)) = w \o FlattenSeq(q)
           /\ Without(q, j) \in Seq(Seq(X))
           /\ w \o SubSeq(Head(q), 1, j) \in Seq(X)
           /\ Len(w \o SubSeq(Head(q), 1, j)) = Len(w) + j
           /\ Len(q) # 1 \/ j < Len(Head(q)) => Without(q, j) # <<>>
<1> DEFINE a == Head(q)
           r == Without(q, j)
           s == Tail(q)
           now == SubSeq(a, 1, j)
           later == SubSeq(a, j + 1, Len(a))
<1>1. /\ a \in Seq(X) /\ s \in Seq(Seq(X)) /\ q = Cons(a, s)
      /\ Len(q) \in Nat /\ Len(s) = Len(q) - 1
  BY ONLY Filled(Seq(X), q), FrontIs
<1>2. w \in Seq(X)
  BY DEF Three
<1>3. now \in Seq(X) /\ later \in Seq(X) /\ Len(now) = j /\ now \o later = a
      /\ (j = Len(a) => now = a)
  <2>1. j \in 1..Len(a) /\ a \in Seq(X)
    BY <1>1
  <2> HIDE DEF a
  <2> QED
    BY ONLY <2>1, Parts
<1>4. w \o now \in Seq(X) /\ Len(w \o now) = Len(w) + j
  <2> HIDE DEF now
  <2> QED
    BY ONLY <1>2, <1>3, ConcatProperties
<1>7. Buffers(X, s)
  BY <1>1 DEF Buffers
<1>5. CASE j = Len(a)
  <2>1. r = s /\ now = a
    BY <1>3, <1>5 DEF Without
  <2> HIDE DEF a, s, now, r
  <2>2. Three(X, w, a, a)
    BY <1>1, <1>2 DEF Three
  <2>3. (w \o a) \o FlattenSeq(s) = w \o FlattenSeq(Cons(a, s))
    BY ONLY <1>7, <2>2, BufferMoves
  <2>4. Len(q) # 1 \/ j < Len(a) => s # <<>>
    BY ONLY <1>1, <1>5
  <2>5. /\ (w \o now) \o FlattenSeq(r) = w \o FlattenSeq(q)
        /\ r \in Seq(Seq(X))
        /\ Len(q) # 1 \/ j < Len(a) => r # <<>>
    BY ONLY <1>1, <2>1, <2>3, <2>4
  <2> QED
    BY ONLY <1>4, <2>5 DEF a, r, now
<1>6. CASE j # Len(a)
  <2>1. r = [q EXCEPT ![1] = later]
    BY <1>6 DEF Without
  <2>2. r = Cons(later, s) /\ r \in Seq(Seq(X)) /\ r # <<>>
    <3> HIDE DEF later, r
    <3> QED
      BY ONLY <1>3, <2>1, Filled(Seq(X), q), FrontChanged DEF s
  <2>3. Three(X, w, now, later)
    BY <1>2, <1>3 DEF Three
  <2> HIDE DEF a, s, now, later, r
  <2>4. (w \o now) \o FlattenSeq(Cons(later, s)) = w \o FlattenSeq(Cons(now \o later, s))
    BY ONLY <1>7, <2>3, BytesMove
  <2> QED
    BY ONLY <1>1, <1>3, <1>4, <2>2, <2>4 DEF a, now, r
<1> QED
  BY <1>5, <1>6

\* What writing does to the buffers: bytes move from the front of the queue
\* to the end of the wire.
LEMMA WriteEffect ==
    ASSUME TypeOK, writeQueue # <<>>, NEW async, WriteSome(async)
    PROVE  /\ wire' \in Seq(Byte) /\ Len(wire') <= WireSize
           /\ writeQueue' \in Seq(Seq(Byte))
           /\ isWritingAsync' \in BOOLEAN
           /\ pc' \in {"idle", "flush"} /\ (pc' = "flush" => writeQueue' # <<>>)
           /\ wire' \o FlattenSeq(writeQueue') = wire \o FlattenSeq(writeQueue)
<1> DEFINE front == Head(writeQueue)
           room == WireSize - Len(wire)
<1>1. /\ Filled(Seq(Byte), writeQueue)
      /\ wire \in Seq(Byte) /\ Len(wire) <= WireSize /\ WireSize \in Nat
      /\ Three(Byte, wire, wire, wire)
  BY SizeAssumption DEF TypeOK, Filled, Three
<1>2. /\ front \in Seq(Byte) /\ Tail(writeQueue) \in Seq(Seq(Byte))
      /\ writeQueue = Cons(front, Tail(writeQueue))
      /\ writeQueue \in Seq(Seq(Byte))
  <2>1. /\ front \in Seq(Byte) /\ Tail(writeQueue) \in Seq(Seq(Byte))
        /\ writeQueue = Cons(front, Tail(writeQueue))
    BY ONLY <1>1, FrontIs
  <2> QED
    BY <1>1, <2>1 DEF Filled
<1>3. Len(front) \in Nat /\ Len(wire) \in Nat
  BY <1>1, <1>2
<1>4. CASE room = 0 \/ Len(front) = 0
  <2>1. /\ isWritingAsync' = (Len(front) # 0) /\ pc' = "idle" /\ wire' = wire
        /\ writeQueue' = IF Len(front) = 0 THEN Tail(writeQueue) ELSE writeQueue
    BY <1>4 DEF WriteSome
  <2>2. FlattenSeq(writeQueue') = FlattenSeq(writeQueue)
    <3>1. CASE Len(front) = 0
      <4> DEFINE s == Tail(writeQueue)
      <4>1. front = <<>> /\ writeQueue' = s
        BY <1>2, <2>1, <3>1
      <4>2. Three(Byte, front, front, front)
        BY <1>2 DEF Three
      <4>3. FlattenSeq(s) \in Seq(Byte)
        BY <1>2, FlattenType
      <4>6. Buffers(Byte, s)
        BY <1>2 DEF Buffers
      <4> HIDE DEF front, s
      <4>4. FlattenSeq(Cons(front, s)) = front \o FlattenSeq(s)
        BY ONLY <4>6, <4>2, FlattenHead
      <4>5. <<>> \o FlattenSeq(s) = FlattenSeq(s)
        BY ONLY <4>3, ConcatEmptySeq
      <4> QED
        BY ONLY <1>2, <4>1, <4>4, <4>5 DEF s
    <3>2. CASE Len(front) # 0
      BY <2>1, <3>2
    <3> QED
      BY <3>1, <3>2
  <2>3. writeQueue' = Tail(writeQueue) \/ writeQueue' = writeQueue
    BY <2>1
  <2> HIDE DEF front, room
  <2> QED
    BY ONLY <1>1, <1>2, <2>1, <2>2, <2>3
<1>5. CASE ~(room = 0 \/ Len(front) = 0)
  <2> DEFINE max == IF room < Len(front) THEN room ELSE Len(front)
  <2>1. PICK j \in 1..max :
           /\ wire' = wire \o SubSeq(front, 1, j)
           /\ writeQueue' = IF j = Len(front) THEN Tail(writeQueue)
                            ELSE [writeQueue EXCEPT ![1] = SubSeq(front, j + 1, Len(front))]
           /\ isWritingAsync' = (j < Len(front))
           /\ pc' = IF j < Len(front) \/ async \/ Len(writeQueue) = 1 THEN "idle" ELSE "flush"
    BY <1>5, Zenon DEF WriteSome
  <2>2. j \in 1..Len(front) /\ j <= room
    <3> HIDE DEF front
    <3> QED
      BY <1>1, <1>3, <1>5
  <2>8. writeQueue' = Without(writeQueue, j)
    BY <2>1 DEF Without
  <2>9. /\ (wire \o SubSeq(front, 1, j)) \o FlattenSeq(Without(writeQueue, j)) = wire \o FlattenSeq(writeQueue)
        /\ Without(writeQueue, j) \in Seq(Seq(Byte))
        /\ wire \o SubSeq(front, 1, j) \in Seq(Byte)
        /\ Len(wire \o SubSeq(front, 1, j)) = Len(wire) + j
        /\ Len(writeQueue) # 1 \/ j < Len(front) => Without(writeQueue, j) # <<>>
    BY ONLY <1>1, <2>2, FrontLeaves
  <2>3. /\ (wire \o SubSeq(front, 1, j)) \o FlattenSeq(writeQueue') = wire \o FlattenSeq(writeQueue)
        /\ writeQueue' \in Seq(Seq(Byte))
        /\ wire \o SubSeq(front, 1, j) \in Seq(Byte)
        /\ Len(wire \o SubSeq(front, 1, j)) = Len(wire) + j
        /\ Len(writeQueue) # 1 \/ j < Len(front) => writeQueue' # <<>>
    BY ONLY <2>8, <2>9
  <2> HIDE DEF front
  <2>4. isWritingAsync' \in BOOLEAN
    <3>1. (j < Len(front)) \in BOOLEAN
      OBVIOUS
    <3> QED
      BY <2>1, <3>1, Zenon
  <2>5. pc' \in {"idle", "flush"} /\ (pc' = "flush" => Len(writeQueue) # 1)
    BY <2>1
  <2>6. Len(wire) + j <= WireSize
    BY ONLY <1>1, <1>3, <2>2
  <2>7. pc' = "flush" => writeQueue' # <<>>
    BY ONLY <2>3, <2>5
  <2> HIDE DEF room, max
  <2> QED
    BY ONLY <2>1, <2>3, <2>4, <2>5, <2>6, <2>7
<1> QED
  BY <1>4, <1>5

\* The end of Update, types.
LEMMA TypedEnd ==
    ASSUME TypeOK, Waiting, EndPack
    PROVE  TypeOK' /\ Waiting'
<1>1. /\ buffer \in Seq(Byte) /\ writeQueue \in Seq(Seq(Byte)) /\ bufferQueue = <<>>
      /\ <<>> \in Seq(Byte) /\ <<>> \in Seq(Packets)
  BY DEF TypeOK, EndPack
<1>2. Append(writeQueue, buffer) \in Seq(Seq(Byte))
  BY <1>1
<1>3. PICK queue \in {Append(writeQueue, buffer), writeQueue} :
          /\ writeQueue' = queue
          /\ buffer' = <<>>
          /\ pc' = IF closed THEN "dropped"
                   ELSE IF isWritingAsync \/ queue = <<>> THEN "idle" ELSE "flush"
  BY Zenon DEF EndPack
<1>4. writeQueue' \in Seq(Seq(Byte))
  BY <1>1, <1>2, <1>3
<1>5. pc' \in {"idle", "flush", "dropped"} /\ (pc' = "flush" => writeQueue' # <<>>)
  BY <1>3
<1>6. UNCHANGED <<size, bufferQueue, isWritingAsync, closed, cramped, wire, readVars>>
  BY DEF EndPack
<1>7. cramped' \subseteq Packets /\ encrypted' \in BOOLEAN
  BY <1>6, FlagsStay DEF readVars
<1> QED
  BY <1>1, <1>3, <1>4, <1>5, <1>6, <1>7 DEF TypeOK, Waiting, Sent, readVars

\* Writing on an open connection, by Update and by the completion handler.
Writing == \E async \in BOOLEAN : writeQueue # <<>> /\ WriteSome(async)

LEMMA TypedFails ==
    ASSUME TypeOK, Waiting, writeQueue # <<>>, WriteFails,
           UNCHANGED <<size, bufferQueue, buffer, closed, cramped, readVars>>
    PROVE  TypeOK' /\ Waiting'
<1>1. Filled(Seq(Byte), writeQueue)
  BY DEF TypeOK, Filled
<1>2. Tail(writeQueue) \in Seq(Seq(Byte))
  BY ONLY <1>1, FrontIs
<1>3. isWritingAsync' \in BOOLEAN
  BY Zenon DEF WriteFails
<1>4. cramped' \subseteq Packets /\ encrypted' \in BOOLEAN
  BY FlagsStay DEF readVars
<1> QED
  BY <1>2, <1>3, <1>4 DEF TypeOK, Waiting, Sent, WriteFails, readVars

LEMMA TypedWriting ==
    ASSUME TypeOK, Waiting, Writing, UNCHANGED <<size, bufferQueue, buffer, closed, cramped, readVars>>
    PROVE  TypeOK' /\ Waiting'
<1>1. PICK async \in BOOLEAN : writeQueue # <<>> /\ WriteSome(async)
  BY DEF Writing
<1>2. /\ wire' \in Seq(Byte) /\ Len(wire') <= WireSize
      /\ writeQueue' \in Seq(Seq(Byte))
      /\ isWritingAsync' \in BOOLEAN
      /\ pc' \in {"idle", "flush"} /\ (pc' = "flush" => writeQueue' # <<>>)
  BY <1>1, WriteEffect
<1>3. cramped' \subseteq Packets /\ encrypted' \in BOOLEAN
  BY FlagsStay DEF readVars
<1> QED
  BY <1>2, <1>3 DEF TypeOK, Waiting, Sent, readVars

\* What Update and the completion handler do: write, fail to, or nothing.
LEMMA WriteSteps ==
    ASSUME Waiting, Flush \/ WriteHandlerWrapper
    PROVE  /\ UNCHANGED <<size, bufferQueue, buffer, closed, cramped, readVars>>
           /\ \/ ~closed /\ Writing
              \/ closed /\ writeQueue # <<>> /\ WriteFails
              \/ isWritingAsync' = FALSE /\ UNCHANGED <<pc, writeQueue, wire>>
<1>1. CASE Flush
  <2>1. writeQueue # <<>>
    BY <1>1 DEF Flush, Waiting
  <2> QED
    BY <1>1, <2>1 DEF Flush, Writing
<1>2. CASE WriteHandlerWrapper
  BY <1>2 DEF WriteHandlerWrapper, Writing
<1> QED
  BY <1>1, <1>2

LEMMA TypedRead ==
    ASSUME TypeOK, Waiting, ReadHandler
    PROVE  TypeOK' /\ Waiting'
<1>1. PICK j \in 1..Len(wire) :
          /\ reader' = Fed(j).state
          /\ headerBuffer' = Fed(j).header
          /\ packetBuffer' = Fed(j).payload
          /\ delivered' = Fed(j).out
          /\ wire' = SubSeq(wire, j + 1, Len(wire))
  BY DEF ReadHandler
<1>2. wire \in Seq(Byte) /\ Len(wire) <= WireSize /\ Len(wire) \in Nat /\ j \in 0..Len(wire)
  BY DEF TypeOK
<1>3. Fed(j) \in PeerRecord
  BY <1>2, FedType
<1>4. wire' \in Seq(Byte) /\ Len(wire') <= WireSize
  <2>1. SubSeq(wire, j + 1, Len(wire)) \in Seq(Byte)
        /\ Len(SubSeq(wire, j + 1, Len(wire))) = Len(wire) - j
    BY <1>2
  <2> QED
    BY <1>1, <1>2, <2>1, SizeAssumption
<1>5. /\ reader' \in {"reading", "stopped", "garbled", "closed"}
      /\ headerBuffer' \in Seq(Byte) /\ Len(headerBuffer') <= HeaderSize
      /\ packetBuffer' \in Seq(Byte)
      /\ delivered' \in Seq(Packets \cup {Torn})
  BY <1>1, <1>3 DEF PeerRecord
<1>6. UNCHANGED <<writeVars, encrypted>>
  BY DEF ReadHandler
<1>7. cramped' \subseteq Packets /\ encrypted' \in BOOLEAN
  BY <1>6, FlagsStay DEF writeVars
<1> QED
  BY <1>4, <1>5, <1>6, <1>7 DEF TypeOK, Waiting, Sent, writeVars

LEMMA TypeStep ==
    ASSUME TypeOK, Waiting, [Next]_vars
    PROVE  TypeOK' /\ Waiting'
<1>1. ASSUME NEW s \in Sizes, SendPacket(s)
      PROVE  TypeOK' /\ Waiting'
  BY <1>1, TypedSend
<1>2. CASE BeginUpdate
  <2>1. cramped' \subseteq Packets /\ encrypted' \in BOOLEAN
    BY <1>2, FlagsStay DEF BeginUpdate, readVars
  <2> QED
    BY <1>2, <2>1 DEF BeginUpdate, TypeOK, Waiting, Sent, readVars
<1>3. CASE Flush \/ WriteHandlerWrapper
  <2>1. UNCHANGED <<size, bufferQueue, buffer, closed, cramped, readVars>>
    BY <1>3, WriteSteps
  <2>2. \/ Writing
        \/ writeQueue # <<>> /\ WriteFails
        \/ isWritingAsync' = FALSE /\ UNCHANGED <<pc, writeQueue, wire>>
    BY <1>3, WriteSteps
  <2>3. CASE isWritingAsync' = FALSE /\ UNCHANGED <<pc, writeQueue, wire>>
    <3>1. isWritingAsync' \in BOOLEAN
      BY <2>3
    <3>2. cramped' \subseteq Packets /\ encrypted' \in BOOLEAN
      BY <2>1, FlagsStay DEF readVars
    <3> QED
      BY <2>1, <2>3, <3>1, <3>2 DEF TypeOK, Waiting, Sent, readVars
  <2> QED
    BY <2>1, <2>2, <2>3, TypedWriting, TypedFails
<1>4. CASE CloseSocket
  <2>1. closed' \in BOOLEAN
    BY <1>4, Zenon DEF CloseSocket
  <2>2. cramped' \subseteq Packets /\ encrypted' \in BOOLEAN
    BY <1>4, FlagsStay DEF CloseSocket, readVars
  <2> QED
    BY <1>4, <2>1, <2>2 DEF CloseSocket, TypeOK, Waiting, Sent, readVars
<1>5. CASE ReadFails
  BY <1>5 DEF ReadFails, TypeOK, Waiting, Sent, writeVars
<1>6. CASE UNCHANGED vars
  BY <1>6 DEF vars, writeVars, readVars, TypeOK, Waiting, Sent
<1> QED
  BY <1>1, <1>2, <1>3, <1>4, <1>5, <1>6, TypedPack, TypedEnd, TypedRead DEF Next, Update
-----------------------------------------------------------------------------
(* Order *)

\* What has left the buffer of Update and was not read yet.
Written == wire \o FlattenSeq(writeQueue)

\* The peer is behind the packets of o, the buffer holds those of i, and the
\* packets that wait come after these.
Ordered(o, i) ==
    /\ Ahead(Peer, Written, o, ToSet(i) \cup ToSet(bufferQueue))
    /\ buffer = StreamOf(i)
    /\ IsInjective(i) /\ IsInjective(bufferQueue)
    /\ ToSet(i) \cap ToSet(bufferQueue) = {}

\* Open connections keep the bytes of packets together.
Order == ~closed /\ reader = "reading" => \E o, i \in Seq(Sent) : Ordered(o, i)

\* The inductive invariant of NothingLost.
IInv == TypeOK /\ Waiting /\ Order

\* A stream is the same as long as the sizes are.
LEMMA SameStream ==
    ASSUME size' = size, NEW ns
    PROVE  StreamOf(ns)' = StreamOf(ns)
BY DEF StreamOf, BytesOf

\* To show Ordered of the next state.
LEMMA OrderedNext ==
    ASSUME size' = size, NEW o, NEW i,
           Ahead(Peer', Written', o, ToSet(i) \cup ToSet(bufferQueue')),
           buffer' = StreamOf(i), IsInjective(i), IsInjective(bufferQueue'),
           ToSet(i) \cap ToSet(bufferQueue') = {}
    PROVE  Ordered(o, i)'
<1>1. StreamOf(i)' = StreamOf(i) /\ StreamOf(o)' = StreamOf(o)
  BY SameStream
<1>2. Ahead(Peer, Written, o, ToSet(i) \cup ToSet(bufferQueue))'
  BY <1>1 DEF Ahead, Sent
<1> QED
  BY <1>1, <1>2 DEF Ordered

\* What the buffer holds goes on its way behind all that was written.
LEMMA Ship ==
    ASSUME Sized, NEW p \in PeerRecord, NEW w \in Seq(Byte), NEW o \in Seq(Sent),
           NEW i \in Seq(Sent), NEW rest, Ahead(p, w, o, ToSet(i) \cup rest),
           IsInjective(i), ToSet(i) \cap rest = {}
    PROVE  Ahead(p, w \o StreamOf(i), o \o i, rest)
<1>1. /\ p.header \in Seq(Byte) /\ p.payload \in Seq(Byte)
      /\ p.header \o p.payload \in Seq(Byte)
  BY DEF PeerRecord
<1>2. StreamOf(i) \in Seq(Byte) /\ StreamOf(o \o i) = StreamOf(o) \o StreamOf(i)
  BY StreamType, StreamConcat
<1>3. p.header \o p.payload \o (w \o StreamOf(i)) = StreamOf(o \o i)
  <2> DEFINE s == p.header \o p.payload
             t == StreamOf(i)
  <2>1. s \in Seq(Byte) /\ t \in Seq(Byte)
    BY <1>1, <1>2
  <2>3. s \o w = StreamOf(o)
    BY DEF Ahead
  <2> HIDE DEF s, t
  <2>2. (s \o w) \o t = s \o (w \o t)
    BY ONLY <2>1, w \in Seq(Byte), ConcatAssociative
  <2> QED
    BY <1>2, <2>2, <2>3 DEF s, t
<1>4. ToSet(o \o i) = ToSet(o) \cup ToSet(i)
  BY ConcatSet
<1>5. IsInjective(o \o i)
  <2>1. ToSet(o) \cap ToSet(i) = {}
    BY DEF Ahead
  <2> QED
    BY <2>1, ConcatInjective DEF Ahead
<1>6. p.header # <<>> => (o \o i)[1] = o[1]
  <2> SUFFICES ASSUME p.header # <<>>
               PROVE  (o \o i)[1] = o[1]
    OBVIOUS
  <2>1. o # <<>>
    <3> SUFFICES ASSUME o = <<>>
                 PROVE  FALSE
      OBVIOUS
    <3>1. p.header \o p.payload \o w = <<>>
      BY StreamEmpty DEF Ahead
    <3>2. Len(p.header \o p.payload \o w) = Len(p.header) + Len(p.payload) + Len(w)
      BY <1>1
    <3>3. Len(p.header) > 0
      BY <1>1
    <3> QED
      BY <1>1, <3>1, <3>2, <3>3
  <2> QED
    BY <2>1
<1> QED
  <2>1. ToSet(o \o i) \cap rest = {} /\ ToSet(o \o i) \cup rest = Sent \ ToSet(p.out)
    BY <1>4 DEF Ahead
  <2> QED
    BY <1>3, <1>5, <1>6, <2>1 DEF Ahead

\* A packet more is sent, behind all others.
LEMMA OrderSend ==
    ASSUME TypeOK, Waiting, NEW s \in Sizes, SendPacket(s),
           NEW o \in Seq(Sent), NEW i \in Seq(Sent), Ordered(o, i)
    PROVE  o \in Seq(Sent') /\ i \in Seq(Sent') /\ Ordered(o, i)'
<1> DEFINE n == Len(size) + 1
<1>1. /\ Len(size) \in Nat /\ size \in Seq(Sizes) /\ size' = Append(size, s)
      /\ bufferQueue' = Append(bufferQueue, n) /\ bufferQueue \in Seq(Sent)
      /\ UNCHANGED <<buffer, writeQueue, wire, readVars>>
  BY DEF SendPacket, TypeOK, Waiting
<1>2. Sent' = Sent \cup {n} /\ n \notin Sent /\ \A m \in Sent : size'[m] = size[m]
  BY <1>1 DEF Sent
<1>3. ASSUME NEW ns \in Seq(Sent)
      PROVE  StreamOf(ns)' = StreamOf(ns)
  <2>1. \A k \in 1..Len(ns) : ns[k] \in Sent
    OBVIOUS
  <2>2. \A m \in Sent : BytesOf(m)' = BytesOf(m)
    BY <1>2 DEF BytesOf
  <2>3. [k \in 1..Len(ns) |-> BytesOf(ns[k])]' = [k \in 1..Len(ns) |-> BytesOf(ns[k])]
    BY <2>1, <2>2
  <2> QED
    BY <2>3 DEF StreamOf
<1>4. Peer' = Peer /\ Written' = Written
  BY <1>1 DEF Peer, Written, readVars
<1>5. /\ IsInjective(bufferQueue')
      /\ ToSet(bufferQueue') = ToSet(bufferQueue) \cup {n}
  <2>1. bufferQueue' = bufferQueue \o <<n>> /\ <<n>> \in Seq(Sent')
        /\ bufferQueue \in Seq(Sent')
    BY <1>1, <1>2
  <2>2. ToSet(<<n>>) = {n} /\ IsInjective(<<n>>)
    <3>1. \A x : x \in ToSet(<<n>>) <=> \E k \in 1..1 : <<n>>[k] = x
      BY <2>1, InSet
    <3>2. IsInjective(<<n>>) <=> \A k, l \in 1..1 : <<n>>[k] = <<n>>[l] => k = l
      BY <2>1, InjectiveIs
    <3> QED
      BY <3>1, <3>2
  <2>3. n \notin ToSet(bufferQueue)
    BY <1>1, <1>2, InSet
  <2>4. ToSet(bufferQueue \o <<n>>) = ToSet(bufferQueue) \cup ToSet(<<n>>)
    BY <2>1, ConcatSet
  <2>6. IsInjective(bufferQueue) /\ ToSet(bufferQueue) \cap ToSet(<<n>>) = {}
    BY <2>2, <2>3 DEF Ordered
  <2>5. IsInjective(bufferQueue \o <<n>>)
    BY ONLY <2>1, <2>2, <2>6, ConcatInjective
  <2> QED
    BY <2>1, <2>2, <2>4, <2>5
<1>6. n \notin ToSet(i) /\ n \notin ToSet(o) /\ n \notin ToSet(Peer.out)
  BY <1>2, InSet DEF Ordered, Ahead
<1>7. Ahead(Peer, Written, o, ToSet(i) \cup ToSet(bufferQueue))'
  <2> DEFINE rest == ToSet(i) \cup ToSet(bufferQueue)
  <2>1. Ahead(Peer, Written, o, rest)
    BY DEF Ordered
  <2>2. rest' = rest \cup {n}
    BY <1>5
  <2>3. StreamOf(o)' = StreamOf(o) /\ Peer.out \in Seq(Sent')
    BY <1>2, <1>3, <2>1 DEF Ahead
  <2>4. ToSet(o) \cap rest' = {} /\ ToSet(o) \cup rest' = Sent' \ ToSet(Peer.out)
    BY <1>2, <1>6, <2>1, <2>2 DEF Ahead
  <2>5. Peer.header # <<>> => size'[o[1]] = size[o[1]]
    <3> SUFFICES ASSUME Peer.header # <<>>
                 PROVE  size'[o[1]] = size[o[1]]
      OBVIOUS
    <3>1. o # <<>>
      <4> SUFFICES ASSUME o = <<>>
                   PROVE  FALSE
        OBVIOUS
      <4>1. headerBuffer \o packetBuffer \o Written = <<>>
        BY <2>1, StreamEmpty DEF Ahead, Peer
      <4>2. headerBuffer \in Seq(Byte) /\ packetBuffer \in Seq(Byte) /\ Written \in Seq(Byte)
        BY FlattenType DEF TypeOK, Written
      <4>3. headerBuffer # <<>>
        BY DEF Peer
      <4> QED
        BY ONLY <4>1, <4>2, <4>3
    <3> QED
      BY <1>2, <3>1
  <2> HIDE DEF rest
  <2>6. Ahead(Peer, Written, o, rest)'
    BY <1>4, <2>1, <2>3, <2>4, <2>5 DEF Ahead
  <2> QED
    BY <2>6 DEF rest
<1>8. StreamOf(i)' = StreamOf(i)
  BY <1>3
<1>9. ToSet(i) \cap ToSet(bufferQueue') = {}
  BY <1>5, <1>6 DEF Ordered
<1>10. o \in Seq(Sent') /\ i \in Seq(Sent')
  BY <1>2
<1> QED
  BY <1>1, <1>5, <1>7, <1>8, <1>9, <1>10 DEF Ordered

\* A sequence of one packet.
LEMMA One ==
    ASSUME NEW n \in Sent
    PROVE  <<n>> \in Seq(Sent) /\ ToSet(<<n>>) = {n} /\ IsInjective(<<n>>)
<1>1. <<n>> \in Seq(Sent) /\ Len(<<n>>) = 1 /\ <<n>>[1] = n
  OBVIOUS
<1>2. \A x : x \in ToSet(<<n>>) <=> \E k \in 1..1 : <<n>>[k] = x
  BY <1>1, InSet
<1>3. IsInjective(<<n>>) <=> \A k, l \in 1..1 : <<n>>[k] = <<n>>[l] => k = l
  BY <1>1, InjectiveIs
<1> QED
  BY <1>1, <1>2, <1>3

\* Of a sequence without repetition the first is not among the others.
LEMMA Taken ==
    ASSUME NEW q \in Seq(Sent), q # <<>>, IsInjective(q)
    PROVE  /\ Head(q) \in Sent /\ Tail(q) \in Seq(Sent)
           /\ ToSet(q) = {Head(q)} \cup ToSet(Tail(q))
           /\ Head(q) \notin ToSet(Tail(q))
           /\ IsInjective(Tail(q))
<1> DEFINE n == Head(q)
           s == Tail(q)
<1>1. n \in Sent /\ s \in Seq(Sent) /\ q = <<n>> \o s
  OBVIOUS
<1> DEFINE m == <<n>>
<1>2. m \in Seq(Sent) /\ ToSet(m) = {n} /\ IsInjective(m)
  BY <1>1, One
<1>5. q = m \o s
  BY <1>1
<1> HIDE DEF n, s, m
<1>3. ToSet(m \o s) = ToSet(m) \cup ToSet(s)
  BY ONLY <1>1, <1>2, ConcatSet
<1>4. IsInjective(m \o s) => IsInjective(s) /\ ToSet(m) \cap ToSet(s) = {}
  BY ONLY <1>1, <1>2, ConcatInjective
<1> QED
  BY <1>1, <1>2, <1>3, <1>4, <1>5 DEF n, s

\* Ordered, of any buffers: what was written, what the buffer holds, what waits.
Line(w, o, i, b, q) ==
    /\ Ahead(Peer, w, o, ToSet(i) \cup q)
    /\ b = StreamOf(i)
    /\ IsInjective(i)
    /\ ToSet(i) \cap q = {}

\* The buffer is sent on its way.
LEMMA LineShip ==
    ASSUME TypeOK, NEW w \in Seq(Byte), NEW o \in Seq(Sent), NEW i \in Seq(Sent),
           NEW b, NEW q, Line(w, o, i, b, q)
    PROVE  o \o i \in Seq(Sent) /\ Line(w \o b, o \o i, <<>>, <<>>, q)
<1>1. Sized /\ Peer \in PeerRecord
  BY PeerType DEF Sized, TypeOK
<1>2. Ahead(Peer, w \o StreamOf(i), o \o i, q)
  BY <1>1, Ship DEF Line
<1>3. <<>> \in Seq(Sent) /\ ToSet(<<>>) = {} /\ IsInjective(<<>>)
  <2>1. <<>> \in Seq(Sent)
    OBVIOUS
  <2>2. ToSet(<<>>) = {}
    BY DEF ToSet
  <2>3. IsInjective(<<>>)
    BY DEF IsInjective
  <2> QED
    BY <2>1, <2>2, <2>3
<1>4. ToSet(<<>>) \cup q = q
  BY <1>3
<1>5. o \o i \in Seq(Sent)
  OBVIOUS
<1> DEFINE none == <<>>
<1>6. /\ ToSet(none) \cup q = q /\ ToSet(none) \cap q = {}
      /\ IsInjective(none) /\ none = StreamOf(none)
  BY <1>3, <1>4, StreamEmpty
<1>7. b = StreamOf(i)
  BY DEF Line
<1> HIDE DEF none
<1>8. Line(w \o b, o \o i, none, none, q)
  BY ONLY <1>2, <1>6, <1>7 DEF Line
<1> QED
  BY <1>5, <1>8 DEF none

\* A packet that waited is added to the buffer.
LEMMA LineAdd ==
    ASSUME TypeOK, NEW w \in Seq(Byte), NEW o \in Seq(Sent), NEW i \in Seq(Sent),
           NEW b, NEW q, NEW n \in Sent, n \notin q, Line(w, o, i, b, {n} \cup q)
    PROVE  i \o <<n>> \in Seq(Sent) /\ Line(w, o, i \o <<n>>, b \o BytesOf(n), q)
<1> DEFINE m == <<n>>
<1>1. Sized
  BY DEF Sized, TypeOK
<1>2. m \in Seq(Sent) /\ ToSet(m) = {n} /\ IsInjective(m)
  BY One
<1> HIDE DEF m
<1>3. StreamOf(i \o m) = b \o BytesOf(n)
  <2>1. StreamOf(m) = BytesOf(n)
    BY <1>1, StreamOne DEF m
  <2>2. StreamOf(i \o m) = StreamOf(i) \o StreamOf(m)
    BY ONLY <1>1, <1>2, i \in Seq(Sent), StreamConcat
  <2> QED
    BY <2>1, <2>2 DEF Line
<1>4. ToSet(i \o m) = ToSet(i) \cup {n}
  BY ONLY <1>2, i \in Seq(Sent), ConcatSet
<1>5. IsInjective(i \o m)
  <2>1. IsInjective(i) /\ ToSet(i) \cap ToSet(m) = {}
    BY <1>2 DEF Line
  <2> QED
    BY ONLY <1>2, <2>1, i \in Seq(Sent), ConcatInjective
<1>6. ToSet(i \o m) \cup q = ToSet(i) \cup ({n} \cup q)
  BY <1>4
<1>7. ToSet(i \o m) \cap q = {}
  BY <1>4 DEF Line
<1>8. i \o m \in Seq(Sent)
  BY <1>2
<1>9. Ahead(Peer, w, o, ToSet(i \o m) \cup q)
  BY <1>6 DEF Line
<1>10. Line(w, o, i \o m, b \o BytesOf(n), q)
  BY ONLY <1>3, <1>5, <1>7, <1>9 DEF Line
<1> QED
  BY <1>8, <1>10 DEF m

\* A packet that waited is sent on its way, before the buffer.
LEMMA LineOwn ==
    ASSUME TypeOK, NEW w \in Seq(Byte), NEW o \in Seq(Sent), NEW i \in Seq(Sent),
           NEW b, NEW q, NEW n \in Sent, n \notin q, Line(w, o, i, b, {n} \cup q)
    PROVE  o \o <<n>> \in Seq(Sent) /\ Line(w \o BytesOf(n), o \o <<n>>, i, b, q)
<1> DEFINE m == <<n>>
<1>1. Sized /\ Peer \in PeerRecord
  BY PeerType DEF Sized, TypeOK
<1>2. m \in Seq(Sent) /\ ToSet(m) = {n} /\ IsInjective(m)
  BY One
<1> HIDE DEF m
<1> DEFINE rest == ToSet(i) \cup q
<1>3. ToSet(i) \cup ({n} \cup q) = ToSet(m) \cup rest /\ ToSet(m) \cap rest = {}
  BY <1>2 DEF Line
<1>4. Ahead(Peer, w, o, ToSet(m) \cup rest)
  BY <1>3 DEF Line
<1> HIDE DEF rest
<1>5. Ahead(Peer, w \o StreamOf(m), o \o m, rest)
  BY <1>1, <1>2, <1>3, <1>4, Ship
<1>6. o \o m \in Seq(Sent)
  BY <1>2
<1>7. StreamOf(m) = BytesOf(n)
  BY <1>1, StreamOne DEF m
<1>8. Line(w \o BytesOf(n), o \o m, i, b, q)
  BY <1>3, <1>5, <1>7 DEF Line, rest
<1> QED
  BY <1>6, <1>8 DEF m

\* A buffer queued comes after all that was written.
LEMMA WrittenMore ==
    ASSUME NEW X, NEW w \in Seq(X), NEW q, Buffers(X, q), NEW x \in Seq(X)
    PROVE  /\ w \o FlattenSeq(Append(q, x)) = (w \o FlattenSeq(q)) \o x
           /\ Buffers(X, Append(q, x))
           /\ w \o FlattenSeq(q) \in Seq(X)
<1>1. FlattenSeq(q) \in Seq(X)
  BY FlattenType DEF Buffers
<1>2. FlattenSeq(Append(q, x)) = FlattenSeq(q) \o x
  BY FlattenAppend DEF Buffers
<1> DEFINE f == FlattenSeq(q)
<1> HIDE DEF f
<1>3. (w \o f) \o x = w \o (f \o x)
  <2>1. f \in Seq(X)
    BY <1>1 DEF f
  <2> QED
    BY ONLY <2>1, w \in Seq(X), x \in Seq(X), ConcatAssociative
<1>4. Buffers(X, Append(q, x))
  BY DEF Buffers
<1>5. w \o f \in Seq(X)
  BY <1>1 DEF f
<1> QED
  BY <1>2, <1>3, <1>4, <1>5 DEF f

\* To show Ordered of the next state, by Line.
LEMMA LineNext ==
    ASSUME UNCHANGED <<size, readVars>>, NEW o, NEW i,
           Line(Written', o, i, buffer', ToSet(bufferQueue')), IsInjective(bufferQueue')
    PROVE  Ordered(o, i)'
<1>1. Peer' = Peer
  BY DEF Peer, readVars
<1>2. /\ Ahead(Peer', Written', o, ToSet(i) \cup ToSet(bufferQueue'))
      /\ buffer' = StreamOf(i) /\ IsInjective(i)
      /\ ToSet(i) \cap ToSet(bufferQueue') = {}
  BY <1>1 DEF Line
<1> QED
  BY <1>2, OrderedNext

\* The packets of o, i and q in a row are those of s, t and r.
Same(s, t, r, o, i, q) == (s \o t) \o r = (o \o i) \o q

\* The packet that is packed goes from the front of the row behind it to its end.
LEMMA SameTaken ==
    ASSUME NEW X, NEW q \in Seq(X), q # <<>>, NEW s \in Seq(X)
    PROVE  (s \o <<Head(q)>>) \o Tail(q) = s \o q
<1> DEFINE m == <<Head(q)>>
           t == Tail(q)
<1>1. m \in Seq(X) /\ t \in Seq(X)
  OBVIOUS
<1>2. q = m \o t
  OBVIOUS
<1> HIDE DEF m, t
<1>3. (s \o m) \o t = s \o (m \o t)
  BY ONLY <1>1, s \in Seq(X), ConcatAssociative
<1> QED
  BY <1>2, <1>3 DEF m, t

\* A stream without bytes is one of no packets.
LEMMA NoBytes ==
    ASSUME Sized, NEW ns \in Seq(Sent), StreamOf(ns) = <<>>
    PROVE  ns = <<>>
<1> SUFFICES ASSUME ns # <<>>
             PROVE  FALSE
  OBVIOUS
<1>1. ns[1] \in Sent /\ Tail(ns) \in Seq(Sent) /\ BytesOf(ns[1]) \o StreamOf(Tail(ns)) = <<>>
  BY StreamFirst
<1> DEFINE a == BytesOf(ns[1])
           b == StreamOf(Tail(ns))
<1>2. a \in Seq(Byte) /\ b \in Seq(Byte) /\ Len(a) > 0
  BY <1>1, BytesAre, StreamType
<1>3. a \o b = <<>>
  BY <1>1
<1> HIDE DEF a, b
<1> QED
  BY ONLY <1>2, <1>3

\* Line, and the packets of o and i in a row are those of all.
InLine(w, o, i, b, q, all) == o \in Seq(Sent) /\ i \in Seq(Sent) /\ Line(w, o, i, b, q) /\ o \o i = all

\* The buffers after a packet that waited is packed.  If it is Roomy the packets
\* are where they were in the row.
LEMMA OrderPack ==
    ASSUME TypeOK, Waiting, Pack, NEW o \in Seq(Sent), NEW i \in Seq(Sent), Ordered(o, i)
    PROVE  \E s, t \in Seq(Sent) :
              /\ Ordered(s, t)'
              /\ Roomy => Same(s, t, bufferQueue', o, i, bufferQueue)
<1> DEFINE n == Head(bufferQueue)
           q == ToSet(Tail(bufferQueue))
           bytes == BytesOf(n)
           all == o \o i
           left == SendBufferSize - Len(buffer)
<1>1. /\ n \in Sent /\ n \notin q /\ ToSet(bufferQueue) = {n} \cup q
      /\ IsInjective(Tail(bufferQueue)) /\ Tail(bufferQueue) \in Seq(Sent)
      /\ bufferQueue \in Seq(Sent) /\ bufferQueue # <<>>
  <2>1. bufferQueue \in Seq(Sent) /\ bufferQueue # <<>> /\ IsInjective(bufferQueue)
    BY DEF Waiting, Pack, Ordered
  <2> QED
    BY <2>1, Taken
<1>2. bytes \in Seq(Byte)
  BY <1>1, BytesAre DEF TypeOK, Sized
<1>3. PICK full \in BOOLEAN, fits \in BOOLEAN :
        /\ full <=> left < size[n]
        /\ ~full => (fits <=> left >= size[n] + HeaderSize)
        /\ LET queue == IF full THEN Append(writeQueue, buffer) ELSE writeQueue
               rest == IF full THEN <<>> ELSE buffer
           IN  IF fits
               THEN buffer' = rest \o bytes /\ writeQueue' = queue
               ELSE buffer' = rest /\ writeQueue' = Append(queue, bytes)
  <2> DEFINE full == left < size[n]
             rest == IF full THEN <<>> ELSE buffer
             fits == SendBufferSize - Len(rest) >= size[n] + HeaderSize
  <2>1. full \in BOOLEAN /\ fits \in BOOLEAN
    OBVIOUS
  <2>2. LET queue == IF full THEN Append(writeQueue, buffer) ELSE writeQueue
        IN  IF fits
            THEN buffer' = rest \o bytes /\ writeQueue' = queue
            ELSE buffer' = rest /\ writeQueue' = Append(queue, bytes)
    BY Zenon DEF Pack
  <2>3. ~full => (fits <=> left >= size[n] + HeaderSize)
    <3>1. ~full => rest = buffer
      OBVIOUS
    <3> QED
      BY <3>1
  <2>4. full <=> left < size[n]
    OBVIOUS
  <2> HIDE DEF full, fits, bytes, left, n
  <2> QED
    BY <2>1, <2>2, <2>3, <2>4, Zenon
<1>4. /\ UNCHANGED <<size, readVars, wire>> /\ bufferQueue' = Tail(bufferQueue) /\ pc = "pack"
  BY DEF Pack
<1>5. /\ wire \in Seq(Byte) /\ Buffers(Byte, writeQueue) /\ buffer \in Seq(Byte) /\ Sized
  BY DEF TypeOK, Buffers, Sized
<1>16. Roomy /\ ~full /\ ~fits => buffer = <<>>
  <2> SUFFICES ASSUME Roomy, ~full, ~fits, buffer # <<>>
               PROVE  FALSE
    OBVIOUS
  <2>1. size[n] > left \/ size[n] + HeaderSize <= left
    BY <1>1, <1>4 DEF Roomy
  <2>2. ~(left < size[n]) /\ ~(left >= size[n] + HeaderSize)
    BY <1>3
  <2>3. size[n] \in Nat /\ HeaderSize \in Nat /\ left \in Int
    <3>1. size[n] \in Nat
      BY <1>1, <1>5, BytesAre
    <3> QED
      BY <1>5, <3>1, SizeAssumption
  <2> HIDE DEF n, left
  <2> QED
    BY ONLY <2>1, <2>2, <2>3
<1> DEFINE queue == IF full THEN Append(writeQueue, buffer) ELSE writeQueue
           rest == IF full THEN <<>> ELSE buffer
           w == wire \o FlattenSeq(queue)
<1> HIDE DEF n, q, bytes, left
<1>6. Line(Written, o, i, buffer, {n} \cup q)
  BY <1>1 DEF Ordered, Line
<1>17. all \in Seq(Sent)
  OBVIOUS
<1>7. /\ w \in Seq(Byte) /\ Buffers(Byte, queue)
      /\ \E s, t : /\ InLine(w, s, t, rest, {n} \cup q, all)
                   /\ Roomy /\ ~fits => t = <<>>
  <2>1. CASE full
    <3>1. /\ w = Written \o buffer /\ Written \in Seq(Byte) /\ Buffers(Byte, queue)
      <4>1. /\ wire \o FlattenSeq(Append(writeQueue, buffer)) = (wire \o FlattenSeq(writeQueue)) \o buffer
            /\ Buffers(Byte, Append(writeQueue, buffer))
            /\ wire \o FlattenSeq(writeQueue) \in Seq(Byte)
        BY ONLY <1>5, WrittenMore
      <4>2. queue = Append(writeQueue, buffer)
        BY <2>1
      <4> HIDE DEF queue
      <4> QED
        BY ONLY <4>1, <4>2 DEF Written, w
    <3>2. Line(Written \o buffer, all, <<>>, <<>>, {n} \cup q)
      BY <1>6, <3>1, LineShip
    <3>3. <<>> \in Seq(Sent) /\ rest = <<>> /\ Written \o buffer \in Seq(Byte)
      BY <1>5, <2>1, <3>1
    <3> HIDE DEF w, rest, queue, all
    <3>4. all \o <<>> = all
      BY <1>17
    <3>5. InLine(w, all, <<>>, rest, {n} \cup q, all)
      BY <1>17, <3>1, <3>2, <3>3, <3>4 DEF InLine
    <3> QED
      BY <3>1, <3>3, <3>5
  <2>2. CASE ~full
    <3>1. w = Written /\ Written \in Seq(Byte) /\ Buffers(Byte, queue) /\ rest = buffer
      BY <1>5, <2>2, WrittenMore DEF Written
    <3> HIDE DEF w, rest, queue
    <3>2. InLine(w, o, i, rest, {n} \cup q, all)
      BY <1>6, <3>1 DEF InLine
    <3>3. Roomy /\ ~fits => i = <<>>
      <4>1. buffer = StreamOf(i)
        BY DEF Ordered
      <4> QED
        BY <1>5, <1>16, <2>2, <4>1, NoBytes
    <3> QED
      BY <3>1, <3>2, <3>3
  <2> QED
    BY <2>1, <2>2
<1>8. IF fits THEN buffer' = rest \o bytes /\ writeQueue' = queue
              ELSE buffer' = rest /\ writeQueue' = Append(queue, bytes)
  BY <1>3
<1>9. Written' = wire \o FlattenSeq(writeQueue')
  BY <1>4 DEF Written
<1> HIDE DEF rest, queue, all
<1>10. PICK s, t : /\ InLine(w, s, t, rest, {n} \cup q, all)
                   /\ Roomy /\ ~fits => t = <<>>
  BY <1>7
<1>11. s \in Seq(Sent) /\ t \in Seq(Sent) /\ Line(w, s, t, rest, {n} \cup q) /\ s \o t = all
  BY <1>10 DEF InLine
<1> DEFINE m == <<n>>
<1>18. m \in Seq(Sent)
  BY <1>1
<1>12. \E u, v \in Seq(Sent) : /\ Line(Written', u, v, buffer', q)
                               /\ Roomy => u \o v = all \o m
  <2>1. CASE fits
    <3>1. buffer' = rest \o bytes /\ Written' = w
      BY <1>8, <1>9, <2>1
    <3> HIDE DEF w
    <3>2. t \o m \in Seq(Sent) /\ Line(w, s, t \o m, rest \o bytes, q)
      BY <1>1, <1>7, <1>11, LineAdd DEF bytes
    <3> HIDE DEF m
    <3>3. s \o (t \o m) = (s \o t) \o m
      <4>1. Three(Sent, s, t, m)
        BY <1>11, <1>18 DEF Three
      <4> QED
        BY ONLY <4>1, Reassociated
    <3> QED
      BY <1>11, <3>1, <3>2, <3>3
  <2>2. CASE ~fits
    <3>1. buffer' = rest /\ Written' = w \o bytes
      <4>2. Buffers(Byte, queue) /\ wire \in Seq(Byte)
        BY <1>5, <1>7
      <4>1. /\ wire \o FlattenSeq(Append(queue, bytes)) = (wire \o FlattenSeq(queue)) \o bytes
            /\ Buffers(Byte, Append(queue, bytes))
            /\ wire \o FlattenSeq(queue) \in Seq(Byte)
        BY ONLY <1>2, <4>2, WrittenMore
      <4> QED
        BY <1>8, <1>9, <2>2, <4>1
    <3> HIDE DEF w
    <3>2. s \o m \in Seq(Sent) /\ Line(w \o bytes, s \o m, t, rest, q)
      BY <1>1, <1>7, <1>11, LineOwn DEF bytes
    <3> HIDE DEF m
    <3>3. Roomy => (s \o m) \o t = all \o m
      <4> SUFFICES ASSUME Roomy
                   PROVE  (s \o m) \o t = all \o m
        OBVIOUS
      <4>1. t = <<>>
        BY <1>10, <2>2
      <4>2. (s \o m) \o <<>> = s \o m
        BY ONLY <3>2
      <4>3. s \o <<>> = s
        <5>1. s \in Seq(Sent)
          BY <1>11
        <5> QED
          BY ONLY <5>1
      <4> QED
        BY ONLY <1>11, <4>1, <4>2, <4>3
    <3> QED
      BY <1>11, <3>1, <3>2, <3>3
  <2> QED
    BY <2>1, <2>2
<1> HIDE DEF m, w
<1> DEFINE Now(u, v) == Line(Written', u, v, buffer', q) /\ (Roomy => u \o v = all \o m)
<1>21. \E u, v \in Seq(Sent) : Now(u, v)
  BY <1>12
<1> HIDE DEF Now
<1>13. PICK u \in Seq(Sent), v \in Seq(Sent) : Now(u, v)
  BY <1>21
<1>14. Line(Written', u, v, buffer', q) /\ (Roomy => u \o v = all \o m)
  BY <1>13 DEF Now
<1>15. q = ToSet(bufferQueue') /\ IsInjective(bufferQueue')
  BY <1>1, <1>4 DEF q
<1>19. Ordered(u, v)'
  BY <1>4, <1>14, <1>15, LineNext
<1>20. Roomy => Same(u, v, bufferQueue', o, i, bufferQueue)
  <2>1. (all \o <<Head(bufferQueue)>>) \o Tail(bufferQueue) = all \o bufferQueue
    BY ONLY <1>1, <1>17, SameTaken
  <2> QED
    BY <1>4, <1>14, <2>1 DEF Same, n, all, m
<1> QED
  BY <1>19, <1>20

\* The end of Update queues the buffer: the row is the same.
LEMMA OrderEnd ==
    ASSUME TypeOK, Waiting, EndPack, NEW o \in Seq(Sent), NEW i \in Seq(Sent), Ordered(o, i)
    PROVE  \E s, t \in Seq(Sent) : Ordered(s, t)' /\ s \o t = o \o i
<1>1. /\ UNCHANGED <<size, readVars, wire, bufferQueue>> /\ buffer' = <<>>
      /\ writeQueue' = IF buffer # <<>> THEN Append(writeQueue, buffer) ELSE writeQueue
  BY DEF EndPack
<1>2. wire \in Seq(Byte) /\ Buffers(Byte, writeQueue) /\ buffer \in Seq(Byte)
  BY DEF TypeOK, Buffers
<1>3. Line(Written, o, i, buffer, ToSet(bufferQueue)) /\ IsInjective(bufferQueue)
  BY DEF Ordered, Line
<1>7. /\ wire \o FlattenSeq(Append(writeQueue, buffer)) = (wire \o FlattenSeq(writeQueue)) \o buffer
      /\ Buffers(Byte, Append(writeQueue, buffer))
      /\ wire \o FlattenSeq(writeQueue) \in Seq(Byte)
  BY ONLY <1>2, WrittenMore
<1>4. /\ wire \o FlattenSeq(Append(writeQueue, buffer)) = Written \o buffer
      /\ Written \in Seq(Byte)
  BY <1>7 DEF Written
<1>5. CASE buffer # <<>>
  <2>1. Written' = Written \o buffer
    BY <1>1, <1>4, <1>5 DEF Written
  <2>2. o \o i \in Seq(Sent) /\ Line(Written \o buffer, o \o i, <<>>, <<>>, ToSet(bufferQueue))
    BY <1>3, <1>4, LineShip
  <2>3. <<>> \in Seq(Sent)
    OBVIOUS
  <2>4. Line(Written', o \o i, <<>>, buffer', ToSet(bufferQueue')) /\ IsInjective(bufferQueue')
    BY <1>1, <1>3, <2>1, <2>2
  <2>5. Ordered(o \o i, <<>>)'
    BY ONLY <1>1, <2>4, LineNext
  <2>6. (o \o i) \o <<>> = o \o i
    BY ONLY <2>2
  <2> QED
    BY <2>2, <2>3, <2>5, <2>6
<1>6. CASE buffer = <<>>
  <2>1. Written' = Written
    BY <1>1, <1>6 DEF Written
  <2>2. Line(Written', o, i, buffer', ToSet(bufferQueue')) /\ IsInjective(bufferQueue')
    BY <1>1, <1>3, <1>6, <2>1
  <2> QED
    BY <1>1, <2>2, LineNext
<1> QED
  BY <1>5, <1>6

\* Bytes that only move from the buffers to the wire, or do not move.
LEMMA OrderSame ==
    ASSUME UNCHANGED <<size, readVars, buffer, bufferQueue>>, Written' = Written,
           NEW o, NEW i, Ordered(o, i)
    PROVE  Ordered(o, i)'
<1>1. Line(Written', o, i, buffer', ToSet(bufferQueue')) /\ IsInjective(bufferQueue')
  BY DEF Ordered, Line
<1> QED
  BY <1>1, LineNext

\* Reading takes packets from the front of o.
LEMMA OrderRead ==
    ASSUME TypeOK, Waiting, ReadHandler, reader' = "reading",
           NEW o \in Seq(Sent), NEW i \in Seq(Sent), Ordered(o, i)
    PROVE  \E s \in Seq(Sent) : Ordered(s, i)' /\ delivered' \o s = delivered \o o
<1> DEFINE tail == FlattenSeq(writeQueue)
           rest == ToSet(i) \cup ToSet(bufferQueue)
<1>1. PICK j \in 1..Len(wire) :
          /\ reader' = Fed(j).state
          /\ headerBuffer' = Fed(j).header
          /\ packetBuffer' = Fed(j).payload
          /\ delivered' = Fed(j).out
          /\ wire' = SubSeq(wire, j + 1, Len(wire))
  BY DEF ReadHandler
<1>2. tail \in Seq(Byte) /\ j \in 0..Len(wire) /\ Fed(j) \in PeerRecord
  <2>1. j \in 0..Len(wire) /\ writeQueue \in Seq(Seq(Byte))
    BY DEF TypeOK
  <2> QED
    BY <2>1, FedType, FlattenType
<1>3. Ahead(Peer, wire \o tail, o, rest)
  BY DEF Ordered, Written
<1> HIDE DEF tail, rest
<1>4. PICK ms \in Seq(Sent) : FedTo(j, tail, o, rest, ms)
  BY <1>2, <1>3, FedAhead
<1>5. UNCHANGED writeVars
  BY DEF ReadHandler
<1>6. Peer' = Fed(j)
  BY <1>1, <1>2 DEF Peer, PeerRecord
<1>7. Written' = SubSeq(wire, j + 1, Len(wire)) \o tail
  BY <1>1, <1>5 DEF Written, writeVars, tail
<1>8. Ahead(Peer', Written', ms, rest)
  BY <1>1, <1>4, <1>6, <1>7 DEF FedTo
<1>9. /\ Ahead(Peer', Written', ms, ToSet(i) \cup ToSet(bufferQueue'))
      /\ buffer' = StreamOf(i) /\ IsInjective(i) /\ IsInjective(bufferQueue')
      /\ ToSet(i) \cap ToSet(bufferQueue') = {} /\ size' = size
  BY <1>5, <1>8 DEF Ordered, writeVars, rest
<1>10. Ordered(ms, i)'
  BY ONLY <1>9, OrderedNext
<1> QED
  BY <1>1, <1>4, <1>10 DEF FedTo

\* Order, action by action.
LEMMA OrderStep ==
    ASSUME TypeOK, Waiting, Order, [Next]_vars
    PROVE  Order'
<1> SUFFICES ASSUME ~closed', reader' = "reading"
             PROVE  \E s, t \in Seq(Sent') : Ordered(s, t)'
  BY DEF Order
<1>1. CASE CloseSocket \/ ReadFails
  BY <1>1 DEF CloseSocket, ReadFails
<1>2. ASSUME closed' = closed, reader = "reading"
      PROVE  \E o, i \in Seq(Sent) : Ordered(o, i)
  BY <1>2 DEF Order
<1>3. ASSUME NEW s \in Sizes, SendPacket(s)
      PROVE  \E o, i \in Seq(Sent') : Ordered(o, i)'
  BY <1>2, <1>3, OrderSend DEF SendPacket, readVars
<1>4. ASSUME UNCHANGED <<size, readVars, buffer, bufferQueue, closed>>, Written' = Written
      PROVE  \E o, i \in Seq(Sent') : Ordered(o, i)'
  BY <1>2, <1>4, OrderSame DEF Sent, readVars
<1>5. CASE Flush \/ WriteHandlerWrapper
  <2>1. UNCHANGED <<size, bufferQueue, buffer, closed, cramped, readVars>>
    BY <1>5, WriteSteps
  <2>2. \/ Writing
        \/ closed
        \/ UNCHANGED <<writeQueue, wire>>
    BY <1>5, WriteSteps
  <2>3. Writing => Written' = Written
    BY WriteEffect DEF Writing, Written
  <2> QED
    BY <1>4, <2>1, <2>2, <2>3 DEF Written
<1>6. CASE BeginUpdate
  BY <1>4, <1>6 DEF BeginUpdate, Written
<1>7. CASE UNCHANGED vars
  BY <1>4, <1>7 DEF vars, writeVars, Written
<1>8. CASE Pack
  <2>1. UNCHANGED <<size, closed, readVars>>
    BY <1>8 DEF Pack
  <2> QED
    BY <1>2, <1>8, <2>1, OrderPack DEF Sent, readVars
<1>9. CASE EndPack
  <2>1. UNCHANGED <<size, closed, readVars>>
    BY <1>9 DEF EndPack
  <2> QED
    BY <1>2, <1>9, <2>1, OrderEnd DEF Sent, readVars
<1>10. CASE ReadHandler
  <2>1. UNCHANGED <<size, closed>> /\ reader = "reading"
    BY <1>10 DEF ReadHandler, writeVars
  <2> QED
    BY <1>2, <1>10, <2>1, OrderRead DEF Sent
<1> QED
  BY <1>1, <1>3, <1>5, <1>6, <1>7, <1>8, <1>9, <1>10 DEF Next, Update

\* Whatever is ahead of the peer is made of the packets it has not handled.
LEMMA Intact ==
    ASSUME TypeOK, Waiting, NEW o \in Seq(Sent), NEW i \in Seq(Sent), Ordered(o, i)
    PROVE  LET there == headerBuffer \o packetBuffer \o InTransit
               due == {n \in 1..Len(size) : n \notin ToSet(delivered)}
           IN  /\ IsInjective(there)
               /\ ToSet(there) = UNION {ToSet(BytesOf(n)) : n \in due}
<1> DEFINE all == (o \o i) \o bufferQueue
           rest == ToSet(i) \cup ToSet(bufferQueue)
<1>1. /\ headerBuffer \o packetBuffer \o Written = StreamOf(o)
      /\ IsInjective(o) /\ ToSet(o) \cap rest = {}
      /\ ToSet(o) \cup rest = Sent \ ToSet(delivered)
      /\ buffer = StreamOf(i) /\ IsInjective(i)
      /\ IsInjective(bufferQueue) /\ ToSet(i) \cap ToSet(bufferQueue) = {}
  BY DEF Ordered, Ahead, Peer
<1>2. Sized /\ bufferQueue \in Seq(Sent) /\ o \o i \in Seq(Sent)
  BY DEF TypeOK, Waiting, Sized
<1>3. all \in Seq(Sent)
  BY <1>2
<1>4. ToSet(o \o i) = ToSet(o) \cup ToSet(i) /\ IsInjective(o \o i)
  BY <1>1, ConcatSet, ConcatInjective
<1>5. ToSet(all) = Sent \ ToSet(delivered) /\ IsInjective(all)
  <2>1. ToSet(all) = ToSet(o \o i) \cup ToSet(bufferQueue)
    BY <1>2, ConcatSet
  <2>2. ToSet(o \o i) \cap ToSet(bufferQueue) = {}
    BY <1>1, <1>4
  <2>3. IsInjective(all)
    BY <1>1, <1>2, <1>4, <2>2, ConcatInjective
  <2> QED
    BY <1>1, <1>4, <2>1, <2>3
<1>6. StreamOf(all) = (StreamOf(o) \o buffer) \o StreamOf(bufferQueue)
  BY <1>1, <1>2, StreamConcat
<1>7. headerBuffer \o packetBuffer \o InTransit = StreamOf(all)
  <2> DEFINE held == headerBuffer \o packetBuffer
             w == Written
             later == StreamOf(bufferQueue)
  <2>1. held \in Seq(Byte) /\ w \in Seq(Byte) /\ buffer \in Seq(Byte) /\ later \in Seq(Byte)
    <3>1. wire \in Seq(Byte) /\ Buffers(Byte, writeQueue)
      BY DEF TypeOK, Buffers
    <3>2. w \in Seq(Byte)
      <4>1. FlattenSeq(writeQueue) \in Seq(Byte)
        BY FlattenType DEF TypeOK
      <4> QED
        BY <3>1, <4>1 DEF Written
    <3>3. later \in Seq(Byte)
      BY <1>2, StreamType
    <3>4. held \in Seq(Byte) /\ buffer \in Seq(Byte)
      BY DEF TypeOK
    <3> QED
      BY <3>2, <3>3, <3>4
  <2>2. InTransit = (w \o buffer) \o later
    BY DEF InTransit, Written
  <2>3. held \o w = StreamOf(o)
    BY <1>1
  <2> DEFINE b == buffer
  <2>5. b \in Seq(Byte) /\ w \in Seq(Byte) /\ held \in Seq(Byte)
    BY <2>1
  <2>6. later \in Seq(Byte) /\ held \in Seq(Byte)
    BY <2>1
  <2> HIDE DEF held, w, later, b
  <2>4. held \o ((w \o b) \o later) = ((held \o w) \o b) \o later
    <3>1. w \o b \in Seq(Byte) /\ held \o w \in Seq(Byte)
      BY ONLY <2>5
    <3>2. held \o (w \o b) = (held \o w) \o b
      BY ONLY <2>5, ConcatAssociative
    <3>3. ASSUME NEW s \in Seq(Byte)
          PROVE  held \o (s \o later) = (held \o s) \o later
      BY ONLY <2>6, <3>3, ConcatAssociative
    <3> QED
      BY ONLY <3>1, <3>2, <3>3
  <2> QED
    BY <1>6, <2>2, <2>3, <2>4 DEF held, b, later
<1>8. Sent \ ToSet(delivered) = {n \in 1..Len(size) : n \notin ToSet(delivered)}
  BY DEF Sent
<1> HIDE DEF all
<1>9. IsInjective(StreamOf(all)) /\ ToSet(StreamOf(all)) = UNION {ToSet(BytesOf(n)) : n \in ToSet(all)}
  BY <1>2, <1>3, <1>5, StreamDistinct
<1> QED
  BY <1>5, <1>7, <1>8, <1>9

\* In the beginning nothing is on its way.
LEMMA OrderInit == Init => Order
<1> SUFFICES ASSUME Init
             PROVE  Order
  OBVIOUS
<1>1. /\ size = <<>> /\ bufferQueue = <<>> /\ buffer = <<>> /\ wire = <<>> /\ writeQueue = <<>>
      /\ headerBuffer = <<>> /\ packetBuffer = <<>> /\ delivered = <<>>
  BY DEF Init
<1>2. <<>> \in Seq(Sent) /\ ToSet(<<>>) = {} /\ IsInjective(<<>>)
  <2>1. <<>> \in Seq(Sent)
    OBVIOUS
  <2>2. ToSet(<<>>) = {}
    BY DEF ToSet
  <2>3. IsInjective(<<>>)
    BY DEF IsInjective
  <2> QED
    BY <2>1, <2>2, <2>3
<1>3. Written = <<>>
  BY <1>1, FlattenEmpty DEF Written
<1>4. Sent = {}
  BY <1>1 DEF Sent
<1>5. Ahead(Peer, Written, <<>>, ToSet(<<>>) \cup ToSet(bufferQueue))
  BY <1>1, <1>2, <1>3, <1>4, StreamEmpty DEF Ahead, Peer
<1>6. Ordered(<<>>, <<>>)
  BY <1>1, <1>2, <1>5, StreamEmpty DEF Ordered
<1> QED
  BY <1>2, <1>6 DEF Order

\* IInv is an invariant.
LEMMA StreamInv == Spec => []IInv
<1>1. Init => IInv
  BY TypeInit, OrderInit DEF IInv
<1>2. IInv /\ [Next]_vars => IInv'
  BY TypeStep, OrderStep DEF IInv
<1> QED
  BY <1>1, <1>2, PTL DEF Spec

\* While a connection is open and its peer reads, every byte of a packet sent and
\* not handled is in exactly one of _bufferQueue, the buffer of Update,
\* _writeQueue, the wire and the reader's buffers, once (XSocket::Update,
\* Socket::HandleQueue, XSocket::ReadHandler).
THEOREM NothingIsLost == Spec => []NothingLost
<1>1. IInv => NothingLost
  BY Intact DEF IInv, Order, NothingLost
<1> QED
  BY <1>1, StreamInv, PTL

-----------------------------------------------------------------------------
(* First in, first out *)

\* The packets in the order of SendPacket: what Fifo takes for sent.
Due == [n \in 1..Len(size) |-> n]

\* As long as the connection is open: all packets sent stand in a row, those
\* handled, on their way, in the buffer and waiting.
Whole(d, o, i, q) == (d \o o) \o (i \o q)
InRow(o, i) == Ordered(o, i) /\ Whole(delivered, o, i, bufferQueue) = Due

\* Afterwards: what the peer has ahead is the beginning of the packets of o,
\* the rest of which was dropped.
Broken(o, tail, rest, r) ==
    /\ Ahead(Peer, wire \o tail, o, rest)
    /\ (delivered \o o) \o r = Due

\* The state of the row, as long as the peer reads.
Row ==
    reader = "reading" =>
        /\ ~closed => \E o, i \in Seq(Sent) : InRow(o, i)
        /\ closed => \E o, r \in Seq(Sent), tail \in Seq(Byte) : \E rest : Broken(o, tail, rest, r)

\* The inductive invariant of the refinement.
FifoInv == IInv /\ Row

LEMMA DueType == ASSUME TypeOK PROVE Due \in Seq(Sent) /\ Len(Due) = Len(size)
BY DEF Due, Sent, TypeOK

\* The reader takes nothing back.
LEMMA FedGrows ==
    ASSUME TypeOK, NEW j \in 0..Len(wire)
    PROVE  Len(Fed(j).out) >= Len(delivered)
<1> DEFINE T == {k \in Nat : k \in 0..Len(wire) => Len(Fed(k).out) >= Len(delivered)}
<1>0. wire \in Seq(Byte) /\ Len(wire) \in Nat /\ delivered \in Seq(Packets \cup {Torn})
      /\ Len(delivered) \in Nat
  BY DEF TypeOK
<1>1. 0 \in T
  BY <1>0, FedSteps DEF Peer
<1>2. ASSUME NEW k \in Nat, k \in T
      PROVE  k + 1 \in T
  <2>1. SUFFICES ASSUME k + 1 \in 0..Len(wire)
                 PROVE  Len(Fed(k + 1).out) >= Len(delivered)
    OBVIOUS
  <2> DEFINE p == Fed(k)
             b == wire[k + 1]
  <2>2. k \in 0..Len(wire)
    BY <2>1
  <2>3. p \in PeerRecord /\ Fed(k + 1) = Feed(b, p) /\ Len(p.out) >= Len(delivered)
    BY <1>2, <2>2, FedType, FedSteps
  <2> HIDE DEF p, b
  <2>4. p.out \in Seq(Packets \cup {Torn})
    BY <2>3 DEF PeerRecord
  <2>5. Feed(b, p).out = p.out \/ \E x : Feed(b, p).out = Append(p.out, x)
    BY <2>3 DEF Feed, PeerRecord
  <2>6. Len(Feed(b, p).out) >= Len(p.out)
    BY <2>4, <2>5
  <2>7. Feed(b, p) \in PeerRecord
    <3>1. b \in Byte
      BY <1>0, <2>1 DEF b
    <3> QED
      BY <2>3, <3>1, FeedType
  <2>8. Len(Feed(b, p).out) \in Nat /\ Len(p.out) \in Nat
    BY <2>4, <2>7 DEF PeerRecord
  <2> QED
    BY <1>0, <2>3, <2>6, <2>8
<1> HIDE DEF T
<1>3. Nat \subseteq T
  BY ONLY <1>1, <1>2, NatAll
<1> QED
  BY <1>0, <1>3 DEF T

\* A packet sent is the last of the row.
LEMMA RowSend ==
    ASSUME TypeOK, Waiting, NEW s \in Sizes, SendPacket(s),
           NEW o \in Seq(Sent), NEW i \in Seq(Sent), InRow(o, i)
    PROVE  o \in Seq(Sent') /\ i \in Seq(Sent') /\ InRow(o, i)'
<1> DEFINE n == Len(size) + 1
           m == <<n>>
<1>1. /\ size \in Seq(Sizes) /\ size' = Append(size, s) /\ delivered' = delivered
      /\ bufferQueue' = bufferQueue \o m /\ bufferQueue \in Seq(Sent)
  BY DEF SendPacket, TypeOK, Waiting, readVars
<1>2. delivered \in Seq(Sent)
  BY DEF InRow, Ordered, Ahead, Peer
<1>3. m \in Seq(Sent') /\ Sent' = Sent \cup {n}
  BY <1>1 DEF Sent
<1>4. Due' = Due \o m
  BY <1>1 DEF Due
<1> DEFINE d == delivered \o o
           q == bufferQueue
<1>5. d \in Seq(Sent') /\ i \in Seq(Sent') /\ q \in Seq(Sent') /\ d \o (i \o q) = Due
  <2>2. i \in Seq(Sent') /\ o \in Seq(Sent') /\ q \in Seq(Sent') /\ delivered \in Seq(Sent')
    BY <1>1, <1>2, <1>3
  <2>3. d \in Seq(Sent')
    BY ONLY <2>2
  <2>4. d \o (i \o q) = Due
    BY DEF InRow, Whole
  <2> QED
    BY <2>2, <2>3, <2>4
<1> HIDE DEF d, m
<1>6. d \o (i \o (q \o m)) = (d \o (i \o q)) \o m
  <2>1. Three(Sent', i, q, m) /\ i \o q \in Seq(Sent')
    BY <1>3, <1>5 DEF Three
  <2>2. Three(Sent', d, i \o q, m)
    BY <1>3, <1>5, <2>1 DEF Three
  <2>3. i \o (q \o m) = (i \o q) \o m
    BY ONLY <2>1, Reassociated
  <2>4. d \o ((i \o q) \o m) = (d \o (i \o q)) \o m
    BY ONLY <2>2, Reassociated
  <2> QED
    BY ONLY <2>3, <2>4
<1>7. (delivered' \o o) \o (i \o bufferQueue') = Due'
  BY <1>1, <1>4, <1>5, <1>6 DEF d
<1>8. o \in Seq(Sent') /\ i \in Seq(Sent') /\ Ordered(o, i)'
  BY OrderSend DEF InRow
<1> QED
  BY <1>7, <1>8 DEF InRow, Whole

\* The row is the same if its two parts are.
LEMMA RowKept ==
    ASSUME NEW X, NEW d, NEW o, NEW i, NEW q, NEW u, NEW v, NEW r,
           Three(X, d, o, i), Three(X, q, u, v), Three(X, r, r, r), Same(u, v, r, o, i, q)
    PROVE  Whole(d, u, v, r) = Whole(d, o, i, q)
<1>1. Three(X, d, o, i) /\ Three(X, q, q, q) /\ Three(X, d, u, v)
  BY DEF Three
<1>2. (d \o o) \o (i \o q) = d \o ((o \o i) \o q)
  BY ONLY <1>1, Together
<1>3. (d \o u) \o (v \o r) = d \o ((u \o v) \o r)
  BY ONLY <1>1, Three(X, r, r, r), Together
<1>4. (u \o v) \o r = (o \o i) \o q
  BY DEF Same
<1> QED
  BY ONLY <1>2, <1>3, <1>4 DEF Whole

\* A row that does not change while the packets of o and i do.
LEMMA RowMoves ==
    ASSUME TypeOK, Waiting, UNCHANGED <<size, delivered>>, bufferQueue' \in Seq(Sent),
           NEW o \in Seq(Sent), NEW i \in Seq(Sent), InRow(o, i),
           NEW u \in Seq(Sent), NEW v \in Seq(Sent), Ordered(u, v)',
           Same(u, v, bufferQueue', o, i, bufferQueue)
    PROVE  InRow(u, v)'
<1>1. Three(Sent, delivered, o, i) /\ Three(Sent, bufferQueue, u, v)
      /\ Three(Sent, bufferQueue', bufferQueue', bufferQueue')
  BY DEF Three, InRow, Ordered, Ahead, Peer, Waiting
<1>2. Whole(delivered, u, v, bufferQueue') = Whole(delivered, o, i, bufferQueue)
  BY ONLY <1>1, Same(u, v, bufferQueue', o, i, bufferQueue), RowKept
<1>3. Whole(delivered, u, v, bufferQueue') = Due
  BY <1>2 DEF InRow
<1>4. Due' = Due
  BY DEF Due
<1> QED
  BY <1>3, <1>4 DEF InRow

\* A row that is open is one that is broken off at the buffer.
LEMMA RowClose ==
    ASSUME TypeOK, Waiting, NEW o \in Seq(Sent), NEW i \in Seq(Sent), InRow(o, i)
    PROVE  \E r \in Seq(Sent), tail \in Seq(Byte) : \E rest : Broken(o, tail, rest, r)
<1>1. FlattenSeq(writeQueue) \in Seq(Byte)
  BY FlattenType DEF TypeOK
<1>2. i \o bufferQueue \in Seq(Sent)
  BY DEF Waiting
<1>3. Broken(o, FlattenSeq(writeQueue), ToSet(i) \cup ToSet(bufferQueue), i \o bufferQueue)
  BY DEF Broken, InRow, Whole, Ordered, Written
<1> QED
  BY <1>1, <1>2, <1>3

\* A connection that is broken off: nothing happens but reading.
LEMMA BrokenNext ==
    ASSUME UNCHANGED <<size, wire, readVars>>, NEW o, NEW tail, NEW rest, NEW r,
           Broken(o, tail, rest, r)
    PROVE  Broken(o, tail, rest, r)'
<1>1. StreamOf(o)' = StreamOf(o)
  BY SameStream
<1>2. Peer' = Peer /\ Due' = Due
  BY DEF Peer, Due, readVars
<1> QED
  BY <1>1, <1>2 DEF Broken, Ahead, Sent, readVars

LEMMA BrokenRead ==
    ASSUME TypeOK, ReadHandler, reader' = "reading", NEW o \in Seq(Sent), NEW r \in Seq(Sent),
           NEW tail \in Seq(Byte), NEW rest, Broken(o, tail, rest, r)
    PROVE  \E ms \in Seq(Sent) : Broken(ms, tail, rest, r)'
<1>1. PICK j \in 1..Len(wire) :
          /\ reader' = Fed(j).state
          /\ headerBuffer' = Fed(j).header
          /\ packetBuffer' = Fed(j).payload
          /\ delivered' = Fed(j).out
          /\ wire' = SubSeq(wire, j + 1, Len(wire))
  BY DEF ReadHandler
<1>2. j \in 0..Len(wire) /\ Fed(j) \in PeerRecord
  <2>1. j \in 0..Len(wire)
    BY DEF TypeOK
  <2> QED
    BY <2>1, FedType
<1>3. PICK ms \in Seq(Sent) : FedTo(j, tail, o, rest, ms)
  BY <1>2, FedAhead DEF Broken
<1>4. Peer' = Fed(j) /\ size' = size
  BY <1>1, <1>2 DEF Peer, PeerRecord, ReadHandler, writeVars
<1>5. Ahead(Peer', wire' \o tail, ms, rest)
  BY <1>1, <1>3, <1>4 DEF FedTo
<1>6. StreamOf(ms)' = StreamOf(ms)
  BY <1>4, SameStream
<1>7. Ahead(Peer, wire \o tail, ms, rest)'
  BY <1>4, <1>5, <1>6 DEF Ahead, Sent
<1>8. (delivered' \o ms) \o r = Due'
  BY <1>1, <1>3, <1>4 DEF FedTo, Broken, Due
<1> QED
  BY <1>7, <1>8 DEF Broken

\* Reading moves packets of an open connection over to those handled.
LEMMA RowRead ==
    ASSUME TypeOK, Waiting, ReadHandler, reader' = "reading",
           NEW o \in Seq(Sent), NEW i \in Seq(Sent), InRow(o, i)
    PROVE  \E s \in Seq(Sent) : InRow(s, i)'
<1>1. PICK s \in Seq(Sent) : Ordered(s, i)' /\ delivered' \o s = delivered \o o
  BY OrderRead DEF InRow
<1>2. Whole(delivered', s, i, bufferQueue') = Due'
  BY <1>1 DEF InRow, Whole, Due, ReadHandler, writeVars
<1> QED
  BY <1>1, <1>2 DEF InRow

\* An open connection that stays open.
LEMMA RowOpen ==
    ASSUME TypeOK, Waiting, TypeOK', Waiting', Roomy, [Next]_vars, ~closed', reader' = "reading",
           NEW o \in Seq(Sent), NEW i \in Seq(Sent), InRow(o, i)
    PROVE  \E s, t \in Seq(Sent') : InRow(s, t)'
<1>1. CASE CloseSocket \/ ReadFails
  BY <1>1 DEF CloseSocket, ReadFails
<1>2. ASSUME NEW s \in Sizes, SendPacket(s)
      PROVE  \E u, v \in Seq(Sent') : InRow(u, v)'
  BY <1>2, RowSend
<1>3. ASSUME UNCHANGED <<size, readVars>>, NEW u \in Seq(Sent), NEW v \in Seq(Sent),
             Ordered(u, v)', Same(u, v, bufferQueue', o, i, bufferQueue)
      PROVE  \E s, t \in Seq(Sent') : InRow(s, t)'
  <2>1. Sent' = Sent /\ delivered' = delivered
    BY <1>3 DEF Sent, readVars
  <2>2. bufferQueue' \in Seq(Sent)
    BY <2>1 DEF Waiting
  <2>3. InRow(u, v)'
    BY <1>3, <2>1, <2>2, RowMoves
  <2> QED
    BY <2>1, <2>3
<1>4. ASSUME UNCHANGED <<size, readVars, buffer, bufferQueue>>, Written' = Written
      PROVE  \E s, t \in Seq(Sent') : InRow(s, t)'
  <2>1. Ordered(o, i)'
    BY <1>4, OrderSame DEF InRow
  <2>2. Same(o, i, bufferQueue', o, i, bufferQueue)
    BY <1>4 DEF Same
  <2> QED
    BY <1>3, <1>4, <2>1, <2>2
<1>5. CASE Flush \/ WriteHandlerWrapper
  <2>1. UNCHANGED <<size, bufferQueue, buffer, closed, cramped, readVars>>
    BY <1>5, WriteSteps
  <2>2. \/ Writing
        \/ closed
        \/ UNCHANGED <<writeQueue, wire>>
    BY <1>5, WriteSteps
  <2>3. Writing => Written' = Written
    BY WriteEffect DEF Writing, Written
  <2> QED
    BY <1>4, <2>1, <2>2, <2>3 DEF Written
<1>6. CASE BeginUpdate
  BY <1>4, <1>6 DEF BeginUpdate, Written
<1>7. CASE UNCHANGED vars
  BY <1>4, <1>7 DEF vars, writeVars, Written
<1>8. CASE Pack
  <2>1. UNCHANGED <<size, readVars>>
    BY <1>8 DEF Pack
  <2>2. PICK u \in Seq(Sent), v \in Seq(Sent) :
            Ordered(u, v)' /\ Same(u, v, bufferQueue', o, i, bufferQueue)
    BY <1>8, OrderPack DEF InRow
  <2> QED
    BY <1>3, <2>1, <2>2
<1>9. CASE EndPack
  <2>1. UNCHANGED <<size, readVars, bufferQueue>>
    BY <1>9 DEF EndPack
  <2>2. PICK u \in Seq(Sent), v \in Seq(Sent) : Ordered(u, v)' /\ u \o v = o \o i
    BY <1>9, OrderEnd DEF InRow
  <2>3. Same(u, v, bufferQueue', o, i, bufferQueue)
    BY <2>1, <2>2 DEF Same
  <2> QED
    BY <1>3, <2>1, <2>2, <2>3
<1>10. CASE ReadHandler
  <2>1. Sent' = Sent
    BY <1>10 DEF ReadHandler, writeVars, Sent
  <2> QED
    BY <1>10, <2>1, RowRead
<1> QED
  BY <1>1, <1>2, <1>5, <1>6, <1>7, <1>8, <1>9, <1>10 DEF Next, Update

\* A connection that is closed already.
LEMMA RowClosed ==
    ASSUME TypeOK, Waiting, [Next]_vars, closed, reader' = "reading",
           NEW o \in Seq(Sent), NEW r \in Seq(Sent), NEW tail \in Seq(Byte), NEW rest,
           Broken(o, tail, rest, r)
    PROVE  \E s \in Seq(Sent) : Broken(s, tail, rest, r)'
<1>1. CASE ReadHandler
  BY <1>1, BrokenRead
<1>2. CASE UNCHANGED <<size, wire, readVars>>
  BY <1>2, BrokenNext
<1>3. ASSUME NEW s \in Sizes, SendPacket(s)
      PROVE  FALSE
  BY <1>3 DEF SendPacket
<1>4. CASE Flush \/ WriteHandlerWrapper
  <2>1. UNCHANGED <<size, readVars>> /\ (WriteFails \/ UNCHANGED <<pc, writeQueue, wire>>)
    BY <1>4, WriteSteps
  <2>2. wire' = wire
    BY <2>1 DEF WriteFails
  <2> QED
    BY <1>2, <2>1, <2>2
<1>5. CASE ReadFails \/ CloseSocket
  BY <1>5 DEF ReadFails, CloseSocket
<1>6. CASE BeginUpdate \/ Pack \/ EndPack \/ UNCHANGED vars
  BY <1>2, <1>6 DEF BeginUpdate, Pack, EndPack, vars, writeVars
<1> QED
  BY <1>1, <1>3, <1>4, <1>5, <1>6 DEF Next, Update

\* Row, action by action.
LEMMA RowStep ==
    ASSUME FifoInv, Roomy, [Next]_vars
    PROVE  Row'
<1>1. /\ TypeOK /\ Waiting /\ Row /\ TypeOK' /\ Waiting'
  BY TypeStep DEF FifoInv, IInv
<1> SUFFICES ASSUME reader' = "reading"
             PROVE  /\ ~closed' => \E o, i \in Seq(Sent') : InRow(o, i)'
                    /\ closed' => \E o, r \in Seq(Sent'), tail \in Seq(Byte) : \E rest : Broken(o, tail, rest, r)'
  BY DEF Row
<1>2. reader = "reading" /\ (closed => closed')
  <2>1. CASE Flush \/ WriteHandlerWrapper
    <3>1. UNCHANGED <<size, bufferQueue, buffer, closed, cramped, readVars>>
      BY <1>1, <2>1, WriteSteps
    <3> QED
      BY <3>1 DEF readVars
  <2>2. CASE BeginUpdate \/ Pack \/ EndPack \/ UNCHANGED vars
    <3>1. CASE Pack
      <4>1. UNCHANGED <<closed, readVars>>
        BY <3>1 DEF Pack
      <4> QED
        BY <4>1 DEF readVars
    <3>2. CASE EndPack
      <4>1. UNCHANGED <<closed, readVars>>
        BY <3>2 DEF EndPack
      <4> QED
        BY <4>1 DEF readVars
    <3>3. CASE BeginUpdate \/ UNCHANGED vars
      BY <3>3 DEF BeginUpdate, vars, writeVars, readVars
    <3> QED
      BY <2>2, <3>1, <3>2, <3>3
  <2>3. CASE CloseSocket \/ ReadHandler \/ ReadFails
    BY <2>3 DEF CloseSocket, ReadHandler, ReadFails, writeVars, readVars
  <2>4. ASSUME NEW s \in Sizes, SendPacket(s)
        PROVE  reader' = reader /\ closed' = closed
    BY <2>4 DEF SendPacket, readVars
  <2> QED
    BY <2>1, <2>2, <2>3, <2>4 DEF Next, Update
<1>3. CASE ~closed'
  <2>1. PICK o \in Seq(Sent), i \in Seq(Sent) : InRow(o, i)
    BY <1>1, <1>2, <1>3 DEF Row
  <2>2. \E s, t \in Seq(Sent') : InRow(s, t)'
    BY <1>1, <1>3, <2>1, RowOpen
  <2> QED
    BY <1>3, <2>2
<1>4. CASE closed /\ closed'
  <2>1. PICK o \in Seq(Sent), r \in Seq(Sent), tail \in Seq(Byte) : \E rest : Broken(o, tail, rest, r)
    BY <1>1, <1>2, <1>4 DEF Row
  <2>2. PICK rest : Broken(o, tail, rest, r)
    BY <2>1
  <2>3. \E s \in Seq(Sent) : Broken(s, tail, rest, r)'
    BY <1>1, <1>4, <2>2, RowClosed
  <2>4. Sent' = Sent
    BY <1>4 DEF Sent, Next, Update, BeginUpdate, Pack, EndPack, Flush, WriteHandlerWrapper,
                CloseSocket, SendPacket, ReadHandler, ReadFails, vars, writeVars
  <2> QED
    BY <1>4, <2>3, <2>4
<1>5. CASE ~closed /\ closed'
  <2>1. PICK o \in Seq(Sent), i \in Seq(Sent) : InRow(o, i)
    BY <1>1, <1>2, <1>5 DEF Row
  <2>2. PICK r \in Seq(Sent), tail \in Seq(Byte) : \E rest : Broken(o, tail, rest, r)
    BY <1>1, <2>1, RowClose
  <2>3. PICK rest : Broken(o, tail, rest, r)
    BY <2>2
  <2>4. UNCHANGED <<size, wire, readVars>>
    BY <1>5 DEF Next, Update, BeginUpdate, Pack, EndPack, Flush, WriteHandlerWrapper,
                CloseSocket, SendPacket, ReadHandler, ReadFails, vars, writeVars
  <2>5. Broken(o, tail, rest, r)' /\ Sent' = Sent
    BY <2>3, <2>4, BrokenNext DEF Sent
  <2> QED
    BY <1>5, <2>5
<1> QED
  BY <1>3, <1>4, <1>5

\* In the beginning the row is empty.
LEMMA RowInit == Init => Row
<1> SUFFICES ASSUME Init
             PROVE  Row
  OBVIOUS
<1>1. Order /\ reader = "reading" /\ ~closed
  BY OrderInit DEF Init
<1>2. size = <<>> /\ delivered = <<>> /\ bufferQueue = <<>> /\ Sent = {}
  BY DEF Init, Sent
<1>3. PICK o \in Seq(Sent), i \in Seq(Sent) : Ordered(o, i)
  BY <1>1 DEF Order
<1>4. o = <<>> /\ i = <<>>
  BY <1>2
<1>5. Due = <<>>
  BY <1>2 DEF Due
<1>6. Whole(delivered, o, i, bufferQueue) = Due
  BY <1>2, <1>4, <1>5 DEF Whole
<1> QED
  BY <1>1, <1>3, <1>6 DEF Row, InRow

\* Two sequences one after the other, by their positions.
LEMMA Indexed ==
    ASSUME NEW X, NEW d \in Seq(X), NEW a \in Seq(X)
    PROVE  /\ d \o a \in Seq(X)
           /\ Len(d \o a) = Len(d) + Len(a)
           /\ \A k \in 1..Len(d) : (d \o a)[k] = d[k]
           /\ \A k \in 1..Len(a) : (d \o a)[Len(d) + k] = a[k]
OBVIOUS

\* Two sequences of one length with the same elements are the same.
LEMMA SameElements ==
    ASSUME NEW X, NEW d \in Seq(X), NEW e \in Seq(X), Len(d) = Len(e),
           \A k \in 1..Len(e) : d[k] = e[k]
    PROVE  d = e
OBVIOUS

\* d begins the sequence all, a ends it; e goes on where d ends.
Begins(X, d, a, all) == Three(X, d, a, all) /\ d \o a = all
Continues(d, e, all) ==
    /\ e = d \o SubSeq(all, Len(d) + 1, Len(e))
    /\ Len(e) <= Len(all)
    /\ Len(e) = Len(d) => e = d

\* Of two beginnings of one sequence the longer goes on as the sequence does.
LEMMA GoesOn ==
    ASSUME NEW X, NEW d, NEW e, NEW a, NEW b, NEW all,
           Begins(X, d, a, all), Begins(X, e, b, all), Len(d) <= Len(e)
    PROVE  Continues(d, e, all)
<1>0. /\ d \in Seq(X) /\ e \in Seq(X) /\ a \in Seq(X) /\ b \in Seq(X) /\ all \in Seq(X)
      /\ d \o a = all /\ e \o b = all
  BY DEF Begins, Three
<1> DEFINE s == SubSeq(all, Len(d) + 1, Len(e))
<1>1. Len(all) = Len(d) + Len(a) /\ \A k \in 1..Len(d) : all[k] = d[k]
  <2>1. d \in Seq(X) /\ a \in Seq(X) /\ d \o a = all
    BY <1>0
  <2>2. /\ Len(d \o a) = Len(d) + Len(a)
        /\ \A k \in 1..Len(d) : (d \o a)[k] = d[k]
    BY ONLY <2>1, Indexed
  <2> QED
    BY ONLY <2>1, <2>2
<1>2. Len(all) = Len(e) + Len(b) /\ \A k \in 1..Len(e) : all[k] = e[k]
  <2>1. e \in Seq(X) /\ b \in Seq(X) /\ e \o b = all
    BY <1>0
  <2>2. /\ Len(e \o b) = Len(e) + Len(b)
        /\ \A k \in 1..Len(e) : (e \o b)[k] = e[k]
    BY ONLY <2>1, Indexed
  <2> QED
    BY ONLY <2>1, <2>2
<1>3. /\ Len(a) \in Nat /\ Len(b) \in Nat /\ Len(d) \in Nat /\ Len(e) \in Nat
      /\ Len(d) <= Len(e)
  BY <1>0
<1>4. Len(e) <= Len(all)
  BY ONLY <1>2, <1>3
<1>5. s \in Seq(X) /\ Len(s) = Len(e) - Len(d)
      /\ \A k \in 1..(Len(e) - Len(d)) : s[k] = all[Len(d) + k]
  BY ONLY <1>0, <1>3, <1>4
<1> HIDE DEF s
<1>6. d \o s \in Seq(X) /\ Len(d \o s) = Len(d) + Len(s)
      /\ (\A k \in 1..Len(d) : (d \o s)[k] = d[k])
      /\ \A k \in 1..Len(s) : (d \o s)[Len(d) + k] = s[k]
  BY ONLY <1>0, <1>5, Indexed
<1> DEFINE t == d \o s
<1> HIDE DEF t
<1>7. Len(t) = Len(e)
  BY ONLY <1>3, <1>5, <1>6 DEF t
<1>8. ASSUME NEW k \in 1..Len(e)
      PROVE  t[k] = e[k]
  <2>1. t[k] = all[k]
    <3>1. CASE k \in 1..Len(d)
      BY ONLY <3>1, <1>1, <1>6 DEF t
    <3>2. CASE k \notin 1..Len(d)
      <4>1. k - Len(d) \in 1..Len(s) /\ Len(d) + (k - Len(d)) = k
        BY ONLY <3>2, k \in 1..Len(e), <1>3, <1>5
      <4>2. k - Len(d) \in 1..(Len(e) - Len(d))
        BY ONLY <4>1, <1>5
      <4> QED
        BY ONLY <4>1, <4>2, <1>5, <1>6 DEF t
    <3> QED
      BY <3>1, <3>2
  <2> QED
    BY ONLY <2>1, <1>2, k \in 1..Len(e)
<1>9. e = t
  BY ONLY <1>6, <1>7, <1>0, <1>8, SameElements DEF t
<1>10. ASSUME Len(e) = Len(d)
       PROVE  e = d
  BY ONLY <1>1, <1>2, <1>10, <1>0, SameElements
<1> QED
  BY ONLY <1>4, <1>9, <1>10 DEF s, t, Continues

-----------------------------------------------------------------------------

\* A step of the connection is a step of the channel, or none.
FifoStep == [Fifo!Next]_<<Due, delivered>>

\* A step that sends nothing and handles nothing is not seen.
LEMMA Idle ==
    ASSUME UNCHANGED <<size, delivered>>
    PROVE  FifoStep
BY DEF FifoStep, Due

\* SendPacket puts its packet into the channel.
LEMMA FifoSends ==
    ASSUME TypeOK, NEW s \in Sizes, SendPacket(s)
    PROVE  FifoStep
<1>1. size' = Append(size, s) /\ size \in Seq(Sizes) /\ Len(size) < MaxPackets
      /\ delivered' = delivered
  BY DEF TypeOK, SendPacket, readVars
<1>2. Len(size) + 1 \in Packets /\ Len(size') = Len(size) + 1
  BY <1>1, SizeAssumption DEF Packets
<1>3. Due' = Append(Due, Len(size) + 1)
  BY <1>1, <1>2 DEF Due
<1>4. Fifo!Send
  BY <1>1, <1>2, <1>3 DEF Fifo!Send, Due
<1> QED
  BY <1>4 DEF FifoStep, Fifo!Next

\* Of the packets that are ahead of the reader it takes the first.
LEMMA Beyond ==
    ASSUME NEW X, NEW d, NEW e, NEW o, NEW ms, NEW r, NEW all,
           Three(X, d, o, r), Three(X, e, ms, all), Len(d) <= Len(e),
           e \o ms = d \o o, (d \o o) \o r = all
    PROVE  Continues(d, e, all)
<1>1. Three(X, e, ms, r)
  BY DEF Three
<1>2. (d \o o) \o r = d \o (o \o r)
  BY ONLY Three(X, d, o, r), Reassociated
<1>3. (e \o ms) \o r = e \o (ms \o r)
  BY ONLY <1>1, Reassociated
<1>4. o \o r \in Seq(X) /\ ms \o r \in Seq(X)
  BY DEF Three
<1>5. d \o (o \o r) = all
  BY ONLY <1>2, (d \o o) \o r = all
<1>6. e \o (ms \o r) = all
  BY ONLY <1>3, (d \o o) \o r = all, e \o ms = d \o o
<1>7. Begins(X, d, o \o r, all) /\ Begins(X, e, ms \o r, all)
  <2>1. d \in Seq(X) /\ e \in Seq(X) /\ all \in Seq(X)
    BY DEF Three
  <2> QED
    BY ONLY <2>1, <1>4, <1>5, <1>6 DEF Begins, Three
<1> QED
  BY ONLY <1>7, Len(d) <= Len(e), GoesOn

\* Reading takes packets out of the channel.
LEMMA Takes ==
    ASSUME TypeOK, TypeOK', size' = size, delivered \in Seq(Sent), delivered' \in Seq(Sent),
           Len(delivered) <= Len(delivered'),
           NEW o \in Seq(Sent), NEW ms \in Seq(Sent), NEW r \in Seq(Sent),
           delivered' \o ms = delivered \o o, (delivered \o o) \o r = Due
    PROVE  FifoStep
<1>1. Due \in Seq(Sent) /\ Len(Due) = Len(size)
  BY DueType
<1>4. /\ delivered' = delivered \o SubSeq(Due, Len(delivered) + 1, Len(delivered'))
      /\ Len(delivered') <= Len(Due)
      /\ Len(delivered') = Len(delivered) => delivered' = delivered
  <2>1. Three(Sent, delivered, o, r) /\ Three(Sent, delivered', ms, Due)
    BY <1>1 DEF Three
  <2>2. Continues(delivered, delivered', Due)
    BY <2>1, Beyond
  <2> QED
    BY <2>2 DEF Continues
<1>5. Due' = Due
  BY DEF Due
<1>6. CASE Len(delivered') = Len(delivered)
  BY <1>4, <1>6, Idle
<1>7. CASE Len(delivered') # Len(delivered)
  <2>1. Len(delivered') \in Len(delivered) + 1 .. Len(Due)
    <3>1. Len(delivered') \in Nat /\ Len(delivered) \in Nat /\ Len(Due) \in Nat
      BY <1>1
    <3> QED
      BY <1>4, <1>7, <3>1
  <2>2. Fifo!Receive
    BY <1>4, <1>5, <2>1 DEF Fifo!Receive, Due
  <2> QED
    BY <2>2 DEF FifoStep, Fifo!Next
<1> QED
  BY <1>6, <1>7

\* Reading, of an open connection or one that is broken off.
LEMMA FifoReads ==
    ASSUME TypeOK, TypeOK', Waiting, Row, ReadHandler
    PROVE  FifoStep
<1>1. PICK o \in Seq(Sent), r \in Seq(Sent), tail \in Seq(Byte) : \E rest : Broken(o, tail, rest, r)
  <2>1. reader = "reading"
    BY DEF ReadHandler
  <2>2. CASE closed
    BY <2>1, <2>2 DEF Row
  <2>3. CASE ~closed
    <3>1. PICK u \in Seq(Sent), v \in Seq(Sent) : InRow(u, v)
      BY <2>1, <2>3 DEF Row
    <3> QED
      BY <3>1, RowClose
  <2> QED
    BY <2>2, <2>3
<1>2. PICK rest : Broken(o, tail, rest, r)
  BY <1>1
<1>3. PICK j \in 1..Len(wire) : delivered' = Fed(j).out
  BY DEF ReadHandler
<1>4. j \in 0..Len(wire)
  BY DEF TypeOK
<1>5. PICK ms \in Seq(Sent) : Fed(j).out \in Seq(Sent) /\ FedTo(j, tail, o, rest, ms)
  BY <1>2, <1>4, FedAhead DEF Broken
<1>6. delivered \in Seq(Sent) /\ (delivered \o o) \o r = Due
  BY <1>2 DEF Broken, Ahead, Peer
<1>7. delivered' \in Seq(Sent) /\ delivered' \o ms = delivered \o o
  BY <1>3, <1>5 DEF FedTo
<1>8. Len(delivered) <= Len(delivered')
  BY <1>3, <1>4, <1>6, <1>7, FedGrows
<1>9. size' = size
  BY DEF ReadHandler, writeVars
<1> QED
  BY <1>6, <1>7, <1>8, <1>9, Takes

\* Every action is a step of the channel or is not seen.
LEMMA FifoSteps ==
    ASSUME TypeOK, TypeOK', Waiting, Row, [Next]_vars
    PROVE  FifoStep
<1>1. ASSUME NEW s \in Sizes, SendPacket(s)
      PROVE  FifoStep
  BY <1>1, FifoSends
<1>2. CASE ReadHandler
  BY <1>2, FifoReads
<1>3. CASE Flush \/ WriteHandlerWrapper
  <2>1. UNCHANGED <<size, readVars>>
    BY <1>3, WriteSteps
  <2> QED
    BY <2>1, Idle DEF readVars
<1>4. CASE Pack
  <2>1. UNCHANGED <<size, readVars>>
    BY <1>4 DEF Pack
  <2> QED
    BY <2>1, Idle DEF readVars
<1>5. CASE EndPack
  <2>1. UNCHANGED <<size, readVars>>
    BY <1>5 DEF EndPack
  <2> QED
    BY <2>1, Idle DEF readVars
<1>6. CASE BeginUpdate \/ CloseSocket \/ ReadFails \/ UNCHANGED vars
  <2>1. UNCHANGED <<size, delivered>>
    BY <1>6 DEF BeginUpdate, CloseSocket, ReadFails, vars, writeVars, readVars
  <2> QED
    BY <2>1, Idle
<1> QED
  BY <1>1, <1>2, <1>3, <1>4, <1>5, <1>6 DEF Next, Update

\* The connection is a FIFO channel as long as no packet meets a buffer in
\* which it fits and a header more does not (XSocket.cpp, Update's two tests):
\* the peer handles the packets in the order of SendPacket, each at most once
\* and none left out, also while the connection is being closed.
THEOREM ConnectionIsFifo == Spec /\ []Roomy => FifoSpec
<1>1. Init => FifoInv /\ Fifo!Init
  <2> SUFFICES ASSUME Init
               PROVE  FifoInv /\ Fifo!Init
    OBVIOUS
  <2>1. FifoInv
    BY TypeInit, OrderInit, RowInit DEF FifoInv, IInv
  <2>2. size = <<>> /\ delivered = <<>>
    BY DEF Init
  <2>3. Fifo!Init
    BY <2>2 DEF Fifo!Init
  <2> QED
    BY <2>1, <2>3
<1>2. FifoInv /\ Roomy /\ [Next]_vars => FifoInv' /\ FifoStep
  <2> SUFFICES ASSUME FifoInv, Roomy, [Next]_vars
               PROVE  FifoInv' /\ FifoStep
    OBVIOUS
  <2>1. TypeOK /\ Waiting /\ Order /\ Row
    BY DEF FifoInv, IInv
  <2>2. TypeOK' /\ Waiting'
    BY <2>1, TypeStep
  <2>3. Order'
    BY <2>1, <2>2, OrderStep
  <2>4. Row'
    BY RowStep
  <2>5. FifoStep
    BY <2>1, <2>2, FifoSteps
  <2> QED
    BY <2>2, <2>3, <2>4, <2>5 DEF FifoInv, IInv
<1>3. FifoStep <=> [Fifo!Next]_<<[n \in 1..Len(size) |-> n], delivered>>
  BY DEF FifoStep, Due
<1> QED
  BY <1>1, <1>2, <1>3, PTL DEF Spec, FifoSpec, Fifo!Spec
=============================================================================
