---------------------------- MODULE QueueProofs ----------------------------
(***************************************************************************)
(* Proofs about the two queues between threads.                            *)
(*                                                                         *)
(* MPSCQueue, for any number of producers and nodes: the chain invariant,  *)
(* that no deleted node is reached, and that the queue implements          *)
(* FifoChannel.                                                            *)
(*                                                                         *)
(* DatabasePool, for any number of workers, connections, rows and          *)
(* statements: every statement is in one place, statements are started in  *)
(* order, and no worker is left with a connection that was closed.  What   *)
(* makes both of the first inductive is InLine: the queue holds the        *)
(* numbers that follow those taken out of it, without a gap, so the head   *)
(* is later than all that was started and new to every worker.             *)
(***************************************************************************)
EXTENDS MPSCQueue, DatabasePool, TLAPS

-----------------------------------------------------------------------------
(* MPSCQueue *)

\* The history of exchanges as a sequence: what At says of its elements.
LEMMA AtNodes ==
    ASSUME MPSCTypeOK
    PROVE  /\ Len(sent) \in Nat
           /\ Len(received) \in Nat
           /\ \A i \in 0..Len(sent) : At(i) \in Nodes /\ At(i) \in Allocated
           /\ \A n \in Allocated : \E i \in 0..Len(sent) : n = At(i)
<1>1. Len(sent) \in Nat /\ Len(received) \in Nat
  BY DEF MPSCTypeOK
<1>2. \A i \in 0..Len(sent) : At(i) \in Nodes /\ At(i) \in Allocated
  BY <1>1, NodeAssumption DEF MPSCTypeOK, At, Allocated
<1>3. ASSUME NEW n \in Allocated
      PROVE  \E i \in 0..Len(sent) : n = At(i)
  <2>1. CASE n = Stub
    BY <2>1, <1>1 DEF At
  <2>2. ASSUME NEW i \in 1..Len(sent), n = sent[i]
        PROVE  \E j \in 0..Len(sent) : n = At(j)
    <3>1. i \in 0..Len(sent) /\ n = At(i)
      BY <2>2, <1>1 DEF At
    <3> QED
      BY <3>1
  <2> QED
    BY <2>1, <2>2 DEF Allocated
<1> QED
  BY <1>1, <1>2, <1>3

\* The constructor builds the chain that consists of the stub.
LEMMA QueueInit == MPSCInit => QueueInv
<1> SUFFICES ASSUME MPSCInit
             PROVE  QueueInv
  OBVIOUS
<1> USE NodeAssumption DEF MPSCInit
<1>1. MPSCTypeOK
  <2>1. <<>> \in Seq(Nodes)
    OBVIOUS
  <2>2. next \in [Nodes -> Nodes \cup {Null}]
    OBVIOUS
  <2>3. node \in [Producers -> Nodes \cup {Null}] /\ prevHead \in [Producers -> Nodes \cup {Null}]
    OBVIOUS
  <2> QED
    BY <2>1, <2>2, <2>3 DEF MPSCTypeOK
<1>2. Chain /\ Links
  BY DEF Chain, Links, At, Allocated
<1>3. Pending /\ OwnNodes /\ FreedPrefix
  BY DEF Pending, OwnNodes, FreedPrefix
<1> QED
  BY <1>1, <1>2, <1>3 DEF QueueInv

\* What an exchange does to the chain: one more node at the end.
LEMMA ExchangeChain ==
    ASSUME QueueInv, NEW p \in Producers, Exchange(p)
    PROVE  /\ MPSCTypeOK'
           /\ Len(sent') = Len(sent) + 1
           /\ \A i \in 1..Len(sent) : sent'[i] = sent[i]
           /\ sent'[Len(sent) + 1] = head'
           /\ head' \in Nodes \ Allocated
           /\ Allocated' = Allocated \cup {head'}
<1>1. PICK n \in Nodes \ Allocated :
          /\ node' = [node EXCEPT ![p] = n]
          /\ prevHead' = [prevHead EXCEPT ![p] = head]
          /\ head' = n
          /\ sent' = Append(sent, n)
  BY DEF Exchange
<1>2. MPSCTypeOK'
  BY <1>1 DEF QueueInv, MPSCTypeOK, Exchange
<1>3. /\ Len(sent) \in Nat
      /\ Len(sent') = Len(sent) + 1
      /\ \A i \in 1..Len(sent) : sent'[i] = sent[i]
      /\ sent'[Len(sent) + 1] = n
  BY <1>1 DEF QueueInv, MPSCTypeOK
<1>4. Allocated' = Allocated \cup {n}
  BY <1>3 DEF Allocated
<1> QED
  BY <1>1, <1>2, <1>3, <1>4

\* An exchange extends the chain by a node whose link is pending.
LEMMA ExchangeStep ==
    ASSUME QueueInv, NEW p \in Producers, Exchange(p)
    PROVE  QueueInv'
<1> DEFINE L == Len(sent)
           C(i) == IF i = 0 THEN Stub ELSE sent'[i]
<1>1. /\ L \in Nat /\ Len(received) \in Nat
      /\ \A i \in 0..L : At(i) \in Nodes /\ At(i) \in Allocated
  BY AtNodes DEF QueueInv
<1>2. /\ MPSCTypeOK'
      /\ Len(sent') = L + 1
      /\ \A i \in 1..L : sent'[i] = sent[i]
      /\ sent'[L + 1] = head'
      /\ head' \in Nodes \ Allocated
      /\ Allocated' = Allocated \cup {head'}
  BY ExchangeChain
<1>3. UNCHANGED <<tail, next, freed, destroyed, received>> /\ ~destroyed
  BY DEF Exchange
<1>4. /\ \A i \in 0..L : C(i) = At(i)
      /\ C(L + 1) = head'
      /\ \A i \in 0..(L + 1) : i \in 0..L \/ i = L + 1
  BY <1>1, <1>2 DEF At
<1> HIDE DEF C
<1>5. Chain'
  <2>1. ASSUME NEW i \in 0..(L + 1), NEW j \in 0..(L + 1), C(i) = C(j)
        PROVE  i = j
    BY <1>1, <1>2, <1>4, <2>1 DEF QueueInv, Chain
  <2>2. Len(received) <= L + 1 /\ tail' = C(Len(received))
    BY <1>1, <1>3, <1>4 DEF QueueInv, Chain
  <2>3. \A i \in 1..Len(received) : received[i] = sent'[i]
    BY <1>1, <1>2 DEF QueueInv, Chain
  <2>4. head' = C(L + 1)
    BY <1>4
  <2> QED
    BY <1>2, <1>3, <2>1, <2>2, <2>3, <2>4 DEF Chain, At, C
<1>6. Links'
  <2>1. next[head'] = Null
    BY <1>2 DEF QueueInv, Links
  <2>2. ASSUME NEW i \in 0..(L + 1), next[C(i)] # Null
        PROVE  i < L + 1 /\ next[C(i)] = C(i + 1)
    <3>1. i \in 0..L /\ C(i) = At(i)
      BY <1>4, <2>1, <2>2
    <3>2. i < L /\ next[C(i)] = At(i + 1)
      BY <3>1, <2>2 DEF QueueInv, Links
    <3> QED
      BY <1>1, <1>4, <3>1, <3>2
  <2>3. ASSUME NEW i \in 0..(L + 1), i < Len(received)
        PROVE  next[C(i)] # Null
    BY <1>1, <1>4, <2>3 DEF QueueInv, Links, Chain
  <2>4. \A n \in Nodes \ Allocated' : next'[n] = Null
    BY <1>2, <1>3 DEF QueueInv, Links
  <2> QED
    BY <1>2, <1>3, <2>2, <2>3, <2>4 DEF Links, At, C
<1>7. Pending'
  <2>1. ASSUME NEW q \in Producers, node'[q] # Null
        PROVE  \E i \in 1..(L + 1) : /\ node'[q] = C(i)
                                     /\ prevHead'[q] = C(i - 1)
                                     /\ next[C(i - 1)] = Null
    <3>1. CASE q = p
      <4>1. node'[p] = C(L + 1) /\ prevHead'[p] = At(L)
        BY <1>4 DEF Exchange, QueueInv, MPSCTypeOK, Chain
      <4>2. next[At(L)] = Null
        BY <1>1 DEF QueueInv, Links
      <4>3. At(L) = C((L + 1) - 1) /\ L + 1 \in 1..(L + 1)
        BY <1>1, <1>4
      <4> QED
        BY <3>1, <4>1, <4>2, <4>3
    <3>2. CASE q # p
      <4>1. node'[q] = node[q] /\ prevHead'[q] = prevHead[q]
        BY <3>2 DEF Exchange, QueueInv, MPSCTypeOK
      <4>2. PICK i \in 1..L : /\ node[q] = At(i)
                              /\ prevHead[q] = At(i - 1)
                              /\ next[At(i - 1)] = Null
        BY <2>1, <4>1 DEF QueueInv, Pending
      <4>3. C(i) = At(i) /\ C(i - 1) = At(i - 1) /\ i \in 1..(L + 1)
        BY <1>1, <1>4
      <4> QED
        BY <4>1, <4>2, <4>3
    <3> QED
      BY <3>1, <3>2
  <2> QED
    BY <1>2, <1>3, <2>1 DEF Pending, At, C
<1>8. FreedPrefix'
  BY <1>1, <1>2, <1>3, <1>4 DEF QueueInv, FreedPrefix, At, C
<1>9. OwnNodes'
  <2>1. \A q \in Producers : node[q] # Null => node[q] \in Allocated
    BY <1>1 DEF QueueInv, Pending
  <2>2. node' = [node EXCEPT ![p] = head']
    BY DEF Exchange
  <2> QED
    BY <1>2, <2>1, <2>2 DEF QueueInv, MPSCTypeOK, OwnNodes
<1> QED
  BY <1>2, <1>5, <1>6, <1>7, <1>8, <1>9 DEF QueueInv

\* A link puts the producer's node behind its predecessor and touches no
\* other link, because no other producer holds the same node.
LEMMA LinkStep ==
    ASSUME QueueInv, NEW p \in Producers, Link(p)
    PROVE  QueueInv'
<1> DEFINE L == Len(sent)
<1>1. /\ L \in Nat /\ Len(received) \in Nat
      /\ \A i \in 0..L : At(i) \in Nodes /\ At(i) \in Allocated
  BY AtNodes DEF QueueInv
<1>2. PICK k \in 1..L : /\ node[p] = At(k)
                        /\ prevHead[p] = At(k - 1)
                        /\ next[At(k - 1)] = Null
  BY DEF Link, QueueInv, Pending
<1>3. /\ UNCHANGED <<head, tail, freed, destroyed, sent, received>>
      /\ node' = [node EXCEPT ![p] = Null]
      /\ prevHead' = [prevHead EXCEPT ![p] = Null]
      /\ next' = [next EXCEPT ![At(k - 1)] = At(k)]
      /\ k - 1 \in 0..L /\ k \in 0..L
  BY <1>1, <1>2 DEF Link
<1>4. MPSCTypeOK'
  BY <1>1, <1>3 DEF QueueInv, MPSCTypeOK
<1>5. ASSUME NEW i \in 0..L, i # k - 1
      PROVE  next'[At(i)] = next[At(i)]
  <2>1. At(i) # At(k - 1)
    BY <1>3, <1>5 DEF QueueInv, Chain
  <2> QED
    BY <1>1, <1>3, <2>1 DEF QueueInv, MPSCTypeOK
<1>6. next'[At(k - 1)] = At(k)
  BY <1>1, <1>3 DEF QueueInv, MPSCTypeOK
<1>7. Chain'
  BY <1>3 DEF QueueInv, Chain, At
<1>8. Links'
  <2>1. ASSUME NEW i \in 0..L, next'[At(i)] # Null
        PROVE  i < L /\ next'[At(i)] = At(i + 1)
    <3>1. CASE i = k - 1
      BY <1>1, <1>2, <1>6, <3>1
    <3>2. CASE i # k - 1
      BY <1>5, <2>1, <3>2 DEF QueueInv, Links
    <3> QED
      BY <3>1, <3>2
  <2>2. ASSUME NEW i \in 0..L, i < Len(received)
        PROVE  next'[At(i)] # Null
    <3>1. CASE i = k - 1
      BY <1>1, <1>3, <1>6, <3>1, NodeAssumption
    <3>2. CASE i # k - 1
      BY <1>5, <2>2, <3>2 DEF QueueInv, Links
    <3> QED
      BY <3>1, <3>2
  <2>3. Allocated' = Allocated
    BY <1>3 DEF Allocated
  <2>4. \A n \in Nodes \ Allocated : next'[n] = Null
    BY <1>1, <1>3 DEF QueueInv, MPSCTypeOK, Links
  <2> QED
    BY <1>3, <2>1, <2>2, <2>3, <2>4 DEF Links, At
<1>9. Pending'
  <2>1. ASSUME NEW q \in Producers, node'[q] # Null
        PROVE  /\ ~destroyed
               /\ \E i \in 1..L : /\ node'[q] = At(i)
                                  /\ prevHead'[q] = At(i - 1)
                                  /\ next'[At(i - 1)] = Null
    <3>1. q # p /\ node'[q] = node[q] /\ prevHead'[q] = prevHead[q]
      BY <1>3, <2>1 DEF QueueInv, MPSCTypeOK
    <3>2. PICK i \in 1..L : /\ node[q] = At(i)
                            /\ prevHead[q] = At(i - 1)
                            /\ next[At(i - 1)] = Null
      BY <2>1, <3>1 DEF QueueInv, Pending
    <3>3. i # k
      BY <1>2, <2>1, <3>1, <3>2 DEF QueueInv, OwnNodes
    <3>4. i - 1 \in 0..L /\ i - 1 # k - 1
      BY <1>1, <3>3
    <3>5. next'[At(i - 1)] = Null
      BY <1>5, <3>2, <3>4
    <3>6. ~destroyed
      BY <2>1, <3>1 DEF QueueInv, Pending
    <3> QED
      BY <3>1, <3>2, <3>5, <3>6
  <2> QED
    BY <1>3, <2>1 DEF Pending, At
<1>10. OwnNodes'
  BY <1>3 DEF QueueInv, MPSCTypeOK, OwnNodes
<1>11. FreedPrefix'
  BY <1>3 DEF QueueInv, FreedPrefix, At
<1> QED
  BY <1>4, <1>7, <1>8, <1>9, <1>10, <1>11 DEF QueueInv

\* A packet that Dequeue finds is the one after the last it returned.
LEMMA DequeueNext ==
    ASSUME QueueInv, Dequeue
    PROVE  /\ Len(received) < Len(sent)
           /\ next[tail] = At(Len(received) + 1)
           /\ next[tail] = sent[Len(received) + 1]
<1>1. Len(received) \in 0..Len(sent) /\ tail = At(Len(received))
  BY AtNodes DEF QueueInv, Chain
<1>2. Len(received) < Len(sent) /\ next[tail] = At(Len(received) + 1)
  BY <1>1 DEF QueueInv, Links, Dequeue
<1> QED
  BY <1>1, <1>2 DEF At

\* Dequeue takes the first node off the chain and deletes the one before it.
LEMMA DequeueStep ==
    ASSUME QueueInv, Dequeue
    PROVE  QueueInv'
<1> DEFINE L == Len(sent)
           R == Len(received)
<1>1. /\ L \in Nat /\ R \in Nat
      /\ \A i \in 0..L : At(i) \in Nodes /\ At(i) \in Allocated
  BY AtNodes DEF QueueInv
<1>2. R < L /\ next[tail] = At(R + 1) /\ next[tail] = sent[R + 1] /\ tail = At(R)
  BY DequeueNext DEF QueueInv, Chain
<1>3. /\ UNCHANGED <<head, next, node, prevHead, destroyed, sent>>
      /\ tail' = At(R + 1)
      /\ freed' = freed \cup {At(R)}
      /\ received' = Append(received, At(R + 1))
      /\ R + 1 \in 0..L
  BY <1>1, <1>2 DEF Dequeue
<1>4. MPSCTypeOK'
  BY <1>1, <1>2, <1>3 DEF QueueInv, MPSCTypeOK
<1>5. /\ Len(received') = R + 1
      /\ \A i \in 1..R : received'[i] = received[i]
      /\ received'[R + 1] = sent[R + 1]
  BY <1>1, <1>2, <1>3 DEF QueueInv, MPSCTypeOK
<1>6. Chain'
  <2>1. \A i \in 1..(R + 1) : received'[i] = sent[i]
    BY <1>1, <1>5 DEF QueueInv, Chain
  <2> QED
    BY <1>1, <1>2, <1>3, <1>5, <2>1 DEF QueueInv, Chain, At
<1>7. Links'
  <2>1. \A i \in 0..L : i < R + 1 => next[At(i)] # Null
    <3>1. next[At(R)] # Null
      BY <1>2 DEF Dequeue
    <3> QED
      BY <1>1, <3>1 DEF QueueInv, Links
  <2> QED
    BY <1>3, <1>5, <2>1 DEF QueueInv, Links, At, Allocated
<1>8. Pending' /\ OwnNodes'
  BY <1>3 DEF QueueInv, Pending, OwnNodes, At
<1>9. FreedPrefix'
  <2>1. ASSUME ~destroyed, NEW n \in freed'
        PROVE  \E i \in 0..L : i < R + 1 /\ n = At(i)
    <3>1. CASE n \in freed
      BY <1>1, <2>1, <3>1 DEF QueueInv, FreedPrefix
    <3>2. CASE n = At(R)
      BY <1>1, <1>2, <3>2
    <3> QED
      BY <1>3, <3>1, <3>2
  <2> QED
    BY <1>3, <1>5, <2>1 DEF FreedPrefix, At
<1> QED
  BY <1>4, <1>6, <1>7, <1>8, <1>9 DEF QueueInv

\* The destructor runs on an empty queue and leaves no thread inside.
LEMMA DestroyStep ==
    ASSUME QueueInv, Destroy
    PROVE  QueueInv'
<1>1. /\ UNCHANGED <<head, tail, next, node, prevHead, sent, received>>
      /\ destroyed' = TRUE
      /\ freed' = freed \cup {head}
      /\ \A p \in Producers : node[p] = Null
  BY DEF Destroy
<1>2. MPSCTypeOK'
  BY <1>1 DEF QueueInv, MPSCTypeOK
<1>3. Chain' /\ Links'
  BY <1>1 DEF QueueInv, Chain, Links, At, Allocated
<1>4. Pending' /\ OwnNodes' /\ FreedPrefix'
  BY <1>1 DEF Pending, OwnNodes, FreedPrefix
<1> QED
  BY <1>2, <1>3, <1>4 DEF QueueInv

\* The invariant of the chain is inductive.
LEMMA QueueStep == QueueInv /\ [MPSCNext]_mpscVars => QueueInv'
<1> SUFFICES ASSUME QueueInv, [MPSCNext]_mpscVars
             PROVE  QueueInv'
  OBVIOUS
<1>1. ASSUME NEW p \in Producers, Exchange(p)
      PROVE  QueueInv'
  BY <1>1, ExchangeStep
<1>2. ASSUME NEW p \in Producers, Link(p)
      PROVE  QueueInv'
  BY <1>2, LinkStep
<1>3. CASE Dequeue
  BY <1>3, DequeueStep
<1>4. CASE Destroy
  BY <1>4, DestroyStep
<1>5. CASE UNCHANGED mpscVars
  BY <1>5 DEF mpscVars, QueueInv, MPSCTypeOK, Chain, Links, Pending, OwnNodes, FreedPrefix,
              At, Allocated
<1> QED
  BY <1>1, <1>2, <1>3, <1>4, <1>5 DEF MPSCNext

\* Every reachable queue is the chain of its exchanges with a prefix taken
\* off (MPSCQueue.h, Enqueue and Dequeue).
THEOREM QueueInvariance == MPSCSpec => []QueueInv
<1>1. MPSCInit => QueueInv
  BY QueueInit
<1>2. QueueInv /\ [MPSCNext]_mpscVars => QueueInv'
  BY QueueStep
<1> QED
  BY <1>1, <1>2, PTL DEF MPSCSpec

\* The pointers of the queue are nodes or nullptr (MPSCQueue.h, every operation).
THEOREM QueueTyping == MPSCSpec => []MPSCTypeOK
<1>1. QueueInv => MPSCTypeOK
  BY DEF QueueInv
<1> QED
  BY <1>1, QueueInvariance, PTL

\* The consumer, a producer between its two steps and the next exchange reach
\* only nodes that Dequeue has not deleted.
THEOREM NoNodeUsedAfterFree == MPSCSpec => []NoUseAfterFree
<1>1. ASSUME QueueInv
      PROVE  NoUseAfterFree
  <2>1. /\ Len(sent) \in Nat /\ Len(received) \in Nat
        /\ \A i \in 0..Len(sent) : At(i) \in Nodes
    BY <1>1, AtNodes DEF QueueInv
  <2>2. ASSUME ~destroyed, NEW i \in 0..Len(sent), i >= Len(received)
        PROVE  At(i) \notin freed
    BY <1>1, <2>1, <2>2 DEF QueueInv, Chain, FreedPrefix
  <2>3. ~destroyed => tail \notin freed /\ head \notin freed
    BY <1>1, <2>1, <2>2 DEF QueueInv, Chain
  <2>4. ASSUME NEW p \in Producers, node[p] # Null
        PROVE  prevHead[p] \notin freed /\ node[p] \notin freed
    <3>1. PICK i \in 1..Len(sent) : /\ node[p] = At(i)
                                    /\ prevHead[p] = At(i - 1)
                                    /\ next[At(i - 1)] = Null
      BY <1>1, <2>4 DEF QueueInv, Pending
    <3>2. ~destroyed
      BY <1>1, <2>4 DEF QueueInv, Pending
    <3>3. i - 1 \in 0..Len(sent) /\ i \in 0..Len(sent)
      BY <2>1
    <3>4. i - 1 >= Len(received)
      BY <1>1, <2>1, <3>1, <3>3 DEF QueueInv, Links
    <3> QED
      BY <2>1, <2>2, <3>1, <3>2, <3>3, <3>4
  <2> QED
    BY <2>3, <2>4 DEF NoUseAfterFree
<1>2. QueueInv => NoUseAfterFree
  BY <1>1
<1> QED
  BY <1>2, QueueInvariance, PTL

\* The queue implements a FIFO channel: the exchange of Enqueue sends, Dequeue
\* receives, and the link and the destructor are not seen.
THEOREM ImplementsFifo == MPSCSpec => FifoSpec
<1>1. MPSCInit => Fifo!Init
  BY DEF MPSCInit, Fifo!Init
<1>2. ASSUME QueueInv, [MPSCNext]_mpscVars
      PROVE  [Fifo!Next]_<<sent, received>>
  <2>1. ASSUME NEW p \in Producers, Exchange(p)
        PROVE  Fifo!Send
    <3>1. PICK n \in Nodes \ Allocated : sent' = Append(sent, n)
      BY <2>1 DEF Exchange
    <3>2. n \in Nodes \ {Stub} /\ UNCHANGED received
      BY <2>1, <3>1 DEF Exchange, Allocated
    <3> QED
      BY <3>1, <3>2 DEF Fifo!Send
  <2>2. ASSUME NEW p \in Producers, Link(p)
        PROVE  UNCHANGED <<sent, received>>
    BY <2>2 DEF Link
  <2>3. ASSUME Dequeue
        PROVE  Fifo!Receive
    <3>1. /\ Len(received) \in Nat /\ Len(sent) \in Nat
          /\ received \in Seq(Nodes) /\ sent \in Seq(Nodes)
      BY <1>2, AtNodes DEF QueueInv, MPSCTypeOK
    <3>2. /\ Len(received) < Len(sent)
          /\ received' = Append(received, sent[Len(received) + 1])
          /\ UNCHANGED sent
      BY <1>2, <2>3, DequeueNext DEF Dequeue
    <3>3. received' = received \o SubSeq(sent, Len(received) + 1, Len(received) + 1)
      BY <3>1, <3>2
    <3> QED
      BY <3>1, <3>2, <3>3 DEF Fifo!Receive
  <2>4. CASE Destroy
    BY <2>4 DEF Destroy
  <2>5. CASE UNCHANGED mpscVars
    BY <2>5 DEF mpscVars
  <2> QED
    BY <1>2, <2>1, <2>2, <2>3, <2>4, <2>5 DEF MPSCNext, Fifo!Next
<1>3. QueueInv /\ [MPSCNext]_mpscVars => [Fifo!Next]_<<sent, received>>
  BY <1>2
<1> QED
  BY <1>1, <1>3, QueueInvariance, PTL DEF MPSCSpec, FifoSpec, Fifo!Spec

-----------------------------------------------------------------------------
(* DatabasePool *)

Taken == pushed - Len(queue)

InLine ==
    /\ Len(queue) <= pushed
    /\ \A i \in 1..Len(queue) : queue[i] = Taken + i

Started ==
    /\ InHand \cup done \cup lost = 1..Taken
    /\ \A v, w \in Worker : v # w /\ op[v] = op[w] => op[w] = None
    /\ InHand \cap (done \cup lost) = {}
    /\ done \cap lost = {}

\* TypeOK in parts.
QueueTypes == queue \in Seq(1..MaxOps) /\ shutdown \in BOOLEAN /\ rowOf \in Seq(Row \cup {None})
WorkerTypes ==
    /\ pc \in [Worker -> Busy \cup {"ready", "waiting", "done"}]
    /\ op \in [Worker -> 1..MaxOps \cup {None}]
    /\ \A w \in Worker : op[w] # None <=> pc[w] \in Busy
    /\ token \in [Worker -> BOOLEAN]
    /\ tries \in [Worker -> 1..Attempts]
CloseTypes ==
    /\ open \subseteq Worker
    /\ closer \in {"open", "next", "cancel", "join", "closed"}
    /\ closing \in Worker \cup {None}
HistoryTypes == done \subseteq 1..MaxOps /\ lost \subseteq 1..MaxOps /\ faults \in 0..MaxFaults
TableTypes ==
    /\ table \in [Row -> 0..MaxOps]
    /\ holds \in [Caller -> Sync \cup {None}]
    /\ wants \in [Caller -> Row \cup {None}]

Types == QueueTypes /\ WorkerTypes /\ CloseTypes /\ HistoryTypes /\ TableTypes

LEMMA TypesAre == Types => TypeOK
  BY DEF Types, QueueTypes, WorkerTypes, CloseTypes, HistoryTypes, TableTypes, TypeOK

PoolInv == Types /\ InLine /\ Started /\ NotUsedClosed

LEMMA PoolInit == Init => PoolInv
  <1> SUFFICES ASSUME Init PROVE PoolInv
      OBVIOUS
  <1> USE DEF Init
  <1>1. QueueTypes
    <2>1. <<>> \in Seq(1..MaxOps) /\ <<>> \in Seq(Row \cup {None})
        OBVIOUS
    <2> QED BY <2>1 DEF QueueTypes
  <1>7. CloseTypes
      BY DEF CloseTypes
  <1>8. HistoryTypes
      BY PoolAssumption DEF HistoryTypes
  <1>2. WorkerTypes
      BY PoolAssumption DEF WorkerTypes, Busy
  <1>3. TableTypes
      BY PoolAssumption DEF TableTypes
  <1>4. InHand = {} /\ pushed = 0 /\ Len(queue) = 0
      BY DEF InHand, pushed
  <1>5. InLine /\ Started
      BY <1>4 DEF InLine, Started, Taken
  <1>6. NotUsedClosed
      BY DEF NotUsedClosed
  <1> QED BY <1>1, <1>2, <1>3, <1>5, <1>6, <1>7, <1>8 DEF PoolInv, Types

-----------------------------------------------------------------------------
(* Types *)

LEMMA Elements ==
  ASSUME NEW S, NEW s \in Seq(S)
  PROVE  \A i \in DOMAIN s : s[i] \in S
  <1>1. DOMAIN s = 1..Len(s)
      OBVIOUS
  <1>2. \A i \in 1..Len(s) : s[i] \in S
      OBVIOUS
  <1> QED BY <1>1, <1>2

LEMMA Execute_Types ==
  ASSUME Types, NEW r \in Row \cup {None}, Execute(r)
  PROVE  Types'
  <1> USE DEF Types
  <1>1. pushed \in Nat /\ pushed + 1 \in 1..MaxOps
      BY PoolAssumption DEF Execute, QueueTypes, pushed
  <1>2. QueueTypes'
      BY <1>1 DEF Execute, Push, QueueTypes
  <1>3. /\ pc' \in [Worker -> Busy \cup {"ready", "waiting", "done"}]
        /\ \A w \in Worker : pc'[w] \in Busy <=> pc[w] \in Busy
      BY DEF Execute, Push, Waiting, Busy, WorkerTypes
  <1>4. WorkerTypes'
      BY <1>3 DEF Execute, WorkerTypes
  <1>5. CloseTypes' /\ HistoryTypes' /\ TableTypes'
      BY DEF Execute, CloseTypes, HistoryTypes, TableTypes, closeVars, syncVars
  <1> QED BY <1>2, <1>4, <1>5

LEMMA Query_Types ==
  ASSUME Types, NEW c \in Caller, Query(c) \/ \E s \in Sync : GetFreeConnection(c, s)
  PROVE  Types'
  <1> USE DEF Types, queueVars, workVars, closeVars, history
  <1>1. UNCHANGED <<queueVars, workVars, closeVars, table, history>>
      BY DEF Query, GetFreeConnection
  <1>2. TableTypes'
      BY <1>1 DEF Query, GetFreeConnection, TableTypes
  <1>3. QueueTypes' /\ WorkerTypes' /\ CloseTypes' /\ HistoryTypes'
      BY <1>1 DEF QueueTypes, WorkerTypes, CloseTypes, HistoryTypes
  <1> QED BY <1>2, <1>3

LEMMA Work_Types ==
  ASSUME Types, NEW w \in Worker, Work(w) \/ Fault(w)
  PROVE  Types'
  <1> USE DEF Types, queueVars, closeVars, history, syncVars
  <1>1. ASSUME pc[w] \in Busy PROVE op[w] \in 1..MaxOps
      BY <1>1 DEF WorkerTypes
  <1>2. CloseTypes'
      BY DEF Work, Fault, WaitAndPop, CheckToken, Apply, Succeed, Reconnect, SpuriousWakeup, Skip,
             LoseConnection, ReconnectFails, CloseTypes
  <1>3. TableTypes'
    <2>1. CASE Apply(w)
      <3>1. op[w] \in 1..MaxOps /\ UNCHANGED <<holds, wants>>
          BY <1>1, <2>1 DEF Apply, Busy
      <3>2. table' = table \/ table' = [table EXCEPT ![rowOf[op[w]]] = op[w]]
          BY <2>1 DEF Apply
      <3>3. op[w] \in 0..MaxOps
          BY <3>1, PoolAssumption
      <3> QED BY <3>1, <3>2, <3>3 DEF TableTypes
    <2>2. CASE ~Apply(w)
        BY <2>2 DEF Work, Fault, WaitAndPop, CheckToken, Succeed, Reconnect, SpuriousWakeup, Skip,
                    LoseConnection, ReconnectFails, TableTypes
    <2> QED BY <2>1, <2>2
  <1>4. CASE WaitAndPop(w)
    <2>1. CASE queue # <<>> /\ op' = [op EXCEPT ![w] = Head(queue)] /\ queue' = Tail(queue)
               /\ pc' = [pc EXCEPT ![w] = "popped"]
      <3>1. Head(queue) \in 1..MaxOps /\ Tail(queue) \in Seq(1..MaxOps) /\ Head(queue) # None
          BY <2>1, PoolAssumption DEF QueueTypes
      <3>2. WorkerTypes'
          BY <1>4, <2>1, <3>1 DEF WaitAndPop, WorkerTypes, Busy
      <3>3. QueueTypes' /\ HistoryTypes'
          BY <1>4, <2>1, <3>1 DEF WaitAndPop, QueueTypes, HistoryTypes
      <3> QED BY <1>2, <1>3, <3>2, <3>3
    <2>2. CASE pc[w] = "ready" /\ UNCHANGED <<queue, op>>
               /\ (pc' = [pc EXCEPT ![w] = "waiting"] \/ pc' = [pc EXCEPT ![w] = "done"])
      <3>1. WorkerTypes'
          BY <1>4, <2>2 DEF WaitAndPop, WorkerTypes, Busy
      <3>2. QueueTypes' /\ HistoryTypes'
          BY <1>4, <2>2 DEF WaitAndPop, QueueTypes, HistoryTypes
      <3> QED BY <1>2, <1>3, <3>1, <3>2
    <2> QED BY <1>4, <2>1, <2>2 DEF WaitAndPop
  <1>5. CASE ~WaitAndPop(w)
    <2>1. QueueTypes'
        BY <1>5 DEF Work, Fault, CheckToken, Apply, Succeed, Reconnect, SpuriousWakeup, Skip,
                    LoseConnection, ReconnectFails, QueueTypes
    <2>2. HistoryTypes'
      <3>1. CASE CheckToken(w) \/ Succeed(w)
          BY <1>1, <3>1 DEF CheckToken, Succeed, HistoryTypes, Busy
      <3>2. CASE Apply(w) \/ Reconnect(w) \/ SpuriousWakeup(w)
          BY <3>2 DEF Apply, Reconnect, SpuriousWakeup, HistoryTypes
      <3>3. CASE Skip(w) \/ LoseConnection(w) \/ ReconnectFails(w)
        <4>1. faults' \in 0..MaxFaults
            BY <3>3, PoolAssumption DEF Skip, LoseConnection, ReconnectFails, HistoryTypes
        <4>2. done' = done /\ lost' \subseteq lost \cup {op[w]} /\ (lost' = lost \/ pc[w] \in Busy)
            BY <3>3 DEF Skip, LoseConnection, ReconnectFails, Busy
        <4> QED BY <1>1, <4>1, <4>2 DEF HistoryTypes
      <3> QED BY <1>5, <3>1, <3>2, <3>3 DEF Work, Fault
    <2>3. WorkerTypes'
      <3>1. CASE CheckToken(w)
          BY <3>1 DEF CheckToken, WorkerTypes, Busy
      <3>2. CASE Apply(w) \/ Reconnect(w) \/ LoseConnection(w) \/ SpuriousWakeup(w)
          BY <3>2 DEF Apply, Reconnect, LoseConnection, SpuriousWakeup, WorkerTypes, Busy
      <3>3. CASE Succeed(w) \/ Skip(w)
          BY <3>3, PoolAssumption DEF Succeed, Skip, Finish, WorkerTypes, Busy
      <3>4. CASE ReconnectFails(w)
        <4>1. tries[w] - 1 \in 1..Attempts
            BY <3>4, PoolAssumption DEF ReconnectFails, WorkerTypes
        <4> QED BY <3>4, <4>1 DEF ReconnectFails, WorkerTypes
      <3> QED BY <1>5, <3>1, <3>2, <3>3, <3>4 DEF Work, Fault
    <2> QED BY <1>2, <1>3, <2>1, <2>2, <2>3
  <1> QED BY <1>4, <1>5

LEMMA Close_Types ==
  ASSUME Types, CloseNext \/ CloseCancel \/ CloseJoin
  PROVE  Types'
  <1> USE DEF Types, queueVars, workVars, history, syncVars
  <1>1. CASE CloseNext \/ CloseJoin
    <2>1. QueueTypes' /\ HistoryTypes' /\ TableTypes'
        BY <1>1 DEF CloseNext, CloseJoin, QueueTypes, HistoryTypes, TableTypes
    <2>2. CloseTypes'
        BY <1>1 DEF CloseNext, CloseJoin, CloseTypes
    <2>3. WorkerTypes'
        BY <1>1 DEF CloseNext, CloseJoin, WorkerTypes, CloseTypes
    <2> QED BY <2>1, <2>2, <2>3
  <1>2. CASE CloseCancel
    <2>1. ToSet(queue) \subseteq 1..MaxOps
      <3>1. \A i \in DOMAIN queue : queue[i] \in 1..MaxOps
          BY Elements DEF QueueTypes
      <3> QED BY <3>1 DEF ToSet
    <2>2. HistoryTypes'
        BY <1>2, <2>1 DEF CloseCancel, Cancel, HistoryTypes
    <2>5. QueueTypes' /\ TableTypes' /\ CloseTypes'
        BY <1>2 DEF CloseCancel, Cancel, QueueTypes, TableTypes, CloseTypes
    <2>3. /\ pc' \in [Worker -> Busy \cup {"ready", "waiting", "done"}]
          /\ \A w \in Worker : pc'[w] \in Busy <=> pc[w] \in Busy
        BY <1>2 DEF CloseCancel, Cancel, Waiting, Busy, WorkerTypes
    <2>4. WorkerTypes'
        BY <1>2, <2>3 DEF CloseCancel, WorkerTypes
    <2> QED BY <2>2, <2>4, <2>5
  <1> QED BY <1>1, <1>2

LEMMA Step_Types ==
  ASSUME Types, [Next]_vars
  PROVE  Types'
  <1>1. CASE UNCHANGED vars
      BY <1>1 DEF Types, QueueTypes, WorkerTypes, CloseTypes, HistoryTypes, TableTypes, vars, queueVars,
                  workVars, closeVars, history, syncVars
  <1> QED BY <1>1, Execute_Types, Query_Types, Work_Types, Close_Types DEF Next, KeepAlive, Close

-----------------------------------------------------------------------------
(* The line *)

\* Which steps touch the line, what was taken from it, and where it is kept.
LEMMA Line_Kept ==
  ASSUME InLine, Started, UNCHANGED <<queue, rowOf, op, done, lost>>
  PROVE  InLine' /\ Started'
  BY DEF InLine, Started, Taken, InHand, pushed

LEMMA Numbers ==
  ASSUME Types
  PROVE  Len(queue) \in Nat /\ pushed \in Nat /\ Taken \in Int /\ None \notin Nat
  BY PoolAssumption DEF Types, QueueTypes, pushed, Taken

LEMMA Execute_Line ==
  ASSUME Types, InLine, Started, NEW r \in Row \cup {None}, Execute(r)
  PROVE  InLine' /\ Started'
  <1> USE DEF Types
  <1>1. /\ rowOf' = Append(rowOf, r) /\ queue' = Append(queue, pushed + 1)
        /\ UNCHANGED <<op, done, lost>>
      BY DEF Execute, Push
  <1>2. pushed' = pushed + 1 /\ Len(queue') = Len(queue) + 1 /\ Taken' = Taken
      BY <1>1, Numbers DEF QueueTypes, pushed, Taken
  <1>3. \A i \in 1..Len(queue') : queue'[i] = Taken' + i
    <2> SUFFICES ASSUME NEW i \in 1..Len(queue') PROVE queue'[i] = Taken' + i
        OBVIOUS
    <2>1. CASE i <= Len(queue)
      <3>1. i \in 1..Len(queue) /\ queue'[i] = queue[i]
          BY <1>1, <1>2, <2>1, Numbers DEF QueueTypes
      <3> QED BY <1>2, <3>1 DEF InLine
    <2>2. CASE ~(i <= Len(queue))
      <3>1. i = Len(queue) + 1 /\ queue'[i] = pushed + 1
          BY <1>1, <1>2, <2>2, Numbers DEF QueueTypes
      <3> QED BY <1>2, <3>1, Numbers DEF Taken
    <2> QED BY <2>1, <2>2
  <1>4. InLine'
      BY <1>2, <1>3, Numbers DEF InLine
  <1>5. Started'
      BY <1>1, <1>2 DEF Started, InHand
  <1> QED BY <1>4, <1>5

\* The head is the first number that nobody has had.
LEMMA Pop_Line ==
  ASSUME Types, InLine, Started, NEW w \in Worker, pc[w] = "ready", queue # <<>>,
         op' = [op EXCEPT ![w] = Head(queue)], queue' = Tail(queue), UNCHANGED <<rowOf, done, lost>>
  PROVE  InLine' /\ Started'
  <1> USE DEF Types
  <1>1. /\ Len(queue) >= 1 /\ Len(queue') = Len(queue) - 1
        /\ Taken' = Taken + 1 /\ pushed' = pushed /\ Taken \in Nat
      BY Numbers DEF QueueTypes, pushed, Taken, InLine
  <1>2. Head(queue) = Taken + 1
      BY <1>1 DEF InLine, QueueTypes
  <1>3. \A i \in 1..Len(queue') : queue'[i] = Taken' + i
    <2> SUFFICES ASSUME NEW i \in 1..Len(queue') PROVE queue'[i] = Taken' + i
        OBVIOUS
    <2>1. i + 1 \in 1..Len(queue) /\ queue'[i] = queue[i + 1]
        BY <1>1, Numbers DEF QueueTypes
    <2> QED BY <1>1, <2>1 DEF InLine
  <1>4. InLine'
      BY <1>1, <1>3, Numbers DEF InLine
  <1>5. op[w] = None
      BY DEF WorkerTypes, Busy
  <1>6. InHand' = InHand \cup {Taken + 1}
    <2>1. \A v \in Worker : op'[v] = IF v = w THEN Taken + 1 ELSE op[v]
        BY <1>2 DEF WorkerTypes
    <2>2. Taken + 1 # None
        BY <1>1, Numbers
    <2> QED BY <1>5, <2>1, <2>2 DEF InHand
  <1>7. Taken + 1 \notin 1..Taken /\ 1..(Taken + 1) = (1..Taken) \cup {Taken + 1}
      BY <1>1
  <1>8. InHand' \cup done' \cup lost' = 1..Taken'
      BY <1>1, <1>6, <1>7 DEF Started
  <1>9. InHand' \cap (done' \cup lost') = {} /\ done' \cap lost' = {}
      BY <1>6, <1>7 DEF Started
  <1>10. \A v, u \in Worker : v # u /\ op'[v] = op'[u] => op'[u] = None
    <2>1. \A v \in Worker : v # w => op'[v] = op[v] /\ (op[v] # None => op[v] \in InHand)
        BY DEF WorkerTypes, InHand
    <2>2. op'[w] = Taken + 1 /\ Taken + 1 \notin InHand /\ Taken + 1 # None
        BY <1>1, <1>2, <1>7, Numbers DEF WorkerTypes, Started
    <2> QED BY <2>1, <2>2 DEF Started
  <1> QED BY <1>4, <1>8, <1>9, <1>10 DEF Started

\* An operation that a worker is done with is executed, or given up.
LEMMA Leave_Line ==
  ASSUME Types, InLine, Started, NEW w \in Worker, pc[w] \in Busy,
         op' = [op EXCEPT ![w] = None], UNCHANGED <<rowOf, queue>>,
         \/ done' = done \cup {op[w]} /\ lost' = lost
         \/ lost' = lost \cup {op[w]} /\ done' = done
  PROVE  InLine' /\ Started'
  <1> USE DEF Types
  <1>1. InLine' /\ Taken' = Taken
      BY DEF InLine, Taken, pushed
  <1>2. op[w] # None /\ op[w] \in InHand
      BY DEF WorkerTypes, InHand
  <1>3. InHand' = InHand \ {op[w]}
    <2>1. \A v \in Worker : op'[v] = IF v = w THEN None ELSE op[v]
        BY DEF WorkerTypes
    <2>2. \A v \in Worker : v # w => op[v] # op[w]
        BY <1>2 DEF Started
    <2> QED BY <1>2, <2>1, <2>2 DEF InHand
  <1>4. \A v, u \in Worker : v # u /\ op'[v] = op'[u] => op'[u] = None
      BY DEF Started, WorkerTypes
  <1>5. InHand' \cup done' \cup lost' = 1..Taken'
      BY <1>1, <1>2, <1>3 DEF Started
  <1>6. InHand' \cap (done' \cup lost') = {} /\ done' \cap lost' = {}
      BY <1>2, <1>3 DEF Started
  <1> QED BY <1>1, <1>4, <1>5, <1>6 DEF Started

\* Cancel gives up all that is in the line.
LEMMA Cancel_Line ==
  ASSUME Types, InLine, Started, CloseCancel
  PROVE  InLine' /\ Started'
  <1> USE DEF Types
  <1>1. queue' = <<>> /\ lost' = lost \cup ToSet(queue) /\ UNCHANGED <<op, rowOf, done>>
      BY DEF CloseCancel, Cancel
  <1>2. Taken \in Nat /\ Taken <= pushed /\ pushed' = pushed /\ Len(queue') = 0 /\ Taken' = pushed
      BY <1>1, Numbers DEF Taken, InLine, pushed
  <1>3. ToSet(queue) = (Taken + 1)..pushed
    <2>1. DOMAIN queue = 1..Len(queue) /\ Taken + Len(queue) = pushed
        BY Numbers DEF QueueTypes, Taken
    <2>2. \A n \in (Taken + 1)..pushed : n - Taken \in 1..Len(queue) /\ queue[n - Taken] = n
        BY <1>2, <2>1, Numbers DEF InLine
    <2>3. \A i \in 1..Len(queue) : queue[i] \in (Taken + 1)..pushed
        BY <1>2, <2>1, Numbers DEF InLine
    <2> QED BY <2>1, <2>2, <2>3 DEF ToSet
  <1>4. /\ 1..pushed = (1..Taken) \cup ((Taken + 1)..pushed)
        /\ (1..Taken) \cap ((Taken + 1)..pushed) = {}
      BY <1>2, Numbers
  <1>5. InLine'
      BY <1>1, <1>2, Numbers DEF InLine
  <1>6. InHand' = InHand
      BY <1>1 DEF InHand
  <1>7. Started'
      BY <1>1, <1>2, <1>3, <1>4, <1>6 DEF Started
  <1> QED BY <1>5, <1>7

LEMMA Step_Line ==
  ASSUME Types, InLine, Started, [Next]_vars
  PROVE  InLine' /\ Started'
  <1> USE DEF queueVars, workVars, closeVars, history, syncVars
  <1>1. ASSUME NEW w \in Worker, Work(w) \/ Fault(w) PROVE InLine' /\ Started'
    <2>1. CASE WaitAndPop(w)
        BY <2>1, Line_Kept, Pop_Line DEF WaitAndPop
    <2>2. CASE CheckToken(w)
        BY <2>2, Line_Kept, Leave_Line DEF CheckToken, Busy
    <2>3. CASE Succeed(w) \/ Skip(w)
        BY <2>3, Leave_Line DEF Succeed, Skip, Finish, Busy
    <2>4. CASE Apply(w) \/ Reconnect(w) \/ SpuriousWakeup(w) \/ LoseConnection(w) \/ ReconnectFails(w)
        BY <2>4, Line_Kept DEF Apply, Reconnect, SpuriousWakeup, LoseConnection, ReconnectFails
    <2> QED BY <1>1, <2>1, <2>2, <2>3, <2>4 DEF Work, Fault
  <1>2. CASE CloseNext \/ CloseJoin \/ UNCHANGED vars
      BY <1>2, Line_Kept DEF CloseNext, CloseJoin, vars
  <1>3. ASSUME NEW c \in Caller, Query(c) \/ \E s \in Sync : GetFreeConnection(c, s)
        PROVE  InLine' /\ Started'
      BY <1>3, Line_Kept DEF Query, GetFreeConnection
  <1> QED BY <1>1, <1>2, <1>3, Execute_Line, Cancel_Line DEF Next, KeepAlive, Close

-----------------------------------------------------------------------------
(* A connection is closed after its worker has returned, and a worker that  *)
(* has returned is not woken.                                              *)
LEMMA Step_NotUsedClosed ==
  ASSUME Types, NotUsedClosed, [Next]_vars
  PROVE  NotUsedClosed'
  <1> USE DEF Types, queueVars, workVars, closeVars, history, syncVars
  <1>1. ASSUME NEW w \in Worker, Work(w) \/ Fault(w) PROVE NotUsedClosed'
    <2>1. open' = open /\ pc[w] # "done"
        BY <1>1 DEF Work, Fault, WaitAndPop, CheckToken, Apply, Succeed, Reconnect, SpuriousWakeup, Skip,
                    LoseConnection, ReconnectFails
    <2>2. \A v \in Worker : v # w => pc'[v] = pc[v]
        BY <1>1 DEF Work, Fault, WaitAndPop, CheckToken, Apply, Succeed, Reconnect, SpuriousWakeup, Skip,
                    LoseConnection, ReconnectFails, Finish, WorkerTypes
    <2> QED BY <2>1, <2>2 DEF NotUsedClosed
  <1>2. ASSUME UNCHANGED open, \A v \in Worker : pc[v] = "done" => pc'[v] = "done" PROVE NotUsedClosed'
      BY <1>2 DEF NotUsedClosed
  <1>3. CASE CloseNext \/ CloseCancel \/ UNCHANGED vars
      BY <1>2, <1>3 DEF CloseNext, CloseCancel, Cancel, Waiting, WorkerTypes, vars
  <1>4. CASE CloseJoin
      BY <1>4 DEF CloseJoin, NotUsedClosed
  <1>5. ASSUME NEW r \in Row \cup {None}, Execute(r) PROVE NotUsedClosed'
      BY <1>2, <1>5 DEF Execute, Push, Waiting, WorkerTypes
  <1>6. ASSUME NEW c \in Caller, Query(c) \/ \E s \in Sync : GetFreeConnection(c, s)
        PROVE  NotUsedClosed'
      BY <1>2, <1>6 DEF Query, GetFreeConnection
  <1> QED BY <1>1, <1>3, <1>4, <1>5, <1>6 DEF Next, KeepAlive, Close

-----------------------------------------------------------------------------
THEOREM PoolInvariance == Spec => []PoolInv
  <1>1. ASSUME PoolInv, [Next]_vars PROVE PoolInv'
      BY <1>1, Step_Types, Step_Line, Step_NotUsedClosed DEF PoolInv
  <1> QED BY <1>1, PoolInit, PTL DEF Spec

\* What is in the line comes after all that was taken out of it.
LEMMA Line_Order ==
  ASSUME Types, InLine, Started
  PROVE  /\ StartedInOrder
         /\ \A n \in ToSet(queue) : n \in (Taken + 1)..pushed
         /\ (Taken + 1)..pushed \subseteq ToSet(queue)
  <1>1. DOMAIN queue = 1..Len(queue) /\ Taken + Len(queue) = pushed /\ Taken \in Nat
      BY Numbers DEF Types, QueueTypes, Taken, InLine
  <1>2. \A n \in ToSet(queue) : n \in (Taken + 1)..pushed
      BY <1>1, Numbers DEF ToSet, InLine
  <1>3. (Taken + 1)..pushed \subseteq ToSet(queue)
    <2>1. \A n \in (Taken + 1)..pushed : n - Taken \in 1..Len(queue) /\ queue[n - Taken] = n
        BY <1>1, Numbers DEF InLine
    <2> QED BY <1>1, <2>1 DEF ToSet
  <1>4. \A m \in ToSet(queue) : \A n \in InHand \cup done : n < m
    <2>1. InHand \cup done \subseteq 1..Taken
        BY DEF Started
    <2> QED BY <1>1, <1>2, <2>1, Numbers
  <1>5. \A i, j \in DOMAIN queue : i < j => queue[i] < queue[j]
      BY <1>1, Numbers DEF InLine
  <1> QED BY <1>2, <1>3, <1>4, <1>5 DEF StartedInOrder

\* No statement is lost track of, or executed by two workers.
THEOREM EveryStatement == Spec => []Accounted
  <1>1. ASSUME PoolInv PROVE Accounted
    <2>1. Types /\ InLine /\ Started /\ TypeOK
        BY <1>1, TypesAre DEF PoolInv
    <2>2. Taken \in Nat /\ Taken <= pushed /\ pushed \in Nat
        BY <2>1, Numbers DEF InLine, Taken
    <2>3. ToSet(queue) = (Taken + 1)..pushed
        BY <2>1, Line_Order
    <2>4. /\ 1..pushed = (1..Taken) \cup ((Taken + 1)..pushed)
          /\ (1..Taken) \cap ((Taken + 1)..pushed) = {}
        BY <2>2
    <2> QED BY <2>1, <2>3, <2>4 DEF Accounted, Started
  <1> QED BY <1>1, PoolInvariance, PTL

\* What waits is later than all that was started.
THEOREM InOrder == Spec => []StartedInOrder
  <1>1. PoolInv => StartedInOrder
      BY Line_Order DEF PoolInv
  <1> QED BY <1>1, PoolInvariance, PTL

\* No worker uses a connection that was closed.
THEOREM ClosedUnused == Spec => []NotUsedClosed
  <1>1. PoolInv => NotUsedClosed
      BY DEF PoolInv
  <1> QED BY <1>1, PoolInvariance, PTL
=============================================================================
