----------------------------- MODULE MPSCQueue -----------------------------
(***************************************************************************)
(* The lock-free queue between the threads that send packets and the       *)
(* network thread that writes them (Threading/MPSCQueue.h, after Vyukov).  *)
(*                                                                         *)
(* Enqueue is two atomic steps, an exchange of _head and a store that      *)
(* links the node; between them the chain is broken and Dequeue finds      *)
(* nothing behind the break.  Dequeue is one step: only the consumer       *)
(* writes _tail, and it reads one Next field.  The exchange is acq_rel and *)
(* the link a release that Dequeue acquires, so the steps may be taken to  *)
(* be sequentially consistent.                                             *)
(*                                                                         *)
(* A node stands for the packet it carries.  A node that was deleted is    *)
(* not allocated again here: what matters is that nothing reaches it.      *)
(* (The prefix keeps apart the definitions that DatabasePool has as well.) *)
(***************************************************************************)
EXTENDS Naturals, Sequences, FiniteSets

CONSTANTS Producers, \* threads that call Enqueue
          Nodes,     \* addresses of queue nodes
          Stub,      \* the node the constructor allocates
          Null       \* nullptr

ASSUME NodeAssumption == Stub \in Nodes /\ Null \notin Nodes

VARIABLES head,      \* _head
          tail,      \* _tail
          next,      \* Node::Next of every node
          node,      \* the node a producer is enqueuing, Null outside Enqueue
          prevHead,  \* what its exchange returned
          freed,     \* nodes that were deleted
          destroyed, \* ~MPSCQueue has run
          sent,      \* history: nodes in the order of their exchange
          received   \* history: nodes in the order Dequeue returned them

mpscVars == <<head, tail, next, node, prevHead, freed, destroyed, sent, received>>

MPSCInit ==
    /\ head = Stub
    /\ tail = Stub
    /\ next = [n \in Nodes |-> Null]
    /\ node = [p \in Producers |-> Null]
    /\ prevHead = [p \in Producers |-> Null]
    /\ freed = {}
    /\ destroyed = FALSE
    /\ sent = <<>>
    /\ received = <<>>

\* The nodes that were ever allocated.
Allocated == {Stub} \cup {sent[i] : i \in 1..Len(sent)}

-----------------------------------------------------------------------------

\* Enqueue up to the exchange: a fresh node becomes the head.
Exchange(p) ==
    /\ node[p] = Null
    /\ ~destroyed
    /\ \E n \in Nodes \ Allocated :
          /\ node' = [node EXCEPT ![p] = n]
          /\ prevHead' = [prevHead EXCEPT ![p] = head]
          /\ head' = n
          /\ sent' = Append(sent, n)
    /\ UNCHANGED <<tail, next, freed, destroyed, received>>

\* Mutant: the link is skipped when the consumer waits elsewhere.
Link_OnlyAtTail(p) ==
    /\ node[p] # Null
    /\ next' = [next EXCEPT ![prevHead[p]] =
                   IF prevHead[p] = tail THEN node[p] ELSE Null]
    /\ node' = [node EXCEPT ![p] = Null]
    /\ prevHead' = [prevHead EXCEPT ![p] = Null]
    /\ UNCHANGED <<head, tail, freed, destroyed, sent, received>>

\* The rest of Enqueue: the former head gets its successor.
Link(p) ==
    /\ node[p] # Null
    /\ next' = [next EXCEPT ![prevHead[p]] = node[p]]
    /\ node' = [node EXCEPT ![p] = Null]
    /\ prevHead' = [prevHead EXCEPT ![p] = Null]
    /\ UNCHANGED <<head, tail, freed, destroyed, sent, received>>

\* Mutant: the node just returned is deleted instead of the one before it.
Dequeue_FreesNext ==
    /\ ~destroyed
    /\ next[tail] # Null
    /\ received' = Append(received, next[tail])
    /\ tail' = next[tail]
    /\ freed' = freed \cup {next[tail]}
    /\ UNCHANGED <<head, next, node, prevHead, destroyed, sent>>

\* Mutant: the data of the node before is returned.
Dequeue_TailData ==
    /\ ~destroyed
    /\ next[tail] # Null
    /\ received' = Append(received, tail)
    /\ tail' = next[tail]
    /\ freed' = freed \cup {tail}
    /\ UNCHANGED <<head, next, node, prevHead, destroyed, sent>>

\* Dequeue of a packet.  (A Dequeue that finds no successor changes nothing.)
Dequeue ==
    /\ ~destroyed
    /\ next[tail] # Null
    /\ received' = Append(received, next[tail])
    /\ tail' = next[tail]
    /\ freed' = freed \cup {tail}
    /\ UNCHANGED <<head, next, node, prevHead, destroyed, sent>>

\* ~MPSCQueue, when no thread is left in Enqueue: Dequeue until it fails, then
\* delete the remaining node.
Destroy ==
    /\ ~destroyed
    /\ \A p \in Producers : node[p] = Null
    /\ next[tail] = Null
    /\ destroyed' = TRUE
    /\ freed' = freed \cup {head}
    /\ UNCHANGED <<head, tail, next, node, prevHead, sent, received>>

MPSCNext == \/ \E p \in Producers : Exchange(p) \/ Link(p)
        \/ Dequeue
        \/ Destroy

MPSCSpec == MPSCInit /\ [][MPSCNext]_mpscVars

\* A producer between its two steps is running and takes the second one; the
\* network thread calls Dequeue at every tick.
MPSCFairSpec == MPSCSpec /\ WF_mpscVars(Dequeue)
                 /\ \A p \in Producers : WF_mpscVars(Link(p))

-----------------------------------------------------------------------------
(* Properties *)

MPSCTypeOK ==
    /\ head \in Nodes
    /\ tail \in Nodes
    /\ next \in [Nodes -> Nodes \cup {Null}]
    /\ node \in [Producers -> Nodes \cup {Null}]
    /\ prevHead \in [Producers -> Nodes \cup {Null}]
    /\ freed \subseteq Nodes
    /\ destroyed \in BOOLEAN
    /\ sent \in Seq(Nodes)
    /\ received \in Seq(Nodes)

\* No thread holds a pointer it is going to follow to a node that was deleted:
\* not the consumer, not a producer between its two steps, not the next one to
\* exchange the head.
NoUseAfterFree ==
    /\ ~destroyed => tail \notin freed /\ head \notin freed
    /\ \A p \in Producers : node[p] # Null => /\ prevHead[p] \notin freed
                                              /\ node[p] \notin freed

\* The queue is a FIFO channel for the packets, in the order in which the
\* exchanges happened: nothing is lost, duplicated or overtaken, whatever the
\* producers do between their two steps.
Fifo == INSTANCE FifoChannel WITH Msgs <- Nodes \ {Stub}

FifoSpec == Fifo!Spec

\* The inductive invariant behind the two: the nodes form the chain Stub,
\* sent[1], sent[2], ... from which Dequeue has taken a prefix; every link
\* that exists leads to the next node of the chain; a link that is missing
\* belongs to one producer between its two steps.
At(i) == IF i = 0 THEN Stub ELSE sent[i]

Chain ==
    /\ Len(received) <= Len(sent)
    /\ \A i \in 1..Len(received) : received[i] = sent[i]
    /\ head = At(Len(sent))
    /\ tail = At(Len(received))
    /\ \A i, j \in 0..Len(sent) : At(i) = At(j) => i = j

Links ==
    /\ \A i \in 0..Len(sent) : next[At(i)] # Null =>
           i < Len(sent) /\ next[At(i)] = At(i + 1)
    /\ \A i \in 0..Len(sent) : i < Len(received) => next[At(i)] # Null
    /\ \A n \in Nodes \ Allocated : next[n] = Null

Pending ==
    \A p \in Producers : node[p] # Null =>
        /\ ~destroyed
        /\ \E i \in 1..Len(sent) : /\ node[p] = At(i)
                                   /\ prevHead[p] = At(i - 1)
                                   /\ next[At(i - 1)] = Null

OwnNodes == \A p, q \in Producers : node[p] # Null /\ node[p] = node[q] => p = q

FreedPrefix ==
    ~destroyed => \A n \in freed : \E i \in 0..Len(sent) :
                                       i < Len(received) /\ n = At(i)

QueueInv == MPSCTypeOK /\ Chain /\ Links /\ Pending /\ OwnNodes /\ FreedPrefix

\* A packet that entered the queue is delivered to the network thread.
Delivered ==
    \A n \in Nodes : (\E i \in 1..Len(sent) : sent[i] = n)
                         ~> (\E i \in 1..Len(received) : received[i] = n)
=============================================================================
