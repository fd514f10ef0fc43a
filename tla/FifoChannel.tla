---------------------------- MODULE FifoChannel ----------------------------
(***************************************************************************)
(* What a queue or a connection promises: messages come out in the order   *)
(* they were put in, each of them once, and none that was not put in.      *)
(* Several may be taken at once, and taking may fail although the channel  *)
(* is not empty.                                                           *)
(***************************************************************************)
EXTENDS Naturals, Sequences

CONSTANT Msgs

VARIABLES sent,     \* every message put in, in order
          received  \* every message taken out, in order

Init == sent = <<>> /\ received = <<>>

Send == /\ \E m \in Msgs : sent' = Append(sent, m)
        /\ UNCHANGED received

Receive == /\ \E n \in Len(received) + 1 .. Len(sent) :
                 received' = received \o SubSeq(sent, Len(received) + 1, n)
           /\ UNCHANGED sent

Next == Send \/ Receive

Spec == Init /\ [][Next]_<<sent, received>>
=============================================================================
