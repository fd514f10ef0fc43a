---------------------------- MODULE PacketStream ----------------------------
(***************************************************************************)
(* One direction of a connection: packets given to XSocket::SendPacket are *)
(* packed into send buffers by XSocket::Update, written piecemeal by       *)
(* Socket::HandleQueue, and put together again by XSocket::ReadHandler of  *)
(* the peer.  The lock-free queue in front is taken as the FIFO channel    *)
(* that MPSCQueue implements.                                              *)
(*                                                                         *)
(* Packets are numbered in the order of SendPacket; a byte is named by its *)
(* packet and its offset.  The n-th packet encoded uses the n-th part of   *)
(* the key stream, so an encrypted reader recognises a header only if it   *)
(* is that of the packet whose turn it is.                                 *)
(*                                                                         *)
(* The write side runs on one network thread: Update and the completion    *)
(* handler do not interleave, SendPacket interleaves with both.  This is   *)
(* the case for all sockets an acceptor made.  DelayedCloseSocket is not   *)
(* called anywhere, so _closing stays FALSE and is left out.               *)
(***************************************************************************)
EXTENDS Naturals, Sequences, SequencesExt

CONSTANTS Sizes,          \* sizes of packets, header included
          HeaderSize,     \* HEADER_SIZE
          SendBufferSize, \* _sendBufferSize
          WireSize,       \* what the kernel's buffers hold
          MaxPackets,     \* bound: packets sent
          MaxSize,        \* the largest size that ReadHeaderHandler accepts
          Unknown         \* packets that ProcessIncoming answers with Error

ASSUME SizeAssumption == /\ HeaderSize \in Nat \ {0}
                         /\ Sizes \subseteq Nat
                         /\ \A n \in Sizes : n >= HeaderSize
                         /\ SendBufferSize \in Nat
                         /\ WireSize \in Nat \ {0}
                         /\ MaxPackets \in Nat
                         /\ MaxSize \in Nat

VARIABLES size,           \* history: size of every packet sent
          bufferQueue,    \* _bufferQueue
          pc,             \* where the network thread is in Update
          buffer,         \* the local buffer of Update
          writeQueue,     \* _writeQueue
          isWritingAsync, \* _isWritingAsync
          closed,         \* _closed
          cramped,        \* history: packets that Roomy is not true of
          wire,           \* bytes written and not yet read
          encrypted,      \* IsEncrypted(): of a client's connection, not of a server's
          reader,         \* the peer: reading, stopped, garbled or closed
          headerBuffer,   \* its _headerBuffer
          packetBuffer,   \* its _packetBuffer
          delivered       \* packets it handled, Torn for a mixture

writeVars == <<size, bufferQueue, pc, buffer, writeQueue, isWritingAsync, closed, cramped>>
readVars == <<encrypted, reader, headerBuffer, packetBuffer, delivered>>
vars == <<writeVars, wire, readVars>>

Packets == 1..MaxPackets
Torn == 0
Byte == Packets \X (Nat \ {0})
BytesOf(n) == [k \in 1..size[n] |-> <<n, k>>]
StreamOf(ns) == FlattenSeq([k \in 1..Len(ns) |-> BytesOf(ns[k])])

Init ==
    /\ size = <<>>
    /\ bufferQueue = <<>>
    /\ pc = "idle"
    /\ buffer = <<>>
    /\ writeQueue = <<>>
    /\ isWritingAsync = FALSE
    /\ closed = FALSE
    /\ cramped = {}
    /\ wire = <<>>
    /\ encrypted \in BOOLEAN
    /\ reader = "reading"
    /\ headerBuffer = <<>>
    /\ packetBuffer = <<>>
    /\ delivered = <<>>

-----------------------------------------------------------------------------
(* Sending *)

\* XSocket::SendPacket, by any thread.
SendPacket(s) ==
    /\ ~closed
    /\ Len(size) < MaxPackets
    /\ size' = Append(size, s)
    /\ bufferQueue' = Append(bufferQueue, Len(size) + 1)
    /\ UNCHANGED <<pc, buffer, writeQueue, isWritingAsync, closed, cramped, wire, readVars>>

\* The network thread enters Update (which changes nothing when there is
\* nothing to pack and nothing to write, or a notification is awaited).
BeginUpdate ==
    /\ pc = "idle"
    /\ bufferQueue # <<>> \/ (writeQueue # <<>> /\ ~isWritingAsync)
    /\ pc' = "pack"
    /\ UNCHANGED <<size, bufferQueue, buffer, writeQueue, isWritingAsync, closed, cramped, wire, readVars>>

\* No packet meets a buffer with packets in it and with room for it but not for
\* a header more, for which the two tests of Update come to different results.
Roomy ==
    pc = "pack" /\ bufferQueue # <<>> /\ buffer # <<>> =>
        LET n == Head(bufferQueue)
            left == SendBufferSize - Len(buffer)
        IN  size[n] > left \/ size[n] + HeaderSize <= left

\* Mutant: a packet larger than the buffer does not send it on its way.
Pack_KeepsBuffer ==
    LET n == Head(bufferQueue)
        full == size[n] \in (SendBufferSize - Len(buffer) + 1)..SendBufferSize
        queue == IF full THEN Append(writeQueue, buffer) ELSE writeQueue
        rest == IF full THEN <<>> ELSE buffer
        fits == SendBufferSize - Len(rest) >= size[n] + HeaderSize
    IN  /\ pc = "pack"
        /\ bufferQueue # <<>>
        /\ bufferQueue' = Tail(bufferQueue)
        /\ IF fits
           THEN buffer' = rest \o BytesOf(n) /\ writeQueue' = queue
           ELSE buffer' = rest /\ writeQueue' = Append(queue, BytesOf(n))
        /\ cramped' = IF Roomy THEN cramped ELSE cramped \cup {n}
        /\ UNCHANGED <<size, pc, isWritingAsync, closed, wire, readVars>>

\* The loop of Update: a packet that the buffer has no room for sends the
\* buffer on its way; then it is added to the buffer if a header's size of
\* room is left besides, and else queued at once in a buffer of its own.
Pack ==
    LET n == Head(bufferQueue)
        full == SendBufferSize - Len(buffer) < size[n]
        queue == IF full THEN Append(writeQueue, buffer) ELSE writeQueue
        rest == IF full THEN <<>> ELSE buffer
        fits == SendBufferSize - Len(rest) >= size[n] + HeaderSize
    IN  /\ pc = "pack"
        /\ bufferQueue # <<>>
        /\ bufferQueue' = Tail(bufferQueue)
        /\ IF fits
           THEN buffer' = rest \o BytesOf(n) /\ writeQueue' = queue
           ELSE buffer' = rest /\ writeQueue' = Append(queue, BytesOf(n))
        /\ cramped' = IF Roomy THEN cramped ELSE cramped \cup {n}
        /\ UNCHANGED <<size, pc, isWritingAsync, closed, wire, readVars>>

\* Mutant: the last buffer is forgotten.
EndPack_ForgetsBuffer ==
    /\ pc = "pack"
    /\ bufferQueue = <<>>
    /\ buffer' = <<>>
    /\ pc' = IF closed THEN "dropped"
             ELSE IF isWritingAsync \/ writeQueue = <<>> THEN "idle"
             ELSE "flush"
    /\ UNCHANGED <<size, bufferQueue, writeQueue, isWritingAsync, closed, cramped, wire, readVars>>

\* Update after its loop, up to the first call of HandleQueue.  The socket of
\* a closed connection is dropped with what its queues hold.
EndPack ==
    LET queue == IF buffer # <<>> THEN Append(writeQueue, buffer) ELSE writeQueue
    IN  /\ pc = "pack"
        /\ bufferQueue = <<>>
        /\ writeQueue' = queue
        /\ buffer' = <<>>
        /\ pc' = IF closed THEN "dropped"
                 ELSE IF isWritingAsync \/ queue = <<>> THEN "idle"
                 ELSE "flush"
        /\ UNCHANGED <<size, bufferQueue, isWritingAsync, closed, cramped, wire, readVars>>

\* Socket::HandleQueue on an open connection.  write_some takes some bytes of
\* the front buffer, or none when the kernel's buffer is full; an empty front
\* buffer is dropped.  Unless the whole buffer went, a notification is asked
\* for (AsyncProcessQueue) and the loop of Update ends.
WriteSome(async) ==
    LET front == Head(writeQueue)
        room == WireSize - Len(wire)
    IN  IF room = 0 \/ Len(front) = 0
        THEN /\ isWritingAsync' = (Len(front) # 0)
             /\ writeQueue' = IF Len(front) = 0 THEN Tail(writeQueue) ELSE writeQueue
             /\ pc' = "idle"
             /\ UNCHANGED wire
        ELSE \E j \in 1..(IF room < Len(front) THEN room ELSE Len(front)) :
                /\ wire' = wire \o SubSeq(front, 1, j)
                /\ writeQueue' =
                      IF j = Len(front) THEN Tail(writeQueue)
                      ELSE [writeQueue EXCEPT ![1] = SubSeq(front, j + 1, Len(front))]
                /\ isWritingAsync' = (j < Len(front))
                /\ pc' = IF j < Len(front) \/ async \/ Len(writeQueue) = 1
                         THEN "idle" ELSE "flush"

\* HandleQueue after the connection was closed: the write fails with another
\* error than would_block, and the front buffer is dropped.
WriteFails ==
    /\ writeQueue' = Tail(writeQueue)
    /\ isWritingAsync' = FALSE
    /\ pc' = "idle"
    /\ UNCHANGED wire

\* The loop of Socket::Update.
Flush ==
    /\ pc = "flush"
    /\ IF closed THEN WriteFails ELSE WriteSome(FALSE)
    /\ UNCHANGED <<size, bufferQueue, buffer, closed, cramped, readVars>>

\* The socket has become writable: the flag is cleared and HandleQueue called
\* once.
WriteHandlerWrapper ==
    /\ pc = "idle"
    /\ isWritingAsync
    /\ Len(wire) < WireSize \/ closed
    /\ CASE writeQueue = <<>> -> /\ isWritingAsync' = FALSE
                                 /\ UNCHANGED <<pc, writeQueue, wire>>
         [] writeQueue # <<>> /\ closed -> WriteFails
         [] OTHER -> WriteSome(TRUE)
    /\ UNCHANGED <<size, bufferQueue, buffer, closed, cramped, readVars>>

\* CloseSocket, called by a handler or by another thread.
CloseSocket ==
    /\ ~closed
    /\ closed' = TRUE
    /\ UNCHANGED <<size, bufferQueue, pc, buffer, writeQueue, isWritingAsync, cramped, wire, readVars>>

-----------------------------------------------------------------------------
(* Receiving *)

Peer == [state |-> reader, header |-> headerBuffer,
         payload |-> packetBuffer, out |-> delivered]

\* The header in the buffer is that of packet n and is decoded as such.
Recognised(header, n, out) ==
    /\ header = SubSeq(BytesOf(n), 1, HeaderSize)
    /\ encrypted => n = Len(out) + 1

\* Mutant: the header buffer is not reset after a packet.
Feed_KeepsHeader(b, p) ==
    LET inHeader == Len(p.header) < HeaderSize
        header == IF inHeader THEN Append(p.header, b) ELSE p.header
        payload == IF inHeader THEN p.payload ELSE Append(p.payload, b)
        n == header[1][1]
    IN  IF p.state # "reading" THEN p
        ELSE IF Len(header) < HeaderSize \/ Len(payload) < size[n] - HeaderSize
        THEN [p EXCEPT !.header = header, !.payload = payload]
        ELSE [state |-> "reading", header |-> header, payload |-> <<>>,
              out |-> Append(p.out, IF header \o payload = BytesOf(n)
                                    THEN n ELSE Torn)]

\* One byte of the loop of ReadHandler (which takes as many at a time as the
\* header or the payload still needs).  The size of the payload is read from
\* the header; a header that is not recognised has any size, and what follows
\* is garbled or the connection is closed, as it is for a packet larger than
\* MaxSize.  When the payload is complete the packet is handled; if the answer
\* is Error no further read is started.
Feed(b, p) ==
    LET inHeader == Len(p.header) < HeaderSize
        header == IF inHeader THEN Append(p.header, b) ELSE p.header
        payload == IF inHeader THEN p.payload ELSE Append(p.payload, b)
        n == header[1][1]
    IN  IF p.state # "reading" THEN p
        ELSE IF Len(header) < HeaderSize
        THEN [p EXCEPT !.header = header]
        ELSE IF ~Recognised(header, n, p.out)
        THEN [p EXCEPT !.state = "garbled", !.header = header]
        ELSE IF size[n] > MaxSize
        THEN [p EXCEPT !.state = "closed", !.header = header]
        ELSE IF Len(payload) < size[n] - HeaderSize
        THEN [p EXCEPT !.header = header, !.payload = payload]
        ELSE [state |-> IF n \in Unknown THEN "stopped" ELSE "reading",
              header |-> <<>>, payload |-> <<>>,
              out |-> Append(p.out, IF header \o payload = BytesOf(n)
                                    THEN n ELSE Torn)]

\* The loop over the first j bytes that arrived.
Fed(j) ==
    LET after[k \in 0..j] == IF k = 0 THEN Peer ELSE Feed(wire[k], after[k - 1])
    IN  after[j]

\* ReadHandlerInternal and ReadHandler: some bytes have arrived.
ReadHandler ==
    /\ reader = "reading"
    /\ \E j \in 1..Len(wire) :
          LET p == Fed(j)
          IN  /\ reader' = p.state
              /\ headerBuffer' = p.header
              /\ packetBuffer' = p.payload
              /\ delivered' = p.out
              /\ wire' = SubSeq(wire, j + 1, Len(wire))
    /\ UNCHANGED <<writeVars, encrypted>>

\* The end of the stream, or any read of a peer that lost the framing.
ReadFails ==
    /\ \/ reader = "reading" /\ closed /\ wire = <<>>
       \/ reader = "garbled"
    /\ reader' = "closed"
    /\ UNCHANGED <<writeVars, wire, encrypted, headerBuffer, packetBuffer, delivered>>

-----------------------------------------------------------------------------

Update == BeginUpdate \/ Pack \/ EndPack \/ Flush

Next == \/ \E s \in Sizes : SendPacket(s)
        \/ Update
        \/ WriteHandlerWrapper
        \/ CloseSocket
        \/ ReadHandler
        \/ ReadFails

Spec == Init /\ [][Next]_vars

\* The network threads of both ends run: Update every 10 ms, and the handlers
\* when their operation completes.
FairSpec == Spec /\ WF_vars(Update)
                 /\ WF_vars(WriteHandlerWrapper)
                 /\ WF_vars(ReadHandler)

-----------------------------------------------------------------------------
(* Properties *)

TypeOK ==
    /\ size \in Seq(Sizes) /\ Len(size) <= MaxPackets
    /\ bufferQueue \in Seq(Packets)
    /\ pc \in {"idle", "pack", "flush", "dropped"}
    /\ buffer \in Seq(Byte)
    /\ writeQueue \in Seq(Seq(Byte))
    /\ isWritingAsync \in BOOLEAN
    /\ closed \in BOOLEAN
    /\ cramped \subseteq Packets
    /\ encrypted \in BOOLEAN
    /\ wire \in Seq(Byte) /\ Len(wire) <= WireSize
    /\ reader \in {"reading", "stopped", "garbled", "closed"}
    /\ headerBuffer \in Seq(Byte) /\ Len(headerBuffer) <= HeaderSize
    /\ packetBuffer \in Seq(Byte)
    /\ delivered \in Seq(Packets \cup {Torn})

\* Bytes leave the buffers only towards the wire: as long as the connection is
\* open, every byte of a packet sent is in exactly one place, once, whatever
\* the sizes, the partial writes and the portions in which bytes arrive.
InTransit == wire \o FlattenSeq(writeQueue) \o buffer \o StreamOf(bufferQueue)
NothingLost ==
    /\ TypeOK
    /\ ~closed /\ reader = "reading" =>
           LET there == headerBuffer \o packetBuffer \o InTransit
               due == {n \in 1..Len(size) : n \notin ToSet(delivered)}
           IN  /\ IsInjective(there)
               /\ ToSet(there) = UNION {ToSet(BytesOf(n)) : n \in due}

\* The peer handles whole packets, each once, in the order in which they were
\* sent, but for those that met room for themselves and not for a header more:
\* such a packet overtakes what is in the buffer then, and nothing overtakes
\* otherwise, whatever the sizes, the portions and the other threads do.
OnlyCrampedOvertake ==
    /\ Torn \notin ToSet(delivered)
    /\ \A i, j \in 1..Len(delivered) :
          i < j /\ delivered[i] >= delivered[j] =>
              delivered[i] # delivered[j] /\ delivered[i] \in cramped

\* The connection is a FIFO channel for packets.  The code keeps this promise
\* as long as it is Roomy.
Fifo == INSTANCE FifoChannel WITH Msgs <- Packets,
                                  sent <- [n \in 1..Len(size) |-> n],
                                  received <- delivered
FifoSpec == Fifo!Spec

\* "single packet larger than 4096 bytes" (XSocket.cpp:41, of the branch that
\* bypasses the buffer): a packet gets a buffer of its own only if it is larger
\* than the send buffer.
OwnBufferOnlyIfLarge ==
    [][\A n \in Packets :
          bufferQueue # <<>> /\ bufferQueue' = Tail(bufferQueue) /\ n = Head(bufferQueue)
          /\ writeQueue' # <<>> /\ Last(writeQueue') = BytesOf(n)
             => size[n] > SendBufferSize]_vars

\* A packet sent is handled by the peer, unless the connection ends or the
\* peer stopped reading at a packet it does not know.
Delivered ==
    \A n \in Packets : n <= Len(size) ~> \/ n \in ToSet(delivered)
                                         \/ closed
                                         \/ reader # "reading"
=============================================================================
