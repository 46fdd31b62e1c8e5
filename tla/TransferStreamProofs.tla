------------------------ MODULE TransferStreamProofs ------------------------
(***************************************************************************)
(* Proofs about the stream of one file, for every manifest, window and set *)
(* of faults: that no block on the receiving disk is thrown away but by a  *)
(* commit, that what the receiver writes is a prefix of the file, that the *)
(* two sides' totals differ by the chunks under way, and that a session    *)
(* which has ended stays ended.                                            *)
(***************************************************************************)
EXTENDS TransferDeliveryProofs, FiniteSetTheorems, FunctionTheorems

-----------------------------------------------------------------------------
(* PartialDataKept.  Packets are lost, packets come, and the disk changes. *)

LEMMA OneFilePart ==
    ASSUME NEW q \in Seq(Message), NEW v \in Seq(Message), Part(q, v), OneFile(q)
    PROVE  OneFile(v)
<1>1. PICK a \in Nat : \A k \in 1..Len(v) : k + a \in 1..Len(q) /\ v[k] = q[k + a]
  BY PartFacts
<1>2. ASSUME NEW p \in 1..Len(v), NEW k \in 1..Len(v)
      PROVE  /\ IsStart(v[p]) /\ k < p => ~IsStream(v[k])
             /\ IsEnd(v[p]) /\ k > p => ~IsStream(v[k])
  <2>1. (k < p => k + a < p + a) /\ (k > p => k + a > p + a)
    OBVIOUS
  <2>2. QED BY <1>1, <2>1 DEF OneFile
<1>3. QED BY <1>2 DEF OneFile

LEMMA OneFileAppend ==
    ASSUME NEW q \in Seq(Message), NEW m, OneFile(q),
           IsStart(m) => NoStream(q),
           IsStream(m) => \A k \in 1..Len(q) : ~IsEnd(q[k])
    PROVE  OneFile(Append(q, m))
<1> DEFINE v == Append(q, m)
<1>1. /\ Len(q) \in Nat /\ Len(v) = Len(q) + 1 /\ v[Len(q) + 1] = m
      /\ \A k \in 1..Len(q) : v[k] = q[k]
  BY AppendAny
<1> HIDE DEF v
<1>2. ASSUME NEW p \in 1..Len(v), NEW k \in 1..Len(v)
      PROVE  /\ IsStart(v[p]) /\ k < p => ~IsStream(v[k])
             /\ IsEnd(v[p]) /\ k > p => ~IsStream(v[k])
  <2>1. CASE p \in 1..Len(q) /\ k \in 1..Len(q)
    BY <1>1, <2>1 DEF OneFile
  <2>2. CASE p = Len(q) + 1
    <3>1. k < p => k \in 1..Len(q)
      BY <1>1, <2>2
    <3>2. ~(k > p)
      BY <1>1, <2>2
    <3>3. QED BY <1>1, <2>2, <3>1, <3>2 DEF NoStream
  <2>3. CASE p \in 1..Len(q) /\ k = Len(q) + 1
    <3>1. ~(k < p)
      BY <1>1, <2>3
    <3>2. QED BY <1>1, <2>3, <3>1
  <2>4. QED BY <1>1, <2>1, <2>2, <2>3
<1>3. QED BY <1>2 DEF OneFile, v

Starter(m) == m.type \in {"HandshakeReq", "TransferOffer", "FileStart"}

LEMMA CleanPart ==
    ASSUME NEW q \in Seq(Message), NEW v \in Seq(Message), Part(q, v),
           NEW u \in Seq(Message), NEW w \in Seq(Message), Part(u, w),
           NEW a, NEW b, b => a, NEW d, NEW e, NoPartial(d) => NoPartial(e),
           CleanStart(q, u, a, d)
    PROVE  CleanStart(v, w, b, e)
<1>1. /\ \A k \in 1..Len(v) : \E j \in 1..Len(q) : v[k] = q[j]
      /\ \A k \in 1..Len(w) : \E j \in 1..Len(u) : w[k] = u[j]
  BY PartHolds
<1>2. NoStream(q) => NoStream(v)
  BY <1>1 DEF NoStream
<1>3. QED BY <1>1, <1>2 DEF CleanStart

\* Packets are lost, and nothing else happens but to the writer and its file.
LEMMA PartialPart ==
    ASSUME NEW q \in Seq(Message), NEW v \in Seq(Message), Part(q, v),
           NEW u \in Seq(Message), NEW w \in Seq(Message), Part(u, w),
           NEW s, NEW t, t.status \in Opening => s.status \in Opening,
           NEW r, NEW x, x.asking => r.asking,
           NEW d, NEW e, DOMAIN e.partial \subseteq DOMAIN d.partial,
           NEW up, NEW on, on => up, x.writer.has => r.writer.has,
           on \/ x.writer.has => x.writer.partial = r.writer.partial,
           BlocksOK(x.writer, x.recvIndex, e), PartialOK(s, q, u, r, d, up)
    PROVE  PartialOK(t, v, w, x, e, on)
<1>1. NoPartial(d) => NoPartial(e)
  BY DEF NoPartial
<1>2. OneFile(v) /\ CleanStart(v, w, x.asking, e)
  BY <1>1, OneFilePart, CleanPart DEF PartialOK
<1>3. QED BY <1>1, <1>2 DEF PartialOK

LEMMA PartialToRecv ==
    ASSUME NEW q \in Seq(Message), NEW u, NEW s, NEW r, NEW d, NEW up, NEW m,
           PartialOK(s, q, u, r, d, up),
           IsStart(m) => NoStream(q),
           IsStream(m) => /\ \A k \in 1..Len(q) : ~IsEnd(q[k])
                          /\ \A k \in 1..Len(u) : ~TurnToSend(u[k]),
           Starter(m) => NoPartial(d)
    PROVE  PartialOK(s, Append(q, m), u, r, d, up)
<1>1. OneFile(Append(q, m))
  BY OneFileAppend DEF PartialOK
<1>2. \A k \in 1..Len(Append(q, m)) :
         Append(q, m)[k] = m \/ \E j \in 1..Len(q) : Append(q, m)[k] = q[j]
  BY AppendHolds
<1>3. ~IsStream(m) /\ NoStream(q) => NoStream(Append(q, m))
  BY <1>2 DEF NoStream
<1>4. CleanStart(Append(q, m), u, r.asking, d)
  BY <1>2, <1>3 DEF PartialOK, CleanStart, Starter
<1>5. QED BY <1>1, <1>4 DEF PartialOK

LEMMA PartialToSend ==
    ASSUME NEW u \in Seq(Message), NEW q, NEW s, NEW r, NEW d, NEW up, NEW m,
           PartialOK(s, q, u, r, d, up),
           TurnToSend(m) => NoPartial(d) /\ NoStream(q)
    PROVE  PartialOK(s, q, Append(u, m), r, d, up)
<1>1. \A k \in 1..Len(Append(u, m)) :
         Append(u, m)[k] = m \/ \E j \in 1..Len(u) : Append(u, m)[k] = u[j]
  BY AppendHolds
<1>2. CleanStart(q, Append(u, m), r.asking, d)
  BY <1>1 DEF PartialOK, CleanStart
<1>3. QED BY <1>2 DEF PartialOK

LEMMA PartialSender ==
    ASSUME NEW q, NEW u, NEW r, NEW d, NEW up, NEW s, PartialOK(s, q, u, r, d, up),
           NEW t, t.status \in Opening => s.status \in Opening
    PROVE  PartialOK(t, q, u, r, d, up)
BY DEF PartialOK

\* One turn of the chunk loop, when nobody else has the turn.
LEMMA PartialLoop ==
    ASSUME NEW q \in Seq(Message), NEW u, NEW r, NEW d, NEW up, NEW s,
           PartialOK(s, q, u, r, d, up), NoTurn(q, u, r.asking),
           NEW t, NEW v, LoopTurn(s, q, t, v)
    PROVE  PartialOK(t, v, u, r, d, up)
<1>1. t.status \in Opening => s.status \in Opening
  BY DEF LoopTurn, Kept, LoopEnds, LoopReads, Opening
<1>2. PartialOK(t, q, u, r, d, up)
  BY <1>1, PartialSender
<1>3. /\ \A k \in 1..Len(q) : ~IsEnd(q[k])
      /\ \A k \in 1..Len(u) : ~TurnToSend(u[k])
  BY DEF NoTurn, IsEnd, TurnToRecv
<1>4. ASSUME NEW m, m.type \in {"FileDataChunk", "FileEnd"}, v = Say(q, m)
      PROVE  PartialOK(t, v, u, r, d, up)
  <2>1. ~IsStart(m) /\ ~Starter(m)
    BY <1>4 DEF IsStart, Starter
  <2>2. PartialOK(t, Append(q, m), u, r, d, up)
    BY <1>2, <1>3, <2>1, PartialToRecv
  <2>3. QED BY <1>2, <1>4, <2>2 DEF Say
<1>5. CASE v = q
  BY <1>2, <1>5
<1>6. CASE LoopEnds(s, q, t, v)
  <2>1. FileEnd(s.cur, s.reader.hashed).type = "FileEnd"
    BY DEF FileEnd
  <2>2. QED BY <1>4, <1>6, <2>1 DEF LoopEnds
<1>7. CASE LoopReads(s, q, t, v)
  <2>1. FileDataChunk(s.cur, s.reader.off, NextBlock(s.reader)).type = "FileDataChunk"
    BY DEF FileDataChunk
  <2>2. QED BY <1>4, <1>7, <2>1 DEF LoopReads
<1>8. QED BY <1>5, <1>6, <1>7 DEF LoopTurn

\* A buffer that is lost takes a block with it, and no other .partial file.
LEMMA ClosedBlocks ==
    ASSUME SessionInv, NEW d \in {disk} \cup Unflushed(disk, receiver.writer)
    PROVE  /\ DiskType(d) /\ DOMAIN d.partial = DOMAIN disk.partial
           /\ \A i : BlocksOK(receiver.writer, i, disk) => BlocksOK(receiver.writer, i, d)
           /\ \A n \in DOMAIN disk.partial : \A k \in 1..Len(disk.partial[n]) :
                 ~InBuffer(n, k) =>
                    k <= Len(d.partial[n]) /\ d.partial[n][k] = disk.partial[n][k]
<1> DEFINE w == receiver.writer
<1>1. /\ DiskType(disk) /\ HoldsCopies(disk) /\ w \in Writer /\ receiver.recvIndex \in Files
      /\ WriterOK(w, receiver.recvIndex, disk)
  BY ReceiverKnows DEF Receiver
<1>2. \A n \in DOMAIN disk.partial : disk.partial[n] \in Content
  BY <1>1 DEF DiskType, IsStore, Content
<1>3. CASE d = disk
  BY <1>1, <1>2, <1>3 DEF Content
<1>4. CASE d \in Unflushed(disk, w)
  <2> DEFINE s == SourceSize[receiver.recvIndex]
             c == disk.partial[w.partial]
             x == d.partial[w.partial]
  <2>1. /\ DiskType(d) /\ DOMAIN d.partial = DOMAIN disk.partial
        /\ \A n \in DOMAIN disk.partial : n # w.partial => d.partial[n] = disk.partial[n]
        /\ x \in Without(c, s) /\ HasBuffered(w)
    BY <1>1, <1>4, UnflushedFacts
  <2>2. /\ w.partial \in DOMAIN disk.partial /\ c \in Content
        /\ Len(c) = s /\ s \in Nat \ {0} /\ LastHashed(w)[2] = s
    BY <1>1, <2>1, BufferedFacts
  <2> HIDE DEF s, c, x
  <2>3. s \in 1..Len(c)
    BY <2>2
  <2>4. /\ Len(x) \in Nat /\ Len(x) <= Len(c)
        /\ Len(x) >= s => x[s] = Hole
        /\ \A k \in 1..Len(c) : k # s => k \in 1..Len(x) /\ x[k] = c[k]
    BY <2>1, <2>2, <2>3, WithoutFacts DEF Content
  <2>5. ASSUME NEW i, BlocksOK(w, i, disk) PROVE BlocksOK(w, i, d)
    <3>1. \A k \in 1..Len(c) : c[k] \in {Hole, <<i, k>>}
      BY <2>2, <2>5 DEF BlocksOK, c
    <3>2. ASSUME NEW k \in 1..Len(x) PROVE x[k] \in {Hole, <<i, k>>}
      <4>1. k \in Nat /\ k <= Len(x) /\ k \in 1..Len(c)
        BY <2>2, <2>4
      <4>2. CASE k = s
        BY <2>4, <4>1, <4>2
      <4>3. CASE k # s
        BY <2>4, <3>1, <4>1, <4>3
      <4>4. QED BY <4>2, <4>3
    <3>3. QED BY <3>2 DEF BlocksOK, x
  <2>6. ASSUME NEW n \in DOMAIN disk.partial, NEW k \in 1..Len(disk.partial[n]), ~InBuffer(n, k)
        PROVE  k <= Len(d.partial[n]) /\ d.partial[n][k] = disk.partial[n][k]
    <3>1. CASE n # w.partial
      <4>1. d.partial[n] = disk.partial[n] /\ Len(disk.partial[n]) \in Nat
        BY <1>2, <2>1, <3>1 DEF Content
      <4>2. QED BY <4>1
    <3>2. CASE n = w.partial
      <4>1. k \in 1..Len(c) /\ k # s
        BY <2>1, <2>2, <2>6, <3>2 DEF InBuffer, c
      <4>2. k \in 1..Len(x) /\ x[k] = c[k]
        BY <2>4, <4>1
      <4>3. QED BY <2>4, <3>2, <4>2 DEF c, x
    <3>3. QED BY <3>1, <3>2
  <2>7. QED BY <2>1, <2>5, <2>6
<1>5. QED BY <1>3, <1>4

LEMMA PartialQuiet ==
    ASSUME SessionInv, SessionInv', PartialInv, Quiet PROVE PartialInv'
<1>1. /\ toRecv \in Seq(Message) /\ toSend \in Seq(Message)
      /\ toRecv' \in Seq(Message) /\ toSend' \in Seq(Message)
      /\ Part(toRecv, toRecv) /\ Part(toSend, toSend)
  BY PartSame DEF SessionInv, TypeOK
<1>2. /\ sender'.status \in Opening => sender.status \in Opening
      /\ receiver'.asking => receiver.asking
      /\ receiver'.writer.partial = receiver.writer.partial
      /\ receiver'.writer.has = receiver.writer.has
      /\ receiver'.recvIndex = receiver.recvIndex
      /\ Up' => Up
  BY DEF Quiet, Kept, KeptR
<1>3. DOMAIN disk'.partial = DOMAIN disk.partial /\ (NoPartial(disk) => NoPartial(disk'))
  <2>1. DOMAIN disk'.partial = DOMAIN disk.partial
    BY ClosedDisks DEF Quiet, QuietDisk
  <2>2. QED BY <2>1 DEF NoPartial
<1>4. BlocksOK(receiver'.writer, receiver'.recvIndex, disk')
  <2>1. disk' \in {disk} \cup Unflushed(disk, receiver.writer)
    BY ClosedDisks DEF Quiet, QuietDisk
  <2>2. BlocksOK(receiver.writer, receiver.recvIndex, disk')
    BY <2>1, ClosedBlocks DEF PartialInv, PartialOK
  <2>3. QED BY <1>2, <2>2 DEF BlocksOK
<1>5. ASSUME NEW v \in Seq(Message), NEW w \in Seq(Message), Part(toRecv, v), Part(toSend, w)
      PROVE  PartialOK(sender', v, w, receiver', disk', Up')
  <2>1. /\ OneFile(toRecv) /\ CleanStart(toRecv, toSend, receiver.asking, disk)
        /\ sender.status \in Opening => NoPartial(disk)
        /\ Up \/ receiver.writer.has => DOMAIN disk.partial \subseteq {receiver.writer.partial}
    BY DEF PartialInv, PartialOK
  <2>2. OneFile(v)
    BY <1>1, <1>5, <2>1, OneFilePart
  <2>3. CleanStart(v, w, receiver'.asking, disk')
    <3>1. /\ \A k \in 1..Len(v) : \E j \in 1..Len(toRecv) : v[k] = toRecv[j]
          /\ \A k \in 1..Len(w) : \E j \in 1..Len(toSend) : w[k] = toSend[j]
      BY <1>1, <1>5, PartHolds
    <3>2. NoStream(toRecv) => NoStream(v)
      BY <3>1 DEF NoStream
    <3>3. (\E k \in 1..Len(v) : Starter(v[k])) => NoPartial(disk')
      BY <1>3, <2>1, <3>1 DEF CleanStart, Starter
    <3>4. \A k \in 1..Len(w) : TurnToSend(w[k]) => NoPartial(disk') /\ NoStream(v)
      BY <1>3, <2>1, <3>1, <3>2 DEF CleanStart
    <3>5. receiver'.asking => NoPartial(disk')
      BY <1>2, <1>3, <2>1 DEF CleanStart
    <3>6. QED BY <3>3, <3>4, <3>5 DEF CleanStart, Starter
  <2>4. /\ sender'.status \in Opening => NoPartial(disk')
        /\ Up' \/ receiver'.writer.has =>
              DOMAIN disk'.partial \subseteq {receiver'.writer.partial}
    BY <1>2, <1>3, <2>1
  <2>5. QED BY <1>4, <2>2, <2>3, <2>4 DEF PartialOK
<1>6. ASSUME NEW w \in Seq(Message), Part(toSend, w)
      PROVE  PartialOK(sender', toRecv', w, receiver', disk', Up')
  <2>1. CASE Cut(toRecv, toRecv')
    BY <1>1, <1>5, <1>6, <2>1, CutIsPart
  <2>2. CASE toRecv # <<>> /\ toRecv' = Tail(toRecv)
    BY <1>1, <1>5, <1>6, <2>2, TailIsPart
  <2>3. ASSUME NEW m \in Message, m.type \in {"TransferPause", "TransferCancel"},
               toRecv' = Append(toRecv, m)
        PROVE  PartialOK(sender', toRecv', w, receiver', disk', Up')
    <3>1. ~IsStart(m) /\ ~IsStream(m) /\ ~Starter(m)
      BY <2>3 DEF IsStart, IsStream, Starter
    <3>2. PartialOK(sender', toRecv, w, receiver', disk', Up')
      BY <1>1, <1>5, <1>6
    <3>3. QED BY <1>1, <2>3, <3>1, <3>2, PartialToRecv
  <2>4. QED BY <2>1, <2>2, <2>3 DEF Quiet, QuietToRecv
<1>7. CASE Part(toSend, toSend')
  BY <1>1, <1>6, <1>7 DEF PartialInv
<1>8. ASSUME NEW m \in Message, toSend' = Append(toSend, m),
             m.type \in {"TransferCancel", "TransferReject", "TransferPause", "TransferResume"}
      PROVE  PartialInv'
  <2>1. ~TurnToSend(m)
    BY <1>8 DEF TurnToSend
  <2>2. PartialOK(sender', toRecv', toSend, receiver', disk', Up')
    BY <1>1, <1>6
  <2>3. PartialOK(sender', toRecv', Append(toSend, m), receiver', disk', Up')
    BY <1>1, <2>1, <2>2, PartialToSend
  <2>4. QED BY <1>8, <2>3 DEF PartialInv
<1>9. QED BY <1>7, <1>8 DEF Quiet, QuietToSend

LEMMA PartialConnects ==
    ASSUME SessionInv, SessionInv', PartialInv, SocketConnected PROVE PartialInv'
<1>1. /\ sender \in Sender /\ receiver \in Receiver /\ UNCHANGED <<toSend, disk>> /\ Early
      /\ receiver' = WithStatus(receiver, "Handshaking")
      /\ toRecv' = <<Signal("HandshakeReq")>>
  BY SenderHas DEF SocketConnected, Early
<1>2. sender.status \in Opening /\ toSend' = <<>>
  BY <1>1 DEF SessionInv, EarlyOK, Opening
<1>3. NoPartial(disk')
  BY <1>1, <1>2 DEF PartialInv, PartialOK
<1>4. Len(toRecv') = 1 /\ toRecv'[1].type = "HandshakeReq"
  BY <1>1 DEF Signal
<1>5. OneFile(toRecv')
  BY <1>4 DEF OneFile, IsStart, IsEnd
<1>6. CleanStart(toRecv', toSend', receiver'.asking, disk')
  BY <1>2, <1>3 DEF CleanStart
<1>7. BlocksOK(receiver'.writer, receiver'.recvIndex, disk')
  BY <1>3 DEF BlocksOK, NoPartial
<1>8. QED BY <1>3, <1>5, <1>6, <1>7 DEF PartialInv, PartialOK, NoPartial

\* A packet that the sender says, and one that the receiver says.
LEMMA PartialSaid ==
    ASSUME SessionInv, NEW q, NEW s, NEW r, NEW d, NEW up, NEW m,
           PartialOK(s, q, toSend, r, d, up),
           TurnToSend(m) /\ Linked => NoPartial(d) /\ NoStream(q)
    PROVE  PartialOK(s, q, Say(toSend, m), r, d, up)
<1>1. toSend \in Seq(Message)
  BY SenderHas
<1>2. CASE Linked
  BY <1>1, <1>2, PartialToSend DEF Say
<1>3. QED BY <1>2 DEF Say

LEMMA PartialHandshakeResp ==
    ASSUME SessionInv, PartialInv, OnHandshakeResp PROVE PartialInv'
<1> DEFINE m == Signal("TransferOffer")
<1>1. /\ toSend # <<>> /\ Head(toSend).type = "HandshakeResp" /\ toSend' = Tail(toSend)
      /\ UNCHANGED <<receiver, disk, sock, cut>> /\ SendToReceiver(<<m>>)
      /\ sender' = WithStatus(sender, "WaitingApproval")
  BY DEF OnHandshakeResp, SenderHandles, SenderGets
<1>2. /\ sender \in Sender /\ toRecv \in Seq(Message) /\ toSend \in Seq(Message)
      /\ Part(toRecv, toRecv) /\ Part(toSend, toSend')
  BY <1>1, SenderHas, PartSame
<1>3. 1 \in 1..Len(toSend) /\ Head(toSend) = toSend[1] /\ toSend' \in Seq(Message)
  BY <1>1, <1>2, TailFacts
<1>4. NoPartial(disk) /\ sender'.status \notin Opening /\ Up' = Up
  BY <1>1, <1>2, <1>3 DEF PartialInv, PartialOK, CleanStart, TurnToSend, WithStatus, Sender,
     Opening, Up
<1>5. PartialOK(sender', toRecv, toSend', receiver, disk, Up)
  BY <1>2, <1>3, <1>4, PartialPart DEF PartialInv, PartialOK
<1>6. ~IsStart(m) /\ ~IsStream(m)
  BY DEF Signal, IsStart, IsStream
<1>7. m \in Message
  BY AnswerMessages
<1> HIDE DEF m
<1>8. PartialOK(sender', Append(toRecv, m), toSend', receiver, disk, Up)
  BY <1>2, <1>4, <1>5, <1>6, PartialToRecv
<1>9. toRecv' = Say(toRecv, m)
  BY <1>1, <1>2, <1>7, ConcatOne DEF SendToReceiver, Say
<1>10. QED BY <1>1, <1>4, <1>5, <1>8, <1>9 DEF Say, PartialInv

LEMMA PartialStarts ==
    ASSUME SessionInv, TurnInv, PartialInv, SenderStarts PROVE PartialInv'
<1>1. PICK s \in Sender, i \in Nat \ {0}, off \in Nat :
             /\ s.status \notin Opening /\ Starts(s, i, off)
             /\ \/ Head(toSend).type \in {"TransferAccept", "TransferResume"}
                \/ Head(toSend).type = "FileAck" /\ Head(toSend).ok
  BY DEF SenderStarts
<1>2. /\ toRecv \in Seq(Message) /\ toSend \in Seq(Message) /\ toSend # <<>>
      /\ toSend' = Tail(toSend) /\ UNCHANGED <<receiver, disk>> /\ Up' = Up
      /\ Part(toRecv, toRecv)
  BY SenderHas, PartSame DEF SenderStarts, Up
<1>3. /\ toSend' \in Seq(Message) /\ Part(toSend, toSend')
      /\ 1 \in 1..Len(toSend) /\ Head(toSend) = toSend[1]
  BY <1>2, TailFacts, TailIsPart
<1>4. NoTurn(toRecv, toSend', receiver.asking) /\ TurnToSend(Head(toSend))
  BY <1>1, <1>2, SenderTurns DEF TurnToSend
<1>5. NoPartial(disk) /\ NoStream(toRecv)
  BY <1>3, <1>4 DEF PartialInv, PartialOK, CleanStart
<1>6. ASSUME NEW t, t.status \notin Opening
      PROVE  PartialOK(t, toRecv, toSend', receiver, disk, Up)
  BY <1>2, <1>3, <1>6, PartialPart DEF PartialInv, PartialOK
<1>7. ASSUME NEW m \in Message, NEW t, t.status \notin Opening,
             ~IsStart(m) => ~IsStream(m) /\ ~Starter(m)
      PROVE  /\ PartialOK(t, Say(toRecv, m), toSend', receiver, disk, Up)
             /\ Say(toRecv, m) \in Seq(Message)
  <2>1. /\ \A k \in 1..Len(toRecv) : ~IsEnd(toRecv[k])
        /\ \A k \in 1..Len(toSend') : ~TurnToSend(toSend'[k])
    BY <1>4 DEF NoTurn, IsEnd, TurnToRecv
  <2>2. PartialOK(t, toRecv, toSend', receiver, disk, Up)
    BY <1>6, <1>7
  <2>3. PartialOK(t, Append(toRecv, m), toSend', receiver, disk, Up)
    BY <1>2, <1>5, <1>7, <2>1, <2>2, PartialToRecv
  <2>4. Append(toRecv, m) \in Seq(Message)
    BY <1>2, AppendFacts
  <2>5. QED BY <1>2, <2>2, <2>3, <2>4 DEF Say
<1>8. CASE /\ i \in Files
           /\ LoopTurn(Started(s, i, off), Say(toRecv, FileStart(i)), sender', toRecv')
  <2> DEFINE m == FileStart(i)
             x == Started(s, i, off)
  <2>1. m \in Message /\ IsStart(m) /\ ~TurnToRecv(m)
    BY <1>8 DEF FileStart, Message, IsStart, TurnToRecv
  <2>2. x.status \notin Opening
    BY <1>1, <1>8, StartedFacts
  <2>3. LoopTurn(x, Say(toRecv, m), sender', toRecv')
    BY <1>8
  <2> HIDE DEF m, x
  <2>4. /\ PartialOK(x, Say(toRecv, m), toSend', receiver, disk, Up)
        /\ Say(toRecv, m) \in Seq(Message)
    BY <1>7, <2>1, <2>2
  <2>5. NoTurn(Say(toRecv, m), toSend', receiver.asking)
    <3>1. \A k \in 1..Len(Append(toRecv, m)) :
             Append(toRecv, m)[k] = m \/ \E j \in 1..Len(toRecv) : Append(toRecv, m)[k] = toRecv[j]
      BY <1>2, AppendHolds
    <3>2. NoTurn(Append(toRecv, m), toSend', receiver.asking)
      BY <1>4, <2>1, <3>1 DEF NoTurn
    <3>3. QED BY <1>4, <3>2 DEF Say
  <2>6. QED BY <1>2, <2>3, <2>4, <2>5, PartialLoop DEF PartialInv
<1>9. CASE sender'.status = "Failed" /\ toRecv' = toRecv
  BY <1>2, <1>6, <1>9 DEF PartialInv, Opening
<1>10. CASE sender'.status = "Completed" /\ toRecv' = Say(toRecv, Signal("TransferComplete"))
  <2> DEFINE m == Signal("TransferComplete")
  <2>1. m \in Message /\ ~IsStart(m) /\ ~IsStream(m) /\ ~Starter(m)
    BY AnswerMessages DEF Signal, IsStart, IsStream, Starter
  <2> HIDE DEF m
  <2>2. PartialOK(sender', Say(toRecv, m), toSend', receiver, disk, Up)
    BY <1>7, <1>10, <2>1 DEF Opening
  <2>3. QED BY <1>2, <1>10, <2>2 DEF PartialInv, m
<1>11. QED BY <1>1, <1>8, <1>9, <1>10 DEF Starts

LEMMA PartialLoops ==
    ASSUME SessionInv, TurnInv, PartialInv, SenderLoops PROVE PartialInv'
<1>1. PICK s \in Sender, q \in Seq(Message) :
             /\ Kept(sender, s)
             /\ \/ q = toRecv
                \/ \E m \in Message : m.type = "TransferResume" /\ q = Say(toRecv, m)
             /\ LoopTurn(s, q, sender', toRecv')
  BY DEF SenderLoops
<1>2. /\ toRecv \in Seq(Message) /\ toSend \in Seq(Message)
      /\ Part(toRecv, toRecv) /\ Part(toSend, toSend)
      /\ UNCHANGED <<receiver, toSend, disk>> /\ Up' = Up
  BY SenderHas, PartSame DEF SenderLoops, Up
<1>3. /\ PartialOK(s, toRecv, toSend, receiver, disk, Up)
      /\ TurnOK(s, toRecv, toSend, receiver.asking)
  <2>1. s.status \in Opening => sender.status \in Opening
    BY <1>1 DEF Kept
  <2>2. QED BY <1>1, <1>2, <2>1, PartialSender, KeptTurn, TurnPart DEF PartialInv, TurnInv
<1>4. /\ PartialOK(s, q, toSend, receiver, disk, Up)
      /\ TurnOK(s, q, toSend, receiver.asking)
  <2>1. ASSUME NEW m \in Message, m.type = "TransferResume", q = Say(toRecv, m)
        PROVE  /\ PartialOK(s, q, toSend, receiver, disk, Up)
               /\ TurnOK(s, q, toSend, receiver.asking)
    <3>1. ~TurnToRecv(m) /\ ~IsStream(m) /\ ~IsStart(m) /\ ~Starter(m)
      BY <2>1 DEF TurnToRecv, IsStream, IsStart, Starter
    <3>2. TurnOK(s, q, toSend, receiver.asking)
      BY <1>2, <1>3, <2>1, <3>1, TurnAppendRecv DEF Say
    <3>3. PartialOK(s, q, toSend, receiver, disk, Up)
      BY <1>2, <1>3, <2>1, <3>1, PartialToRecv DEF Say
    <3>4. QED BY <3>2, <3>3
  <2>2. QED BY <1>1, <1>3, <2>1
<1>5. CASE Kept(s, sender') /\ toRecv' = q
  <2>1. sender'.status \in Opening => s.status \in Opening
    BY <1>5 DEF Kept
  <2>2. QED BY <1>2, <1>4, <1>5, <2>1, PartialSender DEF PartialInv
<1>6. CASE LoopEnds(s, q, sender', toRecv') \/ LoopReads(s, q, sender', toRecv')
  <2>1. s.reader.has /\ ~s.waiting
    BY <1>6 DEF LoopEnds, LoopReads
  <2>2. NoTurn(q, toSend, receiver.asking)
    BY <1>4, <2>1, TurnIsFree
  <2>3. QED BY <1>1, <1>2, <1>4, <2>2, PartialLoop DEF PartialInv
<1>7. QED BY <1>1, <1>5, <1>6 DEF LoopTurn

\* A packet handler of the receiver, before it does anything but take the
\* packet.
LEMMA PartialTaken ==
    ASSUME SessionInv, PartialInv, NEW type, Takes(type)
    PROVE  PartialOK(sender', toRecv', toSend, receiver, disk, Up')
<1>1. /\ toRecv \in Seq(Message) /\ toSend \in Seq(Message) /\ Part(toSend, toSend)
      /\ toRecv' \in Seq(Message) /\ Part(toRecv, toRecv')
  BY SenderHas, PartSame, TakesPart
<1>2. UNCHANGED sender /\ (Up' => Up)
  BY DEF Takes
<1>3. BlocksOK(receiver.writer, receiver.recvIndex, disk)
  BY DEF PartialInv, PartialOK
<1>4. QED BY <1>1, <1>2, <1>3, PartialPart DEF PartialInv

\* The receiving session and its disk change, and no .partial file comes.
LEMMA PartialWriter ==
    ASSUME NEW q, NEW u, NEW s, NEW r, NEW d, NEW up, PartialOK(s, q, u, r, d, up),
           NEW x, x.asking => r.asking \/ NoPartial(d),
           x.writer.has => r.writer.has,
           up \/ x.writer.has => x.writer.partial = r.writer.partial,
           NEW e, DOMAIN e.partial \subseteq DOMAIN d.partial,
           BlocksOK(x.writer, x.recvIndex, e)
    PROVE  PartialOK(s, q, u, x, e, up)
<1>1. NoPartial(d) => NoPartial(e)
  BY DEF NoPartial
<1>2. QED BY <1>1 DEF PartialOK, CleanStart

\* Handshake, offer, answer and completion: no file is touched.
LEMMA PartialSame ==
    ASSUME NEW q, NEW u, NEW s, NEW r, NEW d, NEW up, PartialOK(s, q, u, r, d, up),
           NEW x, x.asking => r.asking \/ NoPartial(d), SameWriter(r, x)
    PROVE  PartialOK(s, q, u, x, d, up)
<1>1. /\ x.writer.partial = r.writer.partial /\ x.writer.has = r.writer.has
      /\ BlocksOK(x.writer, x.recvIndex, d)
  BY DEF SameWriter, PartialOK
<1>2. QED BY <1>1, PartialWriter

LEMMA PartialHandshake ==
    ASSUME SessionInv, TurnInv, PartialInv, OnHandshakeReq \/ OnTransferOffer
    PROVE  PartialInv'
<1>1. PICK type \in {"HandshakeReq", "TransferOffer"} :
             /\ Takes(type) /\ SameWriter(receiver, receiver') /\ UNCHANGED disk
             /\ (\E m : toSend' = Say(toSend, m)) \/ UNCHANGED toSend
             /\ type = "HandshakeReq" => receiver'.asking = receiver.asking
  BY HandshakeReqDoes, TransferOfferDoes
<1>2. /\ toRecv \in Seq(Message) /\ toRecv # <<>> /\ Head(toRecv).type = type
      /\ toRecv' \in Seq(Message) /\ Part(toRecv, toRecv')
  BY <1>1, SenderHas, TakesPart DEF Takes
<1>3. 1 \in 1..Len(toRecv) /\ Head(toRecv) = toRecv[1]
  BY <1>2, TailFacts
<1>4. NoPartial(disk)
  BY <1>2, <1>3 DEF PartialInv, PartialOK, CleanStart
<1>5. NoStream(toRecv')
  <2>1. NoStream(toRecv)
    BY <1>2, <1>3 DEF TurnInv, TurnOK, TurnsFit, TurnToRecv, TurnFits
  <2>2. QED BY <1>2, <2>1, NoStreamPart
<1>6. PartialOK(sender', toRecv', toSend, receiver', disk', Up')
  BY <1>1, <1>4, PartialTaken, PartialSame
<1>7. QED BY <1>1, <1>4, <1>5, <1>6, PartialSaid DEF PartialInv

LEMMA PartialAccept ==
    ASSUME SessionInv, TurnInv, PartialInv, UserAccepts PROVE PartialInv'
<1> DEFINE m == TransferAccept(1, 0)
<1>1. /\ receiver.asking /\ UNCHANGED <<sender, toRecv, disk>> /\ Up' = Up
      /\ SameWriter(receiver, receiver') /\ ~receiver'.asking
      /\ toSend' = Say(toSend, m)
  BY UserAcceptsDoes
<1>2. NoPartial(disk) /\ NoStream(toRecv)
  BY <1>1 DEF PartialInv, PartialOK, CleanStart, TurnInv, TurnOK, TurnsFit
<1>3. PartialOK(sender, toRecv, toSend, receiver', disk, Up)
  BY <1>1, PartialSame DEF PartialInv
<1>4. QED BY <1>1, <1>2, <1>3, PartialSaid DEF PartialInv

\* A file that starts is alone: nothing else of the transfer is under way.
LEMMA StartIsAlone ==
    ASSUME SessionInv, TurnInv, PartialInv, toRecv # <<>>, Head(toRecv).type = "FileStart"
    PROVE  /\ NoPartial(disk) /\ sender.status \notin Opening
           /\ \A k \in 1..Len(toSend) : ~TurnToSend(toSend[k])
           /\ \A k \in 1..Len(Tail(toRecv)) : ~Starter(Tail(toRecv)[k])
<1>1. toRecv \in Seq(Message)
  BY SenderHas
<1>2. /\ 1 \in 1..Len(toRecv) /\ Head(toRecv) = toRecv[1]
      /\ Len(toRecv) \in Nat \ {0} /\ Len(Tail(toRecv)) = Len(toRecv) - 1
      /\ \A k \in 1..Len(Tail(toRecv)) : Tail(toRecv)[k] = toRecv[k + 1]
  BY <1>1, TailFacts
<1>3. NoPartial(disk)
  BY <1>2 DEF PartialInv, PartialOK, CleanStart
<1>4. ~NoStream(toRecv)
  BY <1>2 DEF NoStream, IsStream
<1>5. \A k \in 1..Len(toSend) : ~TurnToSend(toSend[k])
  BY <1>4 DEF PartialInv, PartialOK, CleanStart
<1>6. sender.status \notin Opening
  BY <1>2 DEF SessionInv, HandshakeFirst
<1>7. ASSUME NEW k \in 1..Len(Tail(toRecv)) PROVE ~Starter(Tail(toRecv)[k])
  <2>1. k + 1 \in 1..Len(toRecv) /\ 1 < k + 1
    BY <1>2
  <2>2. ~IsStart(toRecv[k + 1])
    BY <1>2, <2>1 DEF PartialInv, PartialOK, OneFile, IsStream
  <2>3. toRecv[k + 1].type \notin {"HandshakeReq", "TransferOffer"}
    BY <1>4, <2>1 DEF TurnInv, TurnOK, TurnsFit, TurnToRecv, TurnFits
  <2>4. QED BY <1>2, <2>2, <2>3 DEF Starter, IsStart
<1>8. QED BY <1>3, <1>5, <1>6, <1>7

\* The .partial files after open() has had its way.
LEMMA OpenedPartial ==
    ASSUME NEW d, NoPartial(d), NEW t, NEW e
    PROVE  /\ e = Cleared(d, t) => DOMAIN e.partial = {}
           /\ \A i \in Files : \A c \in Preallocations(i) : e = OpenedDisk(d, t, c) =>
                 /\ DOMAIN e.partial = {t}
                 /\ \A k \in 1..Len(e.partial[t]) : e.partial[t][k] = Hole
<1> DEFINE gone == {t} \cup PartialsAt(t)
<1>1. Cleared(d, t).partial = Drop(d.partial, gone)
  BY DEF Cleared
<1> HIDE DEF gone
<1>2. DOMAIN Cleared(d, t).partial = {}
  BY <1>1 DEF Drop, NoPartial
<1>3. ASSUME NEW i \in Files, NEW c \in Preallocations(i), e = OpenedDisk(d, t, c)
      PROVE  /\ DOMAIN e.partial = {t}
             /\ \A k \in 1..Len(e.partial[t]) : e.partial[t][k] = Hole
  <2>1. e.partial = Put(Cleared(d, t).partial, t, c)
    BY <1>3 DEF OpenedDisk, Cleared
  <2>2. DOMAIN e.partial = {t} /\ e.partial[t] = c
    BY <1>2, <2>1 DEF Put
  <2>3. PICK n \in Nat : c = [k \in 1..n |-> Hole]
    BY SizesAssumption DEF Preallocations
  <2>4. Len(c) = n
    BY <2>3
  <2>5. QED BY <2>2, <2>3, <2>4
<1>4. QED BY <1>2, <1>3

LEMMA PartialFileStart ==
    ASSUME SessionInv, TurnInv, PartialInv, OnFileStart PROVE PartialInv'
<1> DEFINE i == Head(toRecv).index
<1>1. /\ Takes("FileStart") /\ i \in Files /\ ~receiver'.asking
  BY FileStartDoes
<1>2. PICK d \in Closed(disk, receiver.writer) : Opened(d, i) \/ NotOpened(d, i)
  BY FileStartDoes
<1>3. /\ toRecv # <<>> /\ Head(toRecv).type = "FileStart" /\ UNCHANGED sender
  BY <1>1 DEF Takes
<1>4. /\ NoPartial(d) /\ sender.status \notin Opening
      /\ \A k \in 1..Len(toSend) : ~TurnToSend(toSend[k])
      /\ \A k \in 1..Len(Tail(toRecv)) : ~Starter(Tail(toRecv)[k])
  <2>1. DOMAIN d.partial = DOMAIN disk.partial
    BY ClosedDisks
  <2>2. QED BY <1>3, <2>1, StartIsAlone DEF NoPartial
<1>5. PartialOK(sender', toRecv', toSend, receiver, disk, Up')
  BY <1>1, PartialTaken
<1>6. CASE Opened(d, i)
  <2>1. PICK t \in Targets(d, i, Policy), c \in Preallocations(i) :
               /\ receiver'.writer = OpenedWriter(t) /\ disk' = OpenedDisk(d, t, c)
               /\ toRecv' = Tail(toRecv) /\ UNCHANGED toSend
    BY <1>6 DEF Opened
  <2>2. receiver'.writer.partial = t
    BY <2>1 DEF OpenedWriter
  <2>3. /\ DOMAIN disk'.partial = {t}
        /\ \A k \in 1..Len(disk'.partial[t]) : disk'.partial[t][k] = Hole
    <3>1. NoPartial(d) /\ i \in Files /\ c \in Preallocations(i) /\ disk' = OpenedDisk(d, t, c)
      BY <1>1, <1>4, <2>1
    <3> HIDE DEF i
    <3>2. QED BY <3>1, OpenedPartial
  <2>4. BlocksOK(receiver'.writer, receiver'.recvIndex, disk')
    BY <2>2, <2>3 DEF BlocksOK
  <2>5. CleanStart(toRecv', toSend', receiver'.asking, disk')
    BY <1>1, <1>4, <2>1 DEF CleanStart, Starter
  <2>6. QED BY <1>3, <1>4, <1>5, <2>2, <2>3, <2>4, <2>5 DEF PartialInv, PartialOK
<1>7. CASE NotOpened(d, i)
  <2>1. /\ ~Up' /\ toSend' = Say(toSend, FileAck(i, FALSE))
        /\ disk' = d \/ \E t : disk' = Cleared(d, t)
    BY <1>7 DEF NotOpened
  <2>2. DOMAIN disk'.partial = {}
    BY <1>4, <2>1, OpenedPartial DEF NoPartial
  <2>3. NoPartial(disk') /\ BlocksOK(receiver'.writer, receiver'.recvIndex, disk')
    BY <2>2 DEF NoPartial, BlocksOK
  <2>4. PartialOK(sender', toRecv', toSend, receiver', disk', Up')
    BY <1>1, <1>5, <2>2, <2>3 DEF PartialOK, CleanStart
  <2>5. ~TurnToSend(FileAck(i, FALSE))
    BY DEF FileAck, TurnToSend
  <2>6. QED BY <2>1, <2>4, <2>5, PartialSaid DEF PartialInv
<1>8. QED BY <1>2, <1>6, <1>7

\* A block that is written: the .partial file is there, and the block is the
\* one that belongs at its offset.
WritesAt(w, i, d, m) ==
    /\ w.has /\ w.open /\ w.partial \in DOMAIN d.partial
    /\ m.offset \in Nat /\ m.data = <<i, m.offset + 1>> /\ m.data \in Block

LEMMA ChunkWrites ==
    ASSUME SessionInv, toRecv # <<>>, Head(toRecv).type = "FileDataChunk",
           HonestPacket(Head(toRecv)), Head(toRecv) \in Message,
           receiver.writer.has, receiver.writer.open
    PROVE  WritesAt(receiver.writer, receiver.recvIndex, disk, Head(toRecv))
<1>1. /\ QueueOK(toRecv, receiver)
      /\ WriterOK(receiver.writer, receiver.recvIndex, disk)
  BY ReceiverKnows
<1>2. receiver.recvIndex = Head(toRecv).index
  BY <1>1, HeadIsOwned DEF IsData
<1>3. Head(toRecv).offset \in Nat /\ Head(toRecv).data \in Block
  BY DEF Message, Signals
<1>4. QED BY <1>1, <1>2, <1>3 DEF WritesAt, WriterOK, HonestPacket

LEMMA WriteKeeps ==
    ASSUME NEW d, DiskType(d), NEW w, NEW i, NEW m, WritesAt(w, i, d, m),
           BlocksOK(w, i, d)
    PROVE  LET e == WriteToDisk(d, w, m.offset, m.data)
           IN  /\ DOMAIN e.partial = DOMAIN d.partial /\ e.final = d.final
               /\ \A n \in DOMAIN d.partial : n # w.partial => e.partial[n] = d.partial[n]
               /\ e.partial[w.partial] = Written(d.partial[w.partial], m.offset, m.data)
               /\ BlocksOK(w, i, e)
<1> DEFINE e == WriteToDisk(d, w, m.offset, m.data)
           c == d.partial[w.partial]
           v == Written(c, m.offset, m.data)
<1>1. /\ d = [final |-> d.final, partial |-> d.partial] /\ w.partial \in DOMAIN d.partial
      /\ m.offset \in Nat /\ m.data = <<i, m.offset + 1>> /\ m.data \in Block
      /\ c \in Content
  BY DEF DiskType, IsStore, WritesAt, Content
<1>2. e.partial = Put(d.partial, w.partial, v) /\ e.final = d.final
  BY <1>1 DEF WriteToDisk
<1>3. /\ DOMAIN e.partial = DOMAIN d.partial /\ e.partial[w.partial] = v
      /\ \A n \in DOMAIN d.partial : n # w.partial => e.partial[n] = d.partial[n]
  BY <1>1, <1>2 DEF Put
<1>4. \A k \in 1..Len(c) : c[k] \in {Hole, <<i, k>>}
  BY <1>1 DEF BlocksOK
<1>5. \A k \in 1..Len(v) : v[k] \in {Hole, <<i, k>>}
  <2> DEFINE n == IF m.offset < Len(c) THEN Len(c) ELSE m.offset + 1
  <2>1. Len(c) \in Nat /\ n \in Nat
    BY <1>1 DEF Content
  <2>2. Len(v) = n
    BY <1>1, WrittenFacts
  <2>3. \A k \in 1..n : v[k] = IF k = m.offset + 1 THEN m.data
                               ELSE IF k <= Len(c) THEN c[k] ELSE Hole
    BY DEF Written
  <2> HIDE DEF n, v, c
  <2>4. ASSUME NEW k \in 1..n PROVE v[k] \in {Hole, <<i, k>>}
    <3>1. CASE k = m.offset + 1
      BY <1>1, <2>3, <3>1
    <3>2. CASE k # m.offset + 1 /\ k <= Len(c)
      <4>1. k \in 1..Len(c)
        BY <2>1, <3>2
      <4>2. QED BY <1>4, <2>3, <3>2, <4>1
    <3>3. CASE k # m.offset + 1 /\ ~(k <= Len(c))
      BY <2>3, <3>3
    <3>4. QED BY <3>1, <3>2, <3>3
  <2>5. QED BY <2>2, <2>4
<1>6. BlocksOK(w, i, e)
  BY <1>3, <1>5 DEF BlocksOK
<1>7. QED BY <1>2, <1>3, <1>6

LEMMA PartialChunk ==
    ASSUME SessionInv, PartialInv, OnFileDataChunk PROVE PartialInv'
<1> DEFINE m == Head(toRecv)
           w == receiver.writer
           i == receiver.recvIndex
<1>1. /\ Takes("FileDataChunk") /\ UNCHANGED toSend /\ receiver'.recvIndex = i
      /\ ~receiver'.asking
      /\ \/ ~w.has /\ UNCHANGED <<receiver, disk>>
         \/ /\ w.has /\ w.open /\ receiver'.writer = [w EXCEPT !.hashed = Append(@, m.data)]
            /\ disk' = WriteToDisk(disk, w, m.offset, m.data)
         \/ /\ w.has /\ receiver'.writer = w
            /\ \/ UNCHANGED disk
               \/ w.open /\ disk' = WriteToDisk(disk, w, m.offset, m.data)
  BY FileDataChunkDoes
<1>2. PartialOK(sender', toRecv', toSend, receiver, disk, Up')
  BY <1>1, PartialTaken
<1>3. DiskType(disk) /\ w \in Writer /\ BlocksOK(w, i, disk)
  BY ReceiverKnows DEF Receiver, PartialInv, PartialOK
<1>4. receiver'.writer.partial = w.partial /\ receiver'.writer.has = w.has
  BY <1>1, <1>3 DEF Writer
<1>5. /\ DOMAIN disk'.partial = DOMAIN disk.partial
      /\ BlocksOK(w, i, disk')
  <2>1. CASE UNCHANGED disk
    BY <1>3, <2>1
  <2>2. CASE w.has /\ w.open /\ disk' = WriteToDisk(disk, w, m.offset, m.data)
    <3>1. WritesAt(w, i, disk, m)
      BY <1>1, <2>2, ChunkWrites DEF Takes
    <3>2. QED BY <1>3, <2>2, <3>1, WriteKeeps
  <2>3. QED BY <1>1, <2>1, <2>2
<1>6. BlocksOK(receiver'.writer, receiver'.recvIndex, disk')
  BY <1>1, <1>4, <1>5 DEF BlocksOK
<1>7. PartialOK(sender', toRecv', toSend, receiver', disk', Up')
  BY <1>1, <1>2, <1>4, <1>5, <1>6, PartialWriter
<1>8. QED BY <1>1, <1>7 DEF PartialInv

\* The .partial files after finalizeAndCommit, done or half done.
LEMMA CommittedPartial ==
    ASSUME NEW d, NEW w, w.target = w.partial, NEW e,
           DOMAIN d.partial \subseteq {w.partial}
    PROVE  /\ e = Committed(d, w) => DOMAIN e.partial = {}
           /\ e = HalfCommitted(d, w) => /\ DOMAIN e.partial = DOMAIN d.partial
                                        /\ \A n \in DOMAIN d.partial : e.partial[n] = d.partial[n]
<1>1. PICK gone : gone = {w.partial} \cup PartialsAt(w.target)
  OBVIOUS
<1>2. Committed(d, w).partial = Drop(d.partial, gone)
  BY <1>1 DEF Committed
<1>3. HalfCommitted(d, w).partial = Drop(d.partial, PartialsAt(w.target))
  BY DEF HalfCommitted
<1>4. w.partial \notin PartialsAt(w.target)
  BY SizesAssumption DEF PartialsAt
<1>5. QED BY <1>1, <1>2, <1>3, <1>4 DEF Drop

\* Where finalizeAndCommit gets to the rename, the writer's .partial file is the
\* only one; and where it does not, only the buffer has gone.
LEMMA WriterAlone ==
    ASSUME SessionInv, PartialInv, receiver.writer.has,
           NEW d \in Closed(disk, receiver.writer)
    PROVE  /\ DOMAIN d.partial \subseteq {receiver.writer.partial}
           /\ DOMAIN d.partial # {} => receiver.writer.target = receiver.writer.partial
<1>1. DOMAIN d.partial = DOMAIN disk.partial
  BY ClosedDisks
<1>2. WriterOK(receiver.writer, receiver.recvIndex, disk)
  BY ReceiverKnows
<1>3. QED BY <1>1, <1>2 DEF PartialInv, PartialOK, WriterOK

\* Half a commit leaves the .partial files as they are.
LEMMA HalfCommittedPartial ==
    ASSUME NEW d, NEW w, NEW e, e = HalfCommitted(d, w),
           DOMAIN d.partial \subseteq {w.partial},
           DOMAIN d.partial # {} => w.target = w.partial
    PROVE  /\ DOMAIN e.partial = DOMAIN d.partial
           /\ \A n \in DOMAIN d.partial : e.partial[n] = d.partial[n]
<1>1. CASE w.target = w.partial
  BY <1>1, CommittedPartial
<1>2. CASE DOMAIN d.partial = {}
  <2>1. e.partial = Drop(d.partial, PartialsAt(w.target))
    BY DEF HalfCommitted
  <2>2. QED BY <1>2, <2>1 DEF Drop
<1>3. QED BY <1>1, <1>2

LEMMA PartialFileEnd ==
    ASSUME SessionInv, TurnInv, PartialInv, OnFileEnd PROVE PartialInv'
<1> DEFINE m == Head(toRecv)
           w == receiver.writer
           i == receiver.recvIndex
<1>1. /\ Takes("FileEnd") /\ toRecv' = Tail(toRecv) /\ ~receiver'.asking
      /\ receiver'.recvIndex = i
      /\ \/ UNCHANGED <<receiver, toSend, disk>>
         \/ /\ w.has /\ receiver'.writer = CloseWriter(w) /\ Renamable(disk, w)
            /\ toSend' = Say(toSend, FileAck(m.index, TRUE))
            /\ \E d \in Closed(disk, w) : disk' = Committed(d, w)
         \/ /\ w.has /\ receiver'.writer = CloseWriter(w)
            /\ toSend' = Say(toSend, FileAck(m.index, FALSE))
            /\ \E d \in Closed(disk, w) : disk' = d \/ disk' = HalfCommitted(d, w)
  BY FileEndDoes
<1>2. /\ PartialOK(sender', toRecv', toSend, receiver, disk, Up')
      /\ w \in Writer
      /\ toRecv \in Seq(Message) /\ toRecv # <<>> /\ m.type = "FileEnd"
  BY <1>1, PartialTaken, ReceiverKnows DEF Takes, Receiver
<1>3. CloseWriter(w).partial = w.partial /\ CloseWriter(w).has = w.has
  BY <1>2 DEF CloseWriter, Writer
<1>4. \A d \in Closed(disk, w) : DOMAIN d.partial = DOMAIN disk.partial /\ BlocksOK(w, i, d)
  BY ClosedDisks, ClosedBlocks DEF PartialInv, PartialOK
<1>5. CASE UNCHANGED <<receiver, toSend, disk>>
  BY <1>2, <1>5 DEF PartialInv
<1>6. CASE /\ w.has /\ receiver'.writer = CloseWriter(w)
           /\ toSend' = Say(toSend, FileAck(m.index, FALSE))
           /\ \E d \in Closed(disk, w) : disk' = d \/ disk' = HalfCommitted(d, w)
  <2>1. PICK d \in Closed(disk, w) : disk' = d \/ disk' = HalfCommitted(d, w)
    BY <1>6
  <2>2. /\ DOMAIN disk'.partial = DOMAIN d.partial
        /\ \A n \in DOMAIN d.partial : disk'.partial[n] = d.partial[n]
    BY <1>6, <2>1, WriterAlone, HalfCommittedPartial
  <2>3. /\ BlocksOK(receiver'.writer, receiver'.recvIndex, disk')
        /\ DOMAIN disk'.partial = DOMAIN disk.partial
    BY <1>1, <1>3, <1>4, <1>6, <2>2 DEF BlocksOK
  <2>4. PartialOK(sender', toRecv', toSend, receiver', disk', Up')
    BY <1>1, <1>2, <1>3, <1>6, <2>3, PartialWriter
  <2>5. ~TurnToSend(FileAck(m.index, FALSE))
    BY DEF FileAck, TurnToSend
  <2>6. QED BY <1>6, <2>4, <2>5, PartialSaid DEF PartialInv
<1>7. CASE /\ w.has /\ receiver'.writer = CloseWriter(w) /\ Renamable(disk, w)
           /\ toSend' = Say(toSend, FileAck(m.index, TRUE))
           /\ \E d \in Closed(disk, w) : disk' = Committed(d, w)
  <2>1. PICK d \in Closed(disk, w) : disk' = Committed(d, w)
    BY <1>7
  <2>2. DOMAIN d.partial # {}
    BY <1>4, <1>7 DEF Renamable
  <2>3. DOMAIN disk'.partial = {}
    BY <1>7, <2>1, <2>2, WriterAlone, CommittedPartial
  <2>4. NoPartial(disk') /\ BlocksOK(receiver'.writer, receiver'.recvIndex, disk')
    BY <2>3 DEF NoPartial, BlocksOK
  <2>5. PartialOK(sender', toRecv', toSend, receiver', disk', Up')
    BY <1>1, <1>2, <1>3, <1>7, <2>3, <2>4, PartialWriter
  <2>6. NoStream(toRecv')
    <3>1. /\ 1 \in 1..Len(toRecv) /\ m = toRecv[1]
          /\ Len(toRecv) \in Nat \ {0} /\ Len(Tail(toRecv)) = Len(toRecv) - 1
          /\ \A k \in 1..Len(Tail(toRecv)) : Tail(toRecv)[k] = toRecv[k + 1]
      BY <1>2, TailFacts
    <3>2. ASSUME NEW k \in 1..Len(Tail(toRecv)) PROVE ~IsStream(Tail(toRecv)[k])
      <4>1. k + 1 \in 1..Len(toRecv) /\ k + 1 > 1
        BY <3>1
      <4>2. ~IsStream(toRecv[k + 1])
        BY <1>2, <3>1, <4>1 DEF PartialInv, PartialOK, OneFile, IsEnd
      <4>3. QED BY <3>1, <4>2
    <3>3. QED BY <1>1, <3>2 DEF NoStream
  <2>7. QED BY <1>7, <2>4, <2>5, <2>6, PartialSaid DEF PartialInv
<1>8. QED BY <1>1, <1>5, <1>6, <1>7

LEMMA PartialCrash ==
    ASSUME SessionInv, SessionInv', PartialInv, ReceiverCrashes PROVE PartialInv'
<1> DEFINE m == Head(toRecv)
<1>1. /\ receiver' = NewReceiver /\ toRecv' = <<>> /\ Cut(toSend, toSend')
      /\ UNCHANGED sender /\ ~Up'
      /\ \/ disk' \in {disk} \cup Unflushed(disk, receiver.writer)
         \/ toRecv # <<>> /\ disk' \in DiskInside(m)
  BY CrashDoes
<1>2. /\ toSend \in Seq(Message) /\ toSend' \in Seq(Message) /\ Part(toSend, toSend')
      /\ toRecv \in Seq(Message) /\ DiskType(disk')
  BY <1>1, SenderHas, CutIsPart DEF SessionInv, TypeOK, DiskType
<1>3. \A k \in 1..Len(toSend') : \E j \in 1..Len(toSend) : toSend'[k] = toSend[j]
  BY <1>2, PartHolds
<1>4. \/ NoPartial(disk) => NoPartial(disk')
      \/ ~NoStream(toRecv) /\ sender.status \notin Opening
  <2>1. ASSUME toRecv # <<>>, disk' \in DiskInside(m)
        PROVE  ~NoStream(toRecv) /\ sender.status \notin Opening
    <3>1. m.type \in {"FileStart", "FileDataChunk", "FileEnd"}
      BY <2>1 DEF DiskInside
    <3>2. 1 \in 1..Len(toRecv) /\ m = toRecv[1]
      BY <1>2, <2>1, TailFacts
    <3>3. QED BY <3>1, <3>2 DEF NoStream, IsStream, SessionInv, HandshakeFirst
  <2>2. CASE disk' \in {disk} \cup Unflushed(disk, receiver.writer)
    BY <2>2, ClosedBlocks DEF NoPartial
  <2>3. QED BY <1>1, <2>1, <2>2
<1>5. CleanStart(toRecv', toSend', receiver'.asking, disk')
  <2>1. \A k \in 1..Len(toSend') : TurnToSend(toSend'[k]) => NoPartial(disk')
    BY <1>3, <1>4 DEF PartialInv, PartialOK, CleanStart
  <2>2. QED BY <1>1, <2>1, NewReceiverFacts DEF CleanStart, NoStream
<1>6. sender'.status \in Opening => NoPartial(disk')
  BY <1>1, <1>4 DEF PartialInv, PartialOK
<1>7. /\ BlocksOK(receiver'.writer, receiver'.recvIndex, disk')
      /\ ~receiver'.writer.has
  BY <1>1, <1>2, NewReceiverFacts, NoNameIsNoFile DEF BlocksOK, DiskType, IsStore
<1>8. QED BY <1>1, <1>5, <1>6, <1>7 DEF PartialInv, PartialOK, OneFile

LEMMA PartialMoves ==
    ASSUME SessionInv, SessionInv', TurnInv, PartialInv, ReceiverMoves PROVE PartialInv'
<1>1. CASE OnTransferComplete
  <2>1. /\ Takes("TransferComplete") /\ SameWriter(receiver, receiver')
        /\ ~receiver'.asking /\ UNCHANGED <<disk, toSend>>
    BY <1>1, TransferCompleteDoes
  <2>2. PartialOK(sender', toRecv', toSend, receiver', disk, Up')
    BY <2>1, PartialTaken, PartialSame
  <2>3. QED BY <2>1, <2>2 DEF PartialInv
<1>2. QED BY <1>1, PartialHandshake, PartialAccept, PartialFileStart, PartialChunk,
             PartialFileEnd, PartialCrash DEF ReceiverMoves

\* PartialInv is inductive.
LEMMA PartialKept ==
    ASSUME ByButton = TRUE, SessionInv, SessionInv', TurnInv, PartialInv, [Next]_vars
    PROVE  PartialInv'
BY StepCases, PartialQuiet, PartialConnects, PartialHandshakeResp, PartialStarts,
   PartialLoops, PartialMoves

LEMMA PartialInit == ASSUME Init PROVE PartialInv
BY DEF Init, PartialInv, PartialOK, OneFile, CleanStart, NoPartial, BlocksOK, EmptyDisk,
   NewReceiver, NoWriter

LEMMA PartialInvHolds ==
    ASSUME "recv" \notin Controls, NoTrailingHole, ByButton = TRUE
    PROVE  Spec => []PartialInv
<1>1. Init => PartialInv
  BY PartialInit
<1>2. SessionInv /\ SessionInv' /\ TurnInv /\ PartialInv /\ [Next]_vars => PartialInv'
  BY PartialKept
<1>3. QED BY <1>1, <1>2, SessionInvHolds, TurnInvHolds, PTL DEF Spec

\* What a step does to a block on disk, once it is there.
BlockKept(n, k, b, d) ==
    \/ n \in DOMAIN d.partial /\ k <= Len(d.partial[n]) /\ d.partial[n][k] = b
    \/ n \in DOMAIN d.final /\ k <= Len(d.final[n]) /\ d.final[n][k] = b

KeepsBlocks ==
    \A n \in DOMAIN disk.partial : \A k \in 1..Len(disk.partial[n]) :
        disk.partial[n][k] # Hole /\ ~InBuffer(n, k) =>
            BlockKept(n, k, disk.partial[n][k], disk')

\* A write leaves the blocks that were there.
LEMMA WriteKeepsBlocks ==
    ASSUME SessionInv, PartialInv, toRecv # <<>>, Head(toRecv) \in Message,
           HonestPacket(Head(toRecv)), Head(toRecv).type = "FileDataChunk",
           receiver.writer.has, receiver.writer.open,
           disk' = WriteToDisk(disk, receiver.writer, Head(toRecv).offset, Head(toRecv).data)
    PROVE  KeepsBlocks
<1> DEFINE m == Head(toRecv)
           w == receiver.writer
           i == receiver.recvIndex
           c == disk.partial[w.partial]
           v == Written(c, m.offset, m.data)
<1>1. DiskType(disk) /\ IsStore(disk.partial)
  BY ReceiverKnows DEF DiskType
<1>2. \A n \in DOMAIN disk.partial : disk.partial[n] \in Content
                                     /\ \A k \in 1..Len(disk.partial[n]) : k <= Len(disk.partial[n])
  BY <1>1 DEF IsStore, Content
<1>3. WritesAt(w, i, disk, m) /\ BlocksOK(w, i, disk)
  BY ChunkWrites DEF PartialInv, PartialOK
<1>4. /\ DOMAIN disk'.partial = DOMAIN disk.partial /\ disk'.partial[w.partial] = v
      /\ \A n \in DOMAIN disk.partial : n # w.partial => disk'.partial[n] = disk.partial[n]
  BY <1>1, <1>3, WriteKeeps
<1>5. /\ c \in Content /\ m.offset \in Nat /\ m.data \in Block
      /\ m.data = <<i, m.offset + 1>> /\ w.partial \in DOMAIN disk.partial
      /\ \A k \in 1..Len(c) : c[k] \in {Hole, <<i, k>>}
  BY <1>2, <1>3 DEF WritesAt, BlocksOK
<1> HIDE DEF m, c
<1>6. /\ Len(v) = IF m.offset < Len(c) THEN Len(c) ELSE m.offset + 1
      /\ v[m.offset + 1] = m.data
      /\ \A k \in 1..Len(c) : k # m.offset + 1 => v[k] = c[k]
  <2> DEFINE off == m.offset
             b == m.data
  <2>1. c \in Content /\ off \in Nat /\ b \in Block
    BY <1>5
  <2> HIDE DEF off, b
  <2>2. v = Written(c, off, b)
    BY DEF off, b
  <2> HIDE DEF v
  <2>3. /\ Len(v) = IF off < Len(c) THEN Len(c) ELSE off + 1
        /\ v[off + 1] = b
        /\ \A k \in 1..Len(c) : k # off + 1 => v[k] = c[k]
    BY <2>1, <2>2, WrittenFacts
  <2>4. QED BY <2>3 DEF off, b
<1>7. Len(c) \in Nat /\ Len(c) <= Len(v)
  BY <1>5, <1>6 DEF Content
<1> HIDE DEF v
<1>8. ASSUME NEW k \in 1..Len(c), c[k] # Hole
      PROVE  k <= Len(v) /\ v[k] = c[k]
  <2>1. k <= Len(v)
    BY <1>7
  <2>2. c[k] = <<i, k>>
    BY <1>5, <1>8
  <2>3. v[k] = c[k]
    BY <1>5, <1>6, <2>2
  <2>4. QED BY <2>1, <2>3
<1>9. QED BY <1>2, <1>4, <1>5, <1>8 DEF KeepsBlocks, BlockKept, c

\* A commit, done or half done, leaves them or gives them the final name.
LEMMA CommitKeepsBlocks ==
    ASSUME SessionInv, PartialInv, receiver.writer.has,
           NEW d \in Closed(disk, receiver.writer),
           \/ disk' = HalfCommitted(d, receiver.writer)
           \/ Renamable(d, receiver.writer) /\ disk' = Committed(d, receiver.writer)
    PROVE  KeepsBlocks
<1> DEFINE w == receiver.writer
<1>1. /\ DOMAIN d.partial \subseteq {w.partial} /\ DOMAIN d.partial = DOMAIN disk.partial
      /\ DOMAIN d.partial # {} => w.target = w.partial
  BY WriterAlone, ClosedDisks
<1>2. d \in {disk} \cup Unflushed(disk, w)
  BY ClosedDisks
<1>3. \A n \in DOMAIN disk.partial : \A k \in 1..Len(disk.partial[n]) :
         ~InBuffer(n, k) =>
            k <= Len(d.partial[n]) /\ d.partial[n][k] = disk.partial[n][k]
  BY <1>2, ClosedBlocks
<1>4. \A n \in DOMAIN d.partial :
         \/ n \in DOMAIN disk'.partial /\ disk'.partial[n] = d.partial[n]
         \/ n \in DOMAIN disk'.final /\ disk'.final[n] = d.partial[n]
  <2>1. CASE disk' = HalfCommitted(d, w)
    BY <1>1, <2>1, HalfCommittedPartial
  <2>2. CASE Renamable(d, w) /\ disk' = Committed(d, w)
    <3>1. w.target = w.partial /\ DOMAIN d.partial = {w.partial}
      BY <1>1, <2>2 DEF Renamable
    <3>2. Committed(d, w).final = Put(d.final, w.target, d.partial[w.partial])
      BY DEF Committed
    <3>3. disk'.final = Put(d.final, w.target, d.partial[w.partial])
      BY <2>2, <3>2
    <3>4. QED BY <3>1, <3>3 DEF Put
  <2>3. QED BY <2>1, <2>2
<1>5. QED BY <1>1, <1>3, <1>4 DEF KeepsBlocks, BlockKept

LEMMA BlocksKept ==
    ASSUME ByButton = TRUE, SessionInv, TurnInv, PartialInv, [Next]_vars
    PROVE  KeepsBlocks
<1> DEFINE m == Head(toRecv)
           w == receiver.writer
<1>1. CASE disk' \in {disk} \cup Unflushed(disk, w)
  BY <1>1, ClosedBlocks DEF KeepsBlocks, BlockKept
<1>2. ASSUME toRecv # <<>>, m \in Message, HonestPacket(m),
             NEW d \in Closed(disk, w), DiskMoves(m, d, disk')
      PROVE  KeepsBlocks
  <2>1. CASE m.type = "FileStart"
    BY <1>2, <2>1, StartIsAlone DEF KeepsBlocks, NoPartial
  <2>2. CASE /\ m.type = "FileDataChunk" /\ w.has /\ w.open
             /\ disk' = WriteToDisk(disk, w, m.offset, m.data)
    BY <1>2, <2>2, WriteKeepsBlocks
  <2>3. CASE /\ w.has
             /\ \/ disk' = HalfCommitted(d, w)
                \/ Renamable(d, w) /\ disk' = Committed(d, w)
    BY <2>3, CommitKeepsBlocks
  <2>4. QED BY <1>2, <2>1, <2>2, <2>3 DEF DiskMoves
<1>3. QED BY <1>1, <1>2, DiskMovesOf

\* A block that is on the receiving disk goes with the commit of its file only:
\* no file is started over one that is not finished, no write goes back over
\* another, and a failing commit leaves the .partial file (FileWriter.cpp:38-179).
THEOREM BlocksAreKept ==
    ASSUME "recv" \notin Controls, NoTrailingHole, ByButton = TRUE
    PROVE  Spec => PartialDataKept
<1> DEFINE Keeps == \A n \in DOMAIN disk.partial :
          \A k \in 1..Len(disk.partial[n]) :
              disk.partial[n][k] # Hole /\ ~InBuffer(n, k) =>
                  \/ /\ n \in DOMAIN disk'.partial
                     /\ k <= Len(disk'.partial[n])
                     /\ disk'.partial[n][k] = disk.partial[n][k]
                  \/ /\ n \in DOMAIN disk'.final
                     /\ k <= Len(disk'.final[n])
                     /\ disk'.final[n][k] = disk.partial[n][k]
<1>1. KeepsBlocks => Keeps
  BY DEF KeepsBlocks, BlockKept
<1>2. SessionInv /\ TurnInv /\ PartialInv /\ [Next]_vars => [Keeps]_vars
  BY <1>1, BlocksKept
<1>3. QED BY <1>2, SessionInvHolds, TurnInvHolds, PartialInvHolds, PTL
      DEF Spec, PartialDataKept

-----------------------------------------------------------------------------
(* WriterHoldsPrefix.  Which block the receiver expects at a position      *)
(* depends on the packets before it and on the writer.                     *)

\* The writer x expects what the writer r expected.
StaysAt(r, up, x, on) == \A off : AtWriter(r, up, off) => AtWriter(x, on, off)

\* The receiver has taken m from its queue and gone from r to x.
TakenAt(m, r, up, x, on) ==
    /\ IsStart(m) => AtWriter(x, on, 0)
    /\ IsChunk(m) => AtWriter(x, on, m.offset + 1)
    /\ ~IsStream(m) => StaysAt(r, up, x, on)

LEMMA NextAtPrefix ==
    ASSUME NEW q, NEW v, NEW p \in Nat, \A k \in 1..(p - 1) : v[k] = q[k],
           NEW r, NEW up, NEW x, NEW on, StaysAt(r, up, x, on), NEW off,
           NextAt(q, p, off, r, up)
    PROVE  NextAt(v, p, off, x, on)
<1> DEFINE Told(u, s) == /\ \/ IsStart(u[s]) /\ off = 0
                            \/ IsChunk(u[s]) /\ off = u[s].offset + 1
                         /\ \A k \in (s + 1)..(p - 1) : ~IsStream(u[k])
<1>1. ASSUME NEW s \in 1..(p - 1), Told(q, s) PROVE NextAt(v, p, off, x, on)
  <2>1. (s + 1)..(p - 1) \subseteq 1..(p - 1) /\ v[s] = q[s]
    OBVIOUS
  <2>2. Told(v, s)
    BY <1>1, <2>1
  <2>3. QED BY <2>2 DEF NextAt
<1>2. CASE (\A k \in 1..(p - 1) : ~IsStream(q[k])) /\ AtWriter(r, up, off)
  BY <1>2 DEF NextAt, StaysAt
<1>3. QED BY <1>1, <1>2 DEF NextAt

LEMMA NextAtAppend ==
    ASSUME NEW q \in Seq(Message), NEW m, NEW r, NEW up, NEW off,
           \/ IsStart(m) /\ off = 0
           \/ IsChunk(m) /\ off = m.offset + 1
           \/ ~IsStream(m) /\ NextAt(q, Len(q) + 1, off, r, up)
    PROVE  NextAt(Append(q, m), Len(q) + 2, off, r, up)
<1> DEFINE v == Append(q, m)
           n == Len(q)
<1>1. n \in Nat /\ v[n + 1] = m /\ \A k \in 1..n : v[k] = q[k]
  BY AppendAny
<1>0. SUFFICES NextAt(v, n + 2, off, r, up)
  OBVIOUS
<1>a. \/ IsStart(m) /\ off = 0
      \/ IsChunk(m) /\ off = m.offset + 1
      \/ ~IsStream(m) /\ NextAt(q, n + 1, off, r, up)
  OBVIOUS
<1> HIDE DEF v, n
<1>2. /\ (n + 2) - 1 = n + 1 /\ (n + 1) - 1 = n /\ n + 1 \in 1..(n + 1)
      /\ ((n + 1) + 1)..(n + 1) = {}
      /\ \A k \in 1..(n + 1) : k = n + 1 \/ k \in 1..n
  BY <1>1
<1> DEFINE Told(u, s, e) == /\ \/ IsStart(u[s]) /\ off = 0
                               \/ IsChunk(u[s]) /\ off = u[s].offset + 1
                            /\ \A k \in (s + 1)..e : ~IsStream(u[k])
<1>3. CASE (IsStart(m) /\ off = 0) \/ (IsChunk(m) /\ off = m.offset + 1)
  <2>1. Told(v, n + 1, n + 1)
    BY <1>1, <1>2, <1>3
  <2>2. QED BY <1>2, <2>1 DEF NextAt
<1>4. ASSUME ~IsStream(m), NEW s \in 1..n, Told(q, s, n)
      PROVE  NextAt(v, n + 2, off, r, up)
  <2>1. s \in 1..(n + 1) /\ v[s] = q[s]
    BY <1>1, <1>4
  <2>2. \A k \in (s + 1)..(n + 1) : k = n + 1 \/ (k \in (s + 1)..n /\ k \in 1..n)
    BY <1>1
  <2>3. \A k \in (s + 1)..(n + 1) : ~IsStream(v[k])
    BY <1>1, <1>4, <2>2
  <2>4. Told(v, s, n + 1)
    BY <1>4, <2>1, <2>3
  <2>5. QED BY <1>2, <2>1, <2>4 DEF NextAt
<1>5. CASE ~IsStream(m) /\ (\A k \in 1..n : ~IsStream(q[k])) /\ AtWriter(r, up, off)
  BY <1>1, <1>2, <1>5 DEF NextAt
<1>6. QED BY <1>a, <1>2, <1>3, <1>4, <1>5 DEF NextAt

LEMMA NextAtTail ==
    ASSUME NEW q \in Seq(Message), q # <<>>, NEW p \in 2..(Len(q) + 1),
           NEW r, NEW up, NEW x, NEW on, NEW off, NextAt(q, p, off, r, up),
           TakenAt(Head(q), r, up, x, on)
    PROVE  NextAt(Tail(q), p - 1, off, x, on)
<1> DEFINE v == Tail(q)
           Told(u, s, e) == /\ \/ IsStart(u[s]) /\ off = 0
                               \/ IsChunk(u[s]) /\ off = u[s].offset + 1
                            /\ \A k \in (s + 1)..e : ~IsStream(u[k])
<1>1. /\ Len(q) \in Nat /\ Head(q) = q[1]
      /\ \A k \in 1..(Len(q) - 1) : v[k] = q[k + 1]
  BY TailFacts
<1>0. SUFFICES NextAt(v, p - 1, off, x, on)
  OBVIOUS
<1> HIDE DEF v
<1>2. ASSUME NEW s \in 1..(p - 1), Told(q, s, p - 1)
      PROVE  NextAt(v, p - 1, off, x, on)
  <2>1. \A k \in s..((p - 1) - 1) : k + 1 \in (s + 1)..(p - 1) /\ k \in 1..(Len(q) - 1)
    BY <1>1
  <2>2. \A k \in s..((p - 1) - 1) : ~IsStream(v[k])
    BY <1>1, <1>2, <2>1
  <2>3. CASE s = 1
    <3>1. AtWriter(x, on, off)
      BY <1>1, <1>2, <2>3 DEF TakenAt
    <3>2. QED BY <2>2, <2>3, <3>1 DEF NextAt
  <2>4. CASE s # 1
    <3>1. s - 1 \in 1..((p - 1) - 1) /\ s - 1 \in 1..(Len(q) - 1) /\ (s - 1) + 1 = s
      BY <1>1, <2>4
    <3>2. v[s - 1] = q[s]
      BY <1>1, <3>1
    <3>3. Told(v, s - 1, (p - 1) - 1)
      BY <1>2, <2>2, <3>1, <3>2
    <3>4. QED BY <3>1, <3>3 DEF NextAt
  <2>5. QED BY <2>3, <2>4
<1>3. CASE (\A k \in 1..(p - 1) : ~IsStream(q[k])) /\ AtWriter(r, up, off)
  <2>1. 1 \in 1..(p - 1)
    BY <1>1
  <2>2. AtWriter(x, on, off)
    BY <1>1, <1>3, <2>1 DEF TakenAt, StaysAt
  <2>3. \A k \in 1..((p - 1) - 1) : k + 1 \in 1..(p - 1) /\ k \in 1..(Len(q) - 1)
    BY <1>1
  <2>4. QED BY <1>1, <1>3, <2>2, <2>3 DEF NextAt
<1>4. QED BY <1>2, <1>3 DEF NextAt

\* The queue loses its last packets, or its first, or gets one more.
LEMMA FollowCut ==
    ASSUME NEW q \in Seq(Message), NEW v, Cut(q, v), NEW r, NEW up, NEW x, NEW on,
           StaysAt(r, up, x, on), ChunksFollow(q, r, up)
    PROVE  ChunksFollow(v, x, on)
<1>1. v \in Seq(Message) /\ Len(v) <= Len(q) /\ \A k \in 1..Len(v) : v[k] = q[k]
  BY CutFacts
<1>2. SUFFICES ASSUME NEW p \in 1..Len(v), IsChunk(v[p])
               PROVE  NextAt(v, p, v[p].offset, x, on)
  BY DEF ChunksFollow
<1>3. p \in 1..Len(q) /\ p \in Nat /\ 1..(p - 1) \subseteq 1..Len(v)
  BY <1>1
<1>4. NextAt(q, p, v[p].offset, r, up)
  BY <1>1, <1>2, <1>3 DEF ChunksFollow
<1>5. QED BY <1>1, <1>3, <1>4, NextAtPrefix

LEMMA FollowTail ==
    ASSUME NEW q \in Seq(Message), q # <<>>, NEW r, NEW up, NEW x, NEW on,
           ChunksFollow(q, r, up), TakenAt(Head(q), r, up, x, on)
    PROVE  ChunksFollow(Tail(q), x, on)
<1>1. /\ Len(q) \in Nat \ {0} /\ Len(Tail(q)) = Len(q) - 1
      /\ \A k \in 1..Len(Tail(q)) : Tail(q)[k] = q[k + 1]
  BY TailFacts
<1>2. SUFFICES ASSUME NEW p \in 1..Len(Tail(q)), IsChunk(Tail(q)[p])
               PROVE  NextAt(Tail(q), p, Tail(q)[p].offset, x, on)
  BY DEF ChunksFollow
<1> DEFINE n == p + 1
           off == Tail(q)[p].offset
<1>3. n \in 2..(Len(q) + 1) /\ n \in 1..Len(q) /\ n - 1 = p
  BY <1>1
<1>4. NextAt(q, n, off, r, up)
  BY <1>1, <1>2, <1>3 DEF ChunksFollow
<1> HIDE DEF n, off
<1>5. NextAt(Tail(q), n - 1, off, x, on)
  BY <1>3, <1>4, NextAtTail
<1>6. QED BY <1>3, <1>5 DEF off

LEMMA FollowAppend ==
    ASSUME NEW q \in Seq(Message), NEW m, NEW r, NEW up,
           ChunksFollow(q, r, up), IsChunk(m) => NextAt(q, Len(q) + 1, m.offset, r, up)
    PROVE  ChunksFollow(Append(q, m), r, up)
<1> DEFINE v == Append(q, m)
<1>1. /\ Len(q) \in Nat /\ Len(v) = Len(q) + 1 /\ v[Len(q) + 1] = m
      /\ \A k \in 1..Len(q) : v[k] = q[k]
  BY AppendAny
<1> HIDE DEF v
<1>2. SUFFICES ASSUME NEW p \in 1..Len(v), IsChunk(v[p])
               PROVE  NextAt(v, p, v[p].offset, r, up)
  BY DEF ChunksFollow, v
<1>3. NextAt(q, p, v[p].offset, r, up)
  <2>1. CASE p = Len(q) + 1
    BY <1>1, <1>2, <2>1
  <2>2. CASE p # Len(q) + 1
    <3>1. p \in 1..Len(q)
      BY <1>1, <2>2
    <3>2. QED BY <1>1, <1>2, <3>1 DEF ChunksFollow
  <2>3. QED BY <2>1, <2>2
<1>4. p \in Nat /\ \A k \in 1..(p - 1) : v[k] = q[k]
  BY <1>1
<1>5. StaysAt(r, up, r, up)
  BY DEF StaysAt
<1>6. QED BY <1>3, <1>4, <1>5, NextAtPrefix

\* The sender may go on: what FollowInv says of one of its sessions and the
\* queue behind it.
SendsNext(s, q, r, up) ==
    ChunksFollow(q, r, up) /\ (Linked => MayFollow(s, q, r, up))

LEMMA FollowSay ==
    ASSUME NEW s, NEW t, NEW q \in Seq(Message), NEW r, NEW up, NEW m, ~IsChunk(m),
           ChunksFollow(q, r, up),
           \/ IsStart(m) /\ (t.reader.open => t.reader.off = 0)
           \/ /\ ~IsStream(m) /\ SendsNext(s, q, r, up)
              /\ t.reader.open /\ ~t.waiting /\ Linked =>
                    s.reader.open /\ ~s.waiting /\ t.reader.off = s.reader.off
    PROVE  SendsNext(t, Say(q, m), r, up)
<1>1. ChunksFollow(Append(q, m), r, up)
  BY FollowAppend
<1>2. ASSUME Linked, t.reader.open, ~t.waiting
      PROVE  NextAt(Append(q, m), Len(Append(q, m)) + 1, t.reader.off, r, up)
  <2>1. \/ IsStart(m) /\ t.reader.off = 0
        \/ ~IsStream(m) /\ NextAt(q, Len(q) + 1, t.reader.off, r, up)
    BY <1>2 DEF SendsNext, MayFollow
  <2>2. NextAt(Append(q, m), Len(q) + 2, t.reader.off, r, up)
    BY <2>1, NextAtAppend
  <2>3. Len(Append(q, m)) + 1 = Len(q) + 2
    BY AppendAny
  <2>4. QED BY <2>2, <2>3
<1>3. QED BY <1>1, <1>2 DEF Say, SendsNext, MayFollow

LEMMA FollowLoop ==
    ASSUME NEW s \in Sender, NEW t, NEW q \in Seq(Message), NEW v, NEW r, NEW up,
           SendsNext(s, q, r, up), LoopTurn(s, q, t, v)
    PROVE  SendsNext(t, v, r, up)
<1>1. CASE Kept(s, t) /\ v = q
  BY <1>1 DEF SendsNext, MayFollow, Kept
<1>2. CASE LoopEnds(s, q, t, v)
  <2> DEFINE m == FileEnd(s.cur, s.reader.hashed)
  <2>1. t.waiting /\ v = Say(q, m)
    BY <1>2 DEF LoopEnds
  <2>2. ~IsChunk(m)
    BY DEF FileEnd, IsChunk
  <2> HIDE DEF m
  <2>3. ChunksFollow(Append(q, m), r, up)
    BY <2>2, FollowAppend DEF SendsNext
  <2>4. QED BY <2>1, <2>3 DEF Say, SendsNext, MayFollow
<1>3. CASE LoopReads(s, q, t, v)
  <2> DEFINE m == FileDataChunk(s.cur, s.reader.off, NextBlock(s.reader))
  <2>1. s.reader.open /\ ~s.waiting /\ v = Say(q, m) /\ t.reader = ReadNextChunk(s.reader)
    BY <1>3 DEF LoopReads
  <2>2. IsChunk(m) /\ m.offset = s.reader.off
    BY DEF FileDataChunk, IsChunk
  <2>3. t.reader.off = m.offset + 1
    BY <2>1, <2>2 DEF ReadNextChunk, Sender, Reader
  <2> HIDE DEF m
  <2>4. CASE Linked
    <3>1. ChunksFollow(Append(q, m), r, up)
      BY <2>1, <2>2, <2>4, FollowAppend DEF SendsNext, MayFollow
    <3>2. NextAt(Append(q, m), Len(q) + 2, t.reader.off, r, up)
      BY <2>2, <2>3, NextAtAppend
    <3>3. Len(Append(q, m)) + 1 = Len(q) + 2
      BY AppendAny
    <3>4. QED BY <2>1, <2>4, <3>1, <3>2, <3>3 DEF Say, SendsNext, MayFollow
  <2>5. CASE ~Linked
    BY <2>1, <2>5 DEF Say, SendsNext
  <2>6. QED BY <2>4, <2>5
<1>4. QED BY <1>1, <1>2, <1>3 DEF LoopTurn

LEMMA FollowQuiet ==
    ASSUME SessionInv, FollowInv, Quiet PROVE FollowInv'
<1>1. toRecv \in Seq(Message)
  BY SenderHas
<1>2. /\ ChunksFollow(toRecv, receiver, Up)
      /\ Linked' => Linked
      /\ Linked => MayFollow(sender, toRecv, receiver, Up)
      /\ StaysAt(receiver, Up, receiver', Up')
      /\ sender'.reader.open /\ ~sender'.waiting /\ Linked =>
            /\ sender.reader.open /\ ~sender.waiting
            /\ sender'.reader.off = sender.reader.off
  BY DEF FollowInv, FollowOK, Quiet, Kept, KeptR, StaysAt, AtWriter
<1>3. /\ receiver'.writer.open /\ Up' => PrefixWritten(receiver', disk')
      /\ sender'.status \in Opening => ~receiver'.writer.open
  BY DEF FollowInv, FollowOK, Quiet, QuietDisk, Kept, KeptR, PrefixWritten
<1>4. CASE Cut(toRecv, toRecv') /\ (Linked' => toRecv' = toRecv)
  <2>1. ChunksFollow(toRecv', receiver', Up')
    BY <1>1, <1>2, <1>4, FollowCut
  <2>2. ASSUME Linked', sender'.reader.open, ~sender'.waiting
        PROVE  NextAt(toRecv', Len(toRecv') + 1, sender'.reader.off, receiver', Up')
    <3>1. /\ NextAt(toRecv, Len(toRecv) + 1, sender'.reader.off, receiver, Up)
          /\ toRecv' = toRecv
      BY <1>2, <1>4, <2>2 DEF MayFollow
    <3>2. Len(toRecv) + 1 \in Nat
      BY <1>1
    <3>3. NextAt(toRecv, Len(toRecv) + 1, sender'.reader.off, receiver', Up')
      BY <1>2, <3>1, <3>2, NextAtPrefix
    <3>4. QED BY <3>1, <3>3
  <2>3. QED BY <1>3, <2>1, <2>2 DEF FollowInv, FollowOK, MayFollow
<1>5. CASE /\ toRecv # <<>> /\ toRecv' = Tail(toRecv)
           /\ Head(toRecv).type \in {"TransferPause", "TransferResume", "TransferCancel"}
  <2>1. TakenAt(Head(toRecv), receiver, Up, receiver', Up')
    BY <1>2, <1>5 DEF TakenAt, IsStart, IsChunk
  <2>2. ChunksFollow(toRecv', receiver', Up')
    BY <1>1, <1>2, <1>5, <2>1, FollowTail
  <2>3. ASSUME Linked', sender'.reader.open, ~sender'.waiting
        PROVE  NextAt(toRecv', Len(toRecv') + 1, sender'.reader.off, receiver', Up')
    <3> DEFINE n == Len(toRecv) + 1
               off == sender'.reader.off
    <3>1. NextAt(toRecv, n, off, receiver, Up)
      BY <1>2, <2>3 DEF MayFollow
    <3>2. n \in 2..(Len(toRecv) + 1) /\ n - 1 = Len(toRecv') + 1
      BY <1>1, <1>5, TailFacts
    <3> HIDE DEF n, off
    <3>3. NextAt(toRecv', n - 1, off, receiver', Up')
      BY <1>1, <1>5, <2>1, <3>1, <3>2, NextAtTail
    <3>4. QED BY <3>2, <3>3 DEF off
  <2>4. QED BY <1>3, <2>2, <2>3 DEF FollowInv, FollowOK, MayFollow
<1>6. CASE \E m \in Message : /\ m.type \in {"TransferPause", "TransferCancel"}
                               /\ toRecv' = Append(toRecv, m)
  <2>1. PICK m \in Message : /\ m.type \in {"TransferPause", "TransferCancel"}
                             /\ toRecv' = Append(toRecv, m)
    BY <1>6
  <2>2. ~IsChunk(m) /\ ~IsStream(m)
    BY <2>1 DEF IsChunk, IsStream
  <2>3. ChunksFollow(toRecv, receiver', Up')
    <3>1. Cut(toRecv, toRecv)
      BY <1>1, CutAll
    <3>2. QED BY <1>1, <1>2, <3>1, FollowCut
  <2>4. ChunksFollow(toRecv', receiver', Up')
    BY <1>1, <2>1, <2>2, <2>3, FollowAppend
  <2>5. ASSUME Linked', sender'.reader.open, ~sender'.waiting
        PROVE  NextAt(toRecv', Len(toRecv') + 1, sender'.reader.off, receiver', Up')
    <3>1. NextAt(toRecv, Len(toRecv) + 1, sender'.reader.off, receiver, Up)
      BY <1>2, <2>5 DEF MayFollow
    <3>2. Len(toRecv) + 1 \in Nat
      BY <1>1
    <3>3. NextAt(toRecv, Len(toRecv) + 1, sender'.reader.off, receiver', Up')
      BY <1>2, <3>1, <3>2, NextAtPrefix
    <3>4. NextAt(toRecv', Len(toRecv) + 2, sender'.reader.off, receiver', Up')
      BY <1>1, <2>1, <2>2, <3>3, NextAtAppend
    <3>5. Len(toRecv') + 1 = Len(toRecv) + 2
      BY <1>1, <2>1, AppendAny
    <3>6. QED BY <3>4, <3>5
  <2>6. QED BY <1>3, <2>4, <2>5 DEF FollowInv, FollowOK, MayFollow
<1>7. QED BY <1>4, <1>5, <1>6 DEF Quiet, QuietToRecv

\* A packet handler of the receiver keeps the stream behind its packet, if the
\* writer it leaves expects what comes after that packet.
LEMMA FollowTakes ==
    ASSUME SessionInv, FollowInv, NEW type, Takes(type),
           TakenAt(Head(toRecv), receiver, Up, receiver', Up'),
           receiver'.writer.open /\ Up' => PrefixWritten(receiver', disk'),
           sender.status \in Opening => ~receiver'.writer.open
    PROVE  FollowInv'
<1> DEFINE q == toRecv
<1>1. /\ q \in Seq(Message) /\ q # <<>>
      /\ Cut(Tail(q), toRecv') /\ UNCHANGED sender
      /\ Linked' => Linked /\ toRecv' = Tail(q)
  BY SenderHas DEF Takes
<1>2. /\ ChunksFollow(q, receiver, Up)
      /\ Linked => MayFollow(sender, q, receiver, Up)
  BY DEF FollowInv, FollowOK
<1>3. /\ Tail(q) \in Seq(Message) /\ Len(Tail(q)) = Len(q) - 1
      /\ Len(q) \in Nat \ {0}
  BY <1>1, TailFacts
<1>4. ChunksFollow(Tail(q), receiver', Up')
  BY <1>1, <1>2, FollowTail
<1>5. ChunksFollow(toRecv', receiver', Up')
  <2>1. StaysAt(receiver', Up', receiver', Up')
    BY DEF StaysAt
  <2>2. QED BY <1>1, <1>3, <1>4, <2>1, FollowCut
<1>6. ASSUME Linked', sender.reader.open, ~sender.waiting
      PROVE  NextAt(toRecv', Len(toRecv') + 1, sender.reader.off, receiver', Up')
  <2> DEFINE n == Len(q) + 1
             off == sender.reader.off
  <2>1. NextAt(q, n, off, receiver, Up)
    BY <1>1, <1>2, <1>6 DEF MayFollow
  <2>2. n \in 2..(Len(q) + 1) /\ n - 1 = Len(toRecv') + 1
    <3>1. toRecv' = Tail(q)
      BY <1>1, <1>6
    <3> HIDE DEF q
    <3>2. QED BY <1>3, <3>1
  <2> HIDE DEF n, off
  <2>3. NextAt(Tail(q), n - 1, off, receiver', Up')
    BY <1>1, <2>1, <2>2, NextAtTail
  <2>4. QED BY <1>1, <1>6, <2>2, <2>3 DEF off
<1>7. QED BY <1>1, <1>5, <1>6 DEF FollowInv, FollowOK, MayFollow

\* The sender's own steps.
LEMMA FollowSends ==
    ASSUME FollowInv, UNCHANGED <<receiver, disk, sock, cut>>,
           SendsNext(sender', toRecv', receiver, Up),
           sender'.status \in Opening => sender.status \in Opening
    PROVE  FollowInv'
<1>1. Linked' = Linked /\ Up' = Up
  BY DEF Linked, Up
<1>2. QED BY <1>1 DEF FollowInv, FollowOK, SendsNext

LEMMA FollowHandshakeResp ==
    ASSUME SessionInv, FollowInv, OnHandshakeResp PROVE FollowInv'
<1> DEFINE m == Signal("TransferOffer")
<1>1. /\ UNCHANGED <<receiver, disk, sock, cut>> /\ SendToReceiver(<<m>>)
      /\ sender' = WithStatus(sender, "WaitingApproval")
  BY DEF OnHandshakeResp, SenderHandles
<1>2. sender \in Sender /\ toRecv \in Seq(Message)
  BY SenderHas
<1>3. toRecv' = Say(toRecv, m)
  BY <1>1, <1>2, ConcatOne, AnswerMessages DEF SendToReceiver, Say
<1>4. /\ ~IsChunk(m) /\ ~IsStream(m)
      /\ sender'.reader = sender.reader /\ sender'.waiting = sender.waiting
      /\ sender'.status \notin Opening
  BY <1>1, <1>2 DEF Signal, IsChunk, IsStream, WithStatus, Sender, Opening
<1> HIDE DEF m
<1>5. SendsNext(sender, toRecv, receiver, Up)
  BY DEF FollowInv, FollowOK, SendsNext
<1>6. SendsNext(sender', Say(toRecv, m), receiver, Up)
  BY <1>2, <1>4, <1>5, FollowSay DEF SendsNext
<1>7. QED BY <1>1, <1>3, <1>4, <1>6, FollowSends

LEMMA LoopOpening ==
    ASSUME NEW s, NEW q, NEW t, NEW v, LoopTurn(s, q, t, v)
    PROVE  t.status \in Opening => s.status \in Opening
BY DEF LoopTurn, Kept, LoopEnds, LoopReads, Opening

LEMMA FollowStarts ==
    ASSUME SessionInv, TurnInv, FollowInv, SenderStarts PROVE FollowInv'
<1>1. PICK s \in Sender, i \in Nat \ {0}, off \in Nat :
             /\ Kept(sender, s) /\ s.status \notin Opening /\ Starts(s, i, off)
             /\ \/ /\ Head(toSend).type \in {"TransferAccept", "TransferResume"}
                   /\ off = Head(toSend).offset
                \/ Head(toSend).type = "FileAck" /\ off = 0
  BY DEF SenderStarts
<1>2. /\ toRecv \in Seq(Message) /\ UNCHANGED <<receiver, disk, sock, cut>>
      /\ toSend \in Seq(Message) /\ toSend # <<>>
  BY SenderHas DEF SenderStarts
<1>3. SendsNext(sender, toRecv, receiver, Up)
  BY DEF FollowInv, FollowOK, SendsNext
<1>4. off = 0
  <2>1. 1 \in 1..Len(toSend) /\ Head(toSend) = toSend[1]
    BY <1>2, TailFacts
  <2>2. QED BY <1>1, <2>1 DEF TurnInv, TurnOK, AnswersFit
<1>5. CASE LoopTurn(Started(s, i, off), Say(toRecv, FileStart(i)), sender', toRecv') /\ i \in Files
  <2> DEFINE t == Started(s, i, off)
             m == FileStart(i)
  <2>1. IsStart(m) /\ ~IsChunk(m) /\ m \in Message
    BY <1>5 DEF FileStart, IsStart, IsChunk, Message
  <2>2. t \in Sender /\ t.reader.off = 0 /\ t.status = s.status
    BY <1>4, <1>5, StartedFacts
  <2> HIDE DEF t, m
  <2>3. SendsNext(t, Say(toRecv, m), receiver, Up)
    BY <1>2, <1>3, <2>1, <2>2, FollowSay DEF SendsNext
  <2>4. Say(toRecv, m) \in Seq(Message)
    BY <1>2, <2>1, AppendFacts DEF Say
  <2>5. LoopTurn(t, Say(toRecv, m), sender', toRecv')
    BY <1>5 DEF t, m
  <2>6. SendsNext(sender', toRecv', receiver, Up)
    BY <2>2, <2>3, <2>4, <2>5, FollowLoop
  <2>7. sender'.status \notin Opening
    BY <1>1, <2>2, <2>5, LoopOpening
  <2>8. QED BY <1>2, <2>6, <2>7, FollowSends
<1>6. CASE /\ ~sender'.reader.open /\ toRecv' = toRecv /\ sender'.status = "Failed"
  <2>1. SendsNext(sender', toRecv', receiver, Up)
    BY <1>3, <1>6 DEF SendsNext, MayFollow
  <2>2. QED BY <1>2, <1>6, <2>1, FollowSends DEF Opening
<1>7. CASE /\ sender'.waiting = s.waiting /\ sender'.reader = s.reader
           /\ sender'.status = "Completed"
           /\ toRecv' = Say(toRecv, Signal("TransferComplete"))
  <2> DEFINE m == Signal("TransferComplete")
  <2>1. ~IsChunk(m) /\ ~IsStream(m)
    BY DEF Signal, IsChunk, IsStream
  <2>2. sender'.reader.open /\ ~sender'.waiting /\ Linked =>
           /\ sender.reader.open /\ ~sender.waiting
           /\ sender'.reader.off = sender.reader.off
    BY <1>1, <1>7 DEF Kept
  <2> HIDE DEF m
  <2>3. SendsNext(sender', Say(toRecv, m), receiver, Up)
    BY <1>2, <1>3, <2>1, <2>2, FollowSay DEF SendsNext
  <2>4. QED BY <1>2, <1>7, <2>3, FollowSends DEF m, Opening
<1>8. QED BY <1>1, <1>5, <1>6, <1>7 DEF Starts

LEMMA FollowLoops ==
    ASSUME SessionInv, FollowInv, SenderLoops PROVE FollowInv'
<1>1. PICK s \in Sender, q \in Seq(Message) :
             /\ Kept(sender, s)
             /\ \/ q = toRecv
                \/ \E m \in Message : m.type = "TransferResume" /\ q = Say(toRecv, m)
             /\ LoopTurn(s, q, sender', toRecv')
  BY DEF SenderLoops
<1>2. toRecv \in Seq(Message) /\ UNCHANGED <<receiver, disk, sock, cut>>
  BY SenderHas DEF SenderLoops
<1>3. SendsNext(sender, toRecv, receiver, Up)
  BY DEF FollowInv, FollowOK, SendsNext
<1>4. /\ s.reader.open /\ ~s.waiting /\ Linked =>
            /\ sender.reader.open /\ ~sender.waiting
            /\ s.reader.off = sender.reader.off
      /\ s.status \in Opening => sender.status \in Opening
  BY <1>1 DEF Kept
<1>5. SendsNext(s, q, receiver, Up)
  <2>1. CASE q = toRecv
    BY <1>3, <1>4, <2>1 DEF SendsNext, MayFollow
  <2>2. ASSUME NEW m \in Message, m.type = "TransferResume", q = Say(toRecv, m)
        PROVE  SendsNext(s, q, receiver, Up)
    <3>1. ~IsChunk(m) /\ ~IsStream(m)
      BY <2>2 DEF IsChunk, IsStream
    <3>2. SendsNext(s, Say(toRecv, m), receiver, Up)
      BY <1>2, <1>3, <1>4, <3>1, FollowSay DEF SendsNext
    <3>3. QED BY <2>2, <3>2
  <2>3. QED BY <1>1, <2>1, <2>2
<1>6. SendsNext(sender', toRecv', receiver, Up)
  BY <1>1, <1>5, FollowLoop
<1>7. QED BY <1>1, <1>2, <1>4, <1>6, FollowSends, LoopOpening

LEMMA FollowConnects ==
    ASSUME SessionInv, FollowInv, SocketConnected PROVE FollowInv'
<1>1. /\ toRecv' = <<Signal("HandshakeReq")>> /\ Early /\ receiver \in Receiver
      /\ sender' = WithStatus(sender, "Handshaking") /\ sender \in Sender
      /\ receiver' = WithStatus(receiver, "Handshaking")
  BY SenderHas DEF SocketConnected, Early
<1>2. ~sender'.reader.open /\ sender.status \in Opening
  BY <1>1 DEF SessionInv, EarlyOK, WithStatus, Sender, Opening
<1>3. ~receiver'.writer.open
  BY <1>1, <1>2 DEF FollowInv, FollowOK, WithStatus, Receiver
<1>4. \A p \in 1..Len(toRecv') : ~IsChunk(toRecv'[p])
  BY <1>1 DEF Signal, IsChunk
<1>5. QED BY <1>2, <1>3, <1>4 DEF FollowInv, FollowOK, ChunksFollow, MayFollow

\* A packet of the stream comes after the handshake.
LEMMA StreamIsLate ==
    ASSUME SessionInv, toRecv # <<>>, IsStream(Head(toRecv))
    PROVE  sender.status \notin Opening
<1>1. 1 \in 1..Len(toRecv) /\ Head(toRecv) = toRecv[1]
  BY SenderHas, TailFacts
<1>2. QED BY <1>1 DEF SessionInv, HandshakeFirst, IsStream

LEMMA FollowFileStart ==
    ASSUME SessionInv, FollowInv, OnFileStart PROVE FollowInv'
<1> DEFINE i == Head(toRecv).index
           m == Head(toRecv)
<1>1. Takes("FileStart") /\ i \in Files
  BY FileStartDoes
<1>2. PICK d \in Closed(disk, receiver.writer) : Opened(d, i) \/ NotOpened(d, i)
  BY FileStartDoes
<1>3. IsStart(m) /\ ~IsChunk(m) /\ IsStream(m) /\ sender.status \notin Opening
  BY <1>1, StreamIsLate DEF Takes, IsStart, IsChunk, IsStream
<1>4. CASE Opened(d, i)
  <2>1. PICK t \in Targets(d, i, Policy), c \in Preallocations(i) :
               receiver'.writer = OpenedWriter(t) /\ disk' = OpenedDisk(d, t, c)
    BY <1>4 DEF Opened
  <2>2. /\ receiver'.writer.has /\ receiver'.writer.partial = t
        /\ receiver'.writer.hashed = <<>> /\ Len(receiver'.writer.hashed) = 0
    BY <2>1 DEF OpenedWriter
  <2>3. AtWriter(receiver', Up', 0)
    BY <2>2 DEF AtWriter
  <2>4. t \in DOMAIN disk'.partial /\ disk'.partial[t] = c
    <3>1. disk'.partial = Put(Cleared(d, t).partial, t, c)
      BY <2>1 DEF OpenedDisk, Cleared
    <3>2. QED BY <3>1 DEF Put
  <2>5. Len(c) \in Nat
    <3>1. PICK n \in Nat : c = [k \in 1..n |-> Hole]
      BY <1>1, <2>1, SizesAssumption DEF Preallocations
    <3>2. QED BY <3>1
  <2>6. PrefixWritten(receiver', disk')
    <3>1. 0 <= Len(c) /\ 1..0 = {}
      BY <2>5
    <3>2. QED BY <2>2, <2>4, <3>1 DEF PrefixWritten
  <2>7. TakenAt(m, receiver, Up, receiver', Up')
    BY <1>3, <2>3 DEF TakenAt
  <2>8. QED BY <1>1, <1>3, <2>6, <2>7, FollowTakes
<1>5. CASE NotOpened(d, i)
  <2>1. ~Up' /\ ~receiver'.writer.open
    BY <1>5 DEF NotOpened
  <2>2. TakenAt(m, receiver, Up, receiver', Up')
    BY <1>3, <2>1 DEF TakenAt, AtWriter
  <2>3. QED BY <1>1, <2>1, <2>2, FollowTakes
<1>6. QED BY <1>2, <1>4, <1>5

\* The chunk a connected receiver takes is the next one of its file.
LEMMA ChunkIsNext ==
    ASSUME SessionInv, FollowInv, toRecv # <<>>, IsChunk(Head(toRecv))
    PROVE  AtWriter(receiver, Up, Head(toRecv).offset)
<1>1. 1 \in 1..Len(toRecv) /\ Head(toRecv) = toRecv[1]
  BY SenderHas, TailFacts
<1>2. NextAt(toRecv, 1, Head(toRecv).offset, receiver, Up)
  BY <1>1 DEF FollowInv, FollowOK, ChunksFollow
<1>3. 1..(1 - 1) = {}
  OBVIOUS
<1>4. QED BY <1>2, <1>3 DEF NextAt

\* One block more of the prefix.
LEMMA PrefixGrows ==
    ASSUME NEW c \in Content, NEW h \in Seq(Block), NEW i, NEW b \in Block,
           b = <<i, Len(h) + 1>>, Len(h) <= Len(c),
           \A k \in 1..Len(h) : h[k] = <<i, k>> /\ c[k] = h[k]
    PROVE  /\ Len(Append(h, b)) = Len(h) + 1
           /\ Len(Append(h, b)) <= Len(Written(c, Len(h), b))
           /\ \A k \in 1..Len(Append(h, b)) :
                 /\ Append(h, b)[k] = <<i, k>>
                 /\ Written(c, Len(h), b)[k] = Append(h, b)[k]
<1> DEFINE v == Written(c, Len(h), b)
           g == Append(h, b)
           n == Len(h)
<1>1. /\ n \in Nat /\ Len(c) \in Nat /\ Len(g) = n + 1 /\ g[n + 1] = b
      /\ \A k \in 1..n : g[k] = h[k]
  BY AppendFacts DEF Content
<1>2. /\ Len(v) = IF n < Len(c) THEN Len(c) ELSE n + 1
      /\ v[n + 1] = b
      /\ \A k \in 1..Len(c) : k # n + 1 => v[k] = c[k]
  BY <1>1, WrittenFacts
<1>0. SUFFICES /\ Len(g) = n + 1 /\ Len(g) <= Len(v)
               /\ \A k \in 1..Len(g) : g[k] = <<i, k>> /\ v[k] = g[k]
  OBVIOUS
<1>3. b = <<i, n + 1>> /\ n <= Len(c) /\ \A k \in 1..n : h[k] = <<i, k>> /\ c[k] = h[k]
  OBVIOUS
<1> HIDE DEF v, g, n
<1>4. ASSUME NEW k \in 1..(n + 1) PROVE g[k] = <<i, k>> /\ v[k] = g[k]
  <2>1. CASE k = n + 1
    BY <1>1, <1>2, <1>3, <2>1
  <2>2. CASE k # n + 1
    <3>1. k \in 1..n /\ k \in 1..Len(c)
      BY <1>1, <1>3, <2>2
    <3>2. QED BY <1>1, <1>2, <1>3, <2>2, <3>1
  <2>3. QED BY <2>1, <2>2
<1>5. Len(g) <= Len(v)
  BY <1>1, <1>2
<1>6. QED BY <1>1, <1>4, <1>5

LEMMA FollowChunk ==
    ASSUME SessionInv, FollowInv, OnFileDataChunk PROVE FollowInv'
<1> DEFINE m == Head(toRecv)
           w == receiver.writer
           i == receiver.recvIndex
<1>1. /\ Takes("FileDataChunk") /\ receiver'.recvIndex = i
      /\ \/ ~w.has /\ UNCHANGED <<receiver, disk>>
         \/ /\ w.has /\ w.open /\ receiver'.writer = [w EXCEPT !.hashed = Append(@, m.data)]
            /\ disk' = WriteToDisk(disk, w, m.offset, m.data)
         \/ w.has /\ ~Up' /\ receiver'.writer = w
  BY FileDataChunkDoes
<1>2. /\ toRecv # <<>> /\ m.type = "FileDataChunk" /\ m \in Message /\ HonestPacket(m)
      /\ Up' => Up
  BY <1>1 DEF Takes
<1>3. ~IsStart(m) /\ IsChunk(m) /\ IsStream(m) /\ sender.status \notin Opening
  BY <1>2, StreamIsLate DEF IsStart, IsChunk, IsStream
<1>4. AtWriter(receiver, Up, m.offset)
  BY <1>2, <1>3, ChunkIsNext
<1>5. CASE ~Up'
  BY <1>1, <1>3, <1>5, FollowTakes DEF TakenAt, AtWriter
<1>6. CASE /\ Up' /\ w.has /\ w.open
           /\ receiver'.writer = [w EXCEPT !.hashed = Append(@, m.data)]
           /\ disk' = WriteToDisk(disk, w, m.offset, m.data)
  <2> DEFINE h == w.hashed
             b == m.data
             c == disk.partial[w.partial]
  <2>1. DiskType(disk) /\ w \in Writer /\ h \in Seq(Block)
    BY ReceiverKnows DEF Receiver, Writer
  <2>2. WritesAt(w, i, disk, m) /\ m.offset = Len(h)
    BY <1>2, <1>4, <1>6, ChunkWrites DEF AtWriter
  <2>3. PrefixWritten(receiver, disk)
    BY <1>2, <1>6 DEF FollowInv, FollowOK
  <2>4. /\ receiver'.writer.has /\ receiver'.writer.open
        /\ receiver'.writer.partial = w.partial /\ receiver'.writer.hashed = Append(h, b)
    BY <1>6, <2>1 DEF Writer
  <2>5. /\ w.partial \in DOMAIN disk.partial /\ c \in Content
        /\ b = <<i, Len(h) + 1>> /\ b \in Block
        /\ Len(h) <= Len(c)
        /\ \A k \in 1..Len(h) : h[k] = <<i, k>> /\ c[k] = h[k]
    BY <2>1, <2>2, <2>3 DEF WritesAt, PrefixWritten, DiskType, IsStore, Content
  <2>6. disk'.partial = Put(disk.partial, w.partial, Written(c, Len(h), b))
    BY <1>6, <2>1, <2>2 DEF WriteToDisk, DiskType
  <2>7. /\ w.partial \in DOMAIN disk'.partial
        /\ disk'.partial[w.partial] = Written(c, Len(h), b)
    BY <2>5, <2>6 DEF Put
  <2>8. /\ receiver'.writer.partial \in DOMAIN disk'.partial
        /\ disk'.partial[receiver'.writer.partial] = Written(c, Len(h), b)
        /\ receiver'.writer.hashed = Append(h, b) /\ receiver'.recvIndex = i
    BY <1>1, <2>4, <2>7
  <2>9. m.offset = Len(h) /\ receiver'.writer.has
    BY <2>2, <2>4
  <2> HIDE DEF h, b, c, i, m, w
  <2>10. /\ Len(Append(h, b)) = Len(h) + 1 /\ Len(Append(h, b)) <= Len(Written(c, Len(h), b))
         /\ \A k \in 1..Len(Append(h, b)) : /\ Append(h, b)[k] = <<i, k>>
                                            /\ Written(c, Len(h), b)[k] = Append(h, b)[k]
    <3>1. c \in Content /\ h \in Seq(Block) /\ b \in Block
      BY <2>1, <2>5
    <3>2. b = <<i, Len(h) + 1>> /\ Len(h) <= Len(c)
      BY <2>5
    <3>3. \A k \in 1..Len(h) : h[k] = <<i, k>> /\ c[k] = h[k]
      BY <2>5
    <3> QED BY ONLY <3>1, <3>2, <3>3, PrefixGrows
  <2>11. PrefixWritten(receiver', disk')
    <3>1. receiver'.writer.hashed = Append(h, b) /\ receiver'.recvIndex = i
      BY <2>8
    <3>2. disk'.partial[receiver'.writer.partial] = Written(c, Len(h), b)
      BY <2>8
    <3>3. receiver'.writer.partial \in DOMAIN disk'.partial
      BY <2>8
    <3>4. QED BY <2>10, <3>1, <3>2, <3>3 DEF PrefixWritten
  <2>12. TakenAt(m, receiver, Up, receiver', Up')
    BY <1>3, <2>8, <2>9, <2>10 DEF TakenAt, AtWriter
  <2>13. QED BY <1>1, <1>3, <2>11, <2>12, FollowTakes DEF m
<1>7. ~w.has => ~Up'
  BY <1>2, <1>4 DEF AtWriter
<1>8. QED BY <1>1, <1>5, <1>6, <1>7

LEMMA FollowFileEnd ==
    ASSUME SessionInv, FollowInv, OnFileEnd PROVE FollowInv'
<1> DEFINE m == Head(toRecv)
           w == receiver.writer
<1>1. /\ Takes("FileEnd")
      /\ UNCHANGED <<receiver, disk>> \/ receiver'.writer = CloseWriter(w)
  BY FileEndDoes
<1>2. /\ toRecv # <<>> /\ m.type = "FileEnd" /\ w \in Writer
      /\ Up' => Up
  BY <1>1, ReceiverKnows DEF Takes, Receiver
<1>3. TakenAt(m, receiver, Up, receiver', Up')
  <2>1. ~IsStart(m) /\ ~IsChunk(m) /\ IsStream(m)
    BY <1>2 DEF IsStart, IsChunk, IsStream
  <2>2. QED BY <2>1 DEF TakenAt
<1>4. CASE UNCHANGED <<receiver, disk>>
  BY <1>1, <1>2, <1>3, <1>4, FollowTakes DEF FollowInv, FollowOK, PrefixWritten, Takes
<1>5. CASE receiver'.writer = CloseWriter(w)
  <2>1. ~receiver'.writer.open
    BY <1>2, <1>5 DEF CloseWriter, Writer
  <2>2. QED BY <1>1, <1>3, <2>1, FollowTakes
<1>6. QED BY <1>1, <1>4, <1>5

LEMMA FollowMoves ==
    ASSUME SessionInv, FollowInv, ReceiverMoves PROVE FollowInv'
<1>1. CASE OnHandshakeReq \/ OnTransferOffer \/ OnTransferComplete
  <2>1. PICK type \in {"HandshakeReq", "TransferOffer", "TransferComplete"} :
               Takes(type) /\ SameWriter(receiver, receiver') /\ UNCHANGED disk
    BY <1>1, HandshakeReqDoes, TransferOfferDoes, TransferCompleteDoes
  <2>2. TakenAt(Head(toRecv), receiver, Up, receiver', Up')
    BY <2>1 DEF Takes, TakenAt, IsStart, IsChunk, StaysAt, AtWriter, SameWriter
  <2>3. /\ receiver'.writer.open /\ Up' => PrefixWritten(receiver', disk')
        /\ sender.status \in Opening => ~receiver'.writer.open
    BY <2>1 DEF FollowInv, FollowOK, PrefixWritten, SameWriter, Takes
  <2>4. QED BY <2>1, <2>2, <2>3, FollowTakes
<1>2. CASE UserAccepts
  <2>1. /\ UNCHANGED <<sender, toRecv, disk>> /\ Linked' = Linked /\ Up' = Up
        /\ SameWriter(receiver, receiver')
    BY <1>2, UserAcceptsDoes
  <2>2. QED BY <2>1 DEF FollowInv, FollowOK, ChunksFollow, MayFollow, NextAt, AtWriter,
        PrefixWritten, SameWriter
<1>3. CASE ReceiverCrashes
  <2>1. toRecv' = <<>> /\ ~Linked' /\ receiver' = NewReceiver
    BY <1>3, CrashDoes
  <2>2. ~receiver'.writer.open
    BY <2>1 DEF NewReceiver, NoWriter
  <2>3. QED BY <2>1, <2>2 DEF FollowInv, FollowOK, ChunksFollow
<1>4. QED BY <1>1, <1>2, <1>3, FollowFileStart, FollowChunk, FollowFileEnd DEF ReceiverMoves

\* FollowInv is inductive.
LEMMA FollowKept ==
    ASSUME ByButton = TRUE, SessionInv, TurnInv, FollowInv, [Next]_vars
    PROVE  FollowInv'
BY StepCases, FollowQuiet, FollowConnects, FollowHandshakeResp, FollowStarts,
   FollowLoops, FollowMoves

LEMMA FollowInit == ASSUME Init PROVE FollowInv
BY DEF Init, FollowInv, FollowOK, ChunksFollow, Linked, Sides, NewReceiver, NoWriter

LEMMA FollowInvHolds ==
    ASSUME "recv" \notin Controls, NoTrailingHole, ByButton = TRUE
    PROVE  Spec => []FollowInv
<1>1. Init => FollowInv
  BY FollowInit
<1>2. SessionInv /\ TurnInv /\ FollowInv /\ [Next]_vars => FollowInv'
  BY FollowKept
<1>3. QED BY <1>1, <1>2, SessionInvHolds, TurnInvHolds, PTL DEF Spec

\* A prefix of a file, block by block and as a whole.
LEMMA PrefixOfSource ==
    ASSUME NEW h \in Seq(Block), NEW i \in Files, Len(h) <= SourceSize[i],
           \A k \in 1..Len(h) : h[k] = <<i, k>>
    PROVE  h = SubSeq(Source(i), 1, Len(h))
<1> DEFINE n == Len(h)
           f == Source(i)
<1>1. n \in Nat /\ SourceSize[i] \in Nat /\ n <= SourceSize[i]
  BY SizesAssumption
<1>2. /\ f \in Seq(Block) /\ Len(f) = SourceSize[i]
      /\ \A k \in 1..SourceSize[i] : f[k] = <<i, k>>
  BY SourceFacts
<1>3. /\ SubSeq(f, 1, n) \in Seq(Block) /\ Len(SubSeq(f, 1, n)) = n
      /\ \A k \in 1..n : SubSeq(f, 1, n)[k] = f[k]
  <2> HIDE DEF n, f
  <2>1. n \in 0..Len(f)
    BY <1>1, <1>2
  <2>2. QED BY <1>2, <2>1, PrefixFacts
<1>4. \A k \in 1..n : h[k] = SubSeq(f, 1, n)[k]
  <2> HIDE DEF f
  <2>1. ASSUME NEW k \in 1..n PROVE h[k] = SubSeq(f, 1, n)[k]
    <3>1. k \in 1..SourceSize[i] /\ h[k] = <<i, k>>
      BY <1>1
    <3>2. QED BY <1>2, <1>3, <3>1
  <2>2. QED BY <2>1
<1>5. QED BY <1>3, <1>4

\* What a connected receiver has written of the file it has open is a prefix
\* of that file, on disk as in its hasher (TransferSession.cpp:416-437).
THEOREM WriterHoldsAPrefix ==
    ASSUME "recv" \notin Controls, NoTrailingHole, ByButton = TRUE
    PROVE  Spec => []WriterHoldsPrefix
<1>1. ASSUME SessionInv, FollowInv PROVE WriterHoldsPrefix
  <2> DEFINE w == receiver.writer
             i == receiver.recvIndex
  <2>1. SUFFICES ASSUME w.open, Up
                 PROVE  /\ w.partial \in DOMAIN disk.partial
                        /\ w.hashed = SubSeq(Source(i), 1, Len(w.hashed))
                        /\ \A k \in 1..Len(w.hashed) :
                              disk.partial[w.partial][k] = w.hashed[k]
    BY DEF WriterHoldsPrefix, Up
  <2>2. PrefixWritten(receiver, disk)
    BY <1>1, <2>1 DEF FollowInv, FollowOK
  <2>3. /\ w \in Writer /\ i \in Files /\ w.hashed \in Seq(Block) /\ DiskType(disk)
        /\ WriterOK(w, i, disk) /\ (Up => w.has \/ w.hashed = <<>>)
    BY <1>1, ReceiverKnows DEF Receiver, Writer, WriterOK
  <2>4. Len(w.hashed) <= SourceSize[i]
    <3> DEFINE c == disk.partial[w.partial]
    <3>1. w.partial \in DOMAIN disk.partial /\ Len(w.hashed) <= Len(c)
      BY <2>2 DEF PrefixWritten
    <3>2. Len(c) \in Nat /\ SourceSize[i] \in Nat /\ Len(w.hashed) \in Nat
      BY <2>3, <3>1, SizesAssumption DEF DiskType, IsStore
    <3>3. w.has => Len(c) <= SourceSize[i]
      BY <2>3, <3>1 DEF WriterOK
    <3>4. ~w.has => Len(w.hashed) = 0
      BY <2>3 DEF WriterOK
    <3>5. QED BY <3>1, <3>2, <3>3, <3>4
  <2>5. QED BY <2>2, <2>3, <2>4, PrefixOfSource DEF PrefixWritten
<1>2. QED BY <1>1, SessionInvHolds, FollowInvHolds, PTL

-----------------------------------------------------------------------------
(* BytesConserved.  How many chunks are under way.                         *)

Load(q) == Cardinality(Chunks(q))

LEMMA LoadIsNat ==
    ASSUME NEW q \in Seq(Message) PROVE IsFiniteSet(Chunks(q)) /\ Load(q) \in Nat
<1>1. Len(q) \in Nat /\ IsFiniteSet(1..Len(q))
  BY FS_Interval
<1>2. Chunks(q) \subseteq 1..Len(q)
  BY DEF Chunks
<1>3. IsFiniteSet(Chunks(q))
  BY <1>1, <1>2, FS_Subset
<1>4. QED BY <1>3, FS_CardinalityType DEF Load

\* A chunk more in the queue, or another packet.
LEMMA LoadAppend ==
    ASSUME NEW q \in Seq(Message), NEW m
    PROVE  Load(Append(q, m)) = IF IsChunk(m) THEN Load(q) + 1 ELSE Load(q)
<1> DEFINE v == Append(q, m)
           n == Len(q) + 1
<1>1. /\ Len(v) = n /\ Len(q) \in Nat /\ v[n] = m
      /\ \A k \in 1..Len(q) : v[k] = q[k]
  BY AppendAny
<1>2. n \notin 1..Len(q) /\ 1..n = 1..Len(q) \cup {n}
  BY <1>1
<1> HIDE DEF v, n
<1>3. Chunks(v) = IF IsChunk(m) THEN Chunks(q) \cup {n} ELSE Chunks(q)
  BY <1>1, <1>2 DEF Chunks
<1>4. n \notin Chunks(q)
  BY <1>2 DEF Chunks
<1>5. Cardinality(Chunks(q) \cup {n}) = Cardinality(Chunks(q)) + 1
  BY <1>4, LoadIsNat, FS_AddElement
<1>6. QED BY <1>3, <1>5 DEF Load, v

\* One chunk less, when it was at the head of the queue.
LEMMA LoadTail ==
    ASSUME NEW q \in Seq(Message), q # <<>>
    PROVE  Load(q) = IF IsChunk(Head(q)) THEN Load(Tail(q)) + 1 ELSE Load(Tail(q))
<1> DEFINE v == Tail(q)
           A == Chunks(v)
           B == Chunks(q) \ {1}
           f == [k \in A |-> k + 1]
<1>1. /\ v \in Seq(Message) /\ Len(v) = Len(q) - 1 /\ Len(q) \in Nat \ {0}
      /\ Head(q) = q[1] /\ \A k \in 1..Len(v) : v[k] = q[k + 1]
  BY TailFacts
<1>2. A \subseteq 1..Len(v) /\ B \subseteq 2..Len(q)
  <2> HIDE DEF v
  <2>1. A \subseteq 1..Len(v) /\ \A k \in B : k \in 1..Len(q) /\ k # 1
    BY DEF Chunks
  <2> HIDE DEF A, B
  <2>2. QED BY <1>1, <2>1
<1>3. \A k \in A : k + 1 \in B
  <2>1. ASSUME NEW k \in A PROVE k + 1 \in 1..Len(q) /\ k + 1 # 1 /\ IsChunk(q[k + 1])
    <3>1. k \in 1..Len(v) /\ IsChunk(v[k])
      BY DEF Chunks
    <3> HIDE DEF A, B, v
    <3>2. QED BY <1>1, <3>1
  <2> HIDE DEF A
  <2>2. QED BY <2>1 DEF Chunks
<1>4. \A k \in B : k - 1 \in A /\ (k - 1) + 1 = k
  <2>1. ASSUME NEW k \in B PROVE k - 1 \in 1..Len(v) /\ IsChunk(v[k - 1]) /\ (k - 1) + 1 = k
    <3>1. k \in 2..Len(q) /\ IsChunk(q[k])
      BY <1>2 DEF Chunks
    <3> HIDE DEF A, B, v
    <3>2. k - 1 \in 1..Len(v) /\ (k - 1) + 1 = k
      BY <1>1, <3>1
    <3>3. v[k - 1] = q[k]
      BY <1>1, <3>2
    <3>4. QED BY <3>1, <3>2, <3>3
  <2> HIDE DEF B
  <2>2. QED BY <2>1 DEF Chunks
<1>5. f \in Bijection(A, B)
  <2> HIDE DEF A, B
  <2>1. f \in [A -> B]
    BY <1>3
  <2>2. \A a, b \in A : f[a] = f[b] => a = b
    BY <1>2
  <2>3. \A t \in B : \E s \in A : f[s] = t
    BY <1>4
  <2>4. QED BY <2>1, <2>2, <2>3, Fun_IsBij
<1>6. Cardinality(A) = Cardinality(B)
  <2>1. IsFiniteSet(A)
    BY <1>1, LoadIsNat
  <2>2. ExistsBijection(A, B)
    BY <1>5 DEF ExistsBijection
  <2> HIDE DEF A, B, f
  <2>3. QED BY <2>1, <2>2, FS_Bijection
<1>7. /\ Cardinality(Chunks(q) \ {1}) =
            IF 1 \in Chunks(q) THEN Cardinality(Chunks(q)) - 1 ELSE Cardinality(Chunks(q))
      /\ Cardinality(Chunks(q)) \in Nat
  BY LoadIsNat, FS_RemoveElement DEF Load
<1>8. 1 \in Chunks(q) <=> IsChunk(Head(q))
  BY <1>1 DEF Chunks
<1>9. QED BY <1>6, <1>7, <1>8 DEF Load

\* What the chunk loop, and with it the start of a file, does to the status.
LEMMA LoopStatus ==
    ASSUME NEW s \in Sender, NEW sent, SendNextChunk(s, sent)
    PROVE  \/ sender'.status = s.status
           \/ /\ s.status = "Transferring" /\ s.reader.has /\ ~s.waiting
              /\ sender'.status = "Failed"
<1>1. ASSUME NEW r, sender' = [WithStatus(s, "Failed") EXCEPT !.reader = r]
      PROVE  sender'.status = "Failed"
  BY <1>1 DEF WithStatus, Sender
<1>2. QED BY <1>1 DEF SendNextChunk, MaySend, Sender

LEMMA StartStatus ==
    ASSUME NEW s \in Sender, NEW i \in Nat \ {0}, NEW off \in Nat,
           StartSendingFile(s, i, off), s.status \in Final
    PROVE  sender'.status \in Final
<1>1. CASE i <= NumFiles /\ SendNextChunk(Started(s, i, off), <<FileStart(i)>>)
  <2>1. i \in Files
    BY <1>1, SizesAssumption DEF Files
  <2>2. Started(s, i, off) \in Sender /\ Started(s, i, off).status = s.status
    BY <2>1, StartedFacts
  <2> DEFINE t == Started(s, i, off)
  <2> HIDE DEF t
  <2>3. t \in Sender /\ t.status = s.status /\ SendNextChunk(t, <<FileStart(i)>>)
    BY <1>1, <2>2 DEF t
  <2>4. QED BY <2>3, LoopStatus DEF Final
<1>2. ASSUME NEW r, sender' = [WithStatus(s, "Failed") EXCEPT
                                   !.cur = i, !.fileSent = off, !.reader = r]
      PROVE  sender'.status \in Final
  BY <1>2 DEF WithStatus, Sender, Final
<1>3. CASE sender' = [WithStatus(s, "Completed") EXCEPT
                          !.total = TotalSize, !.fileSent = ManifestSize[s.cur]]
  BY <1>3 DEF WithStatus, Sender, Final
<1>4. QED BY <1>1, <1>2, <1>3 DEF StartSendingFile, Started

LEMMA StartsHas ==
    ASSUME NEW s \in Sender, NEW i \in Files, NEW off \in Nat, Starts(s, i, off)
    PROVE  sender'.reader.has
<1>1. i \in Nat /\ ~(i > NumFiles)
  BY SizesAssumption DEF Files
<1>2. Started(s, i, off).reader.has
  BY StartedFacts
<1>3. CASE LoopTurn(Started(s, i, off), Say(toRecv, FileStart(i)), sender', toRecv')
  <2> DEFINE t == Started(s, i, off)
             q == Say(toRecv, FileStart(i))
  <2>1. LoopTurn(t, q, sender', toRecv') /\ t \in Sender /\ t.reader.has
    BY <1>2, <1>3, StartedFacts
  <2> HIDE DEF t, q
  <2>2. ReadNextChunk(t.reader).has
    BY <2>1 DEF ReadNextChunk, Sender, Reader
  <2>3. QED BY <2>1, <2>2 DEF LoopTurn, Kept, LoopEnds, LoopReads
<1>4. QED BY <1>1, <1>3 DEF Starts

\* A link that is whole after a step was whole before it, but for the one that
\* connects.
LEMMA LinkedBefore ==
    ASSUME ByButton = TRUE, SessionInv, [Next]_vars, Linked', ~SocketConnected
    PROVE  Linked
<1>1. CASE OnHandshakeResp
  BY <1>1 DEF OnHandshakeResp, SenderHandles, Linked
<1>2. CASE SenderStarts \/ SenderLoops
  BY <1>2 DEF SenderStarts, SenderLoops, Linked
<1>3. CASE ReceiverMoves
  <2>1. ASSUME NEW type, Takes(type) PROVE Linked
    BY <2>1 DEF Takes
  <2>2. CASE UserAccepts \/ ReceiverCrashes
    BY <2>2, UserAcceptsDoes, CrashDoes
  <2>3. QED BY <1>3, <2>1, <2>2, HandshakeReqDoes, TransferOfferDoes, FileStartDoes,
        FileDataChunkDoes, FileEndDoes, TransferCompleteDoes DEF ReceiverMoves
<1>4. QED BY <1>1, <1>2, <1>3, StepCases DEF Quiet

\* What the packet at the head of the sender's queue tells, over a whole link.
LEMMA HeadTells ==
    ASSUME SessionInv, TurnInv, CountInv, Linked, NEW type, SenderHandles(type)
    PROVE  /\ type \in {"HandshakeResp", "TransferAccept"} => sender.status \notin Final
           /\ type \notin {"TransferReject", "TransferCancel", "TransferPause", "TransferResume"}
           /\ type = "FileAck" => ~Untouched(sender)
<1>1. toSend \in Seq(Message) /\ toSend # <<>> /\ Head(toSend).type = type
  BY SenderHas DEF SenderHandles, SenderGets
<1>2. 1 \in 1..Len(toSend) /\ toSend[1].type = type
  BY <1>1, TailFacts
<1>3. /\ AnswersFit(toSend) /\ EndedLate(sender, toSend)
      /\ ~IsCall(toSend[1])
      /\ TurnToSend(toSend[1]) => TurnFits(toSend[1], sender, toRecv)
  BY <1>2 DEF TurnInv, TurnOK, TurnsFit, CountInv, CountOK
<1>4. type \in {"HandshakeResp", "TransferAccept"} => Untouched(sender)
  BY <1>2, <1>3 DEF TurnToSend, TurnFits
<1>5. QED BY <1>2, <1>3, <1>4 DEF AnswersFit, EndedLate, IsCall

\* Over a whole link a sending session that has ended does not come back, and
\* one that ends has been at a file.
LEMMA FinalStays ==
    ASSUME ByButton = TRUE, SessionInv, TurnInv, CountInv, [Next]_vars, Linked, Linked'
    PROVE  /\ sender.status \in Final => sender'.status \in Final
           /\ sender'.status \in Final =>
                 \/ sender.status \in Final
                 \/ ~Untouched(sender) \/ ~Untouched(sender')
<1>1. /\ sender \in Sender /\ toRecv \in Seq(Message) /\ toSend \in Seq(Message)
      /\ sock \in [Sides -> SockStates]
  BY SenderHas
<1>2. CASE OnHandshakeResp
  <2>1. sender.status \notin Final
    BY <1>2, HeadTells DEF OnHandshakeResp
  <2>2. sender'.status = "WaitingApproval"
    BY <1>1, <1>2, WithStatusSender DEF OnHandshakeResp, Statuses
  <2>3. QED BY <2>1, <2>2 DEF Final
<1>3. CASE OnTransferAccept
  <2> DEFINE s == WithStatus(sender, "Transferring")
  <2>1. SenderHandles("TransferAccept") /\ StartSendingFile(s, Head(toSend).index, Head(toSend).offset)
    BY <1>3 DEF OnTransferAccept
  <2>2. sender.status \notin Final
    BY <2>1, HeadTells
  <2>3. Head(toSend) \in Message /\ Head(toSend).type = "TransferAccept"
    BY <2>1, SenderTakes
  <2>4. /\ Head(toSend).index \in Files /\ Head(toSend).index \in Nat \ {0}
        /\ Head(toSend).offset \in Nat
    BY <2>3, IndexedPacket
  <2>5. s \in Sender
    BY <1>1, WithStatusSender DEF Statuses
  <2>6. sender'.reader.has
    BY <1>1, <2>1, <2>4, <2>5, StartsOf, StartsHas
  <2>7. QED BY <2>2, <2>6 DEF Untouched
<1>4. CASE OnTransferReject \/ OnSenderPause \/ OnSenderResume \/ OnSenderCancel
  BY <1>4, HeadTells DEF OnTransferReject, OnSenderPause, OnSenderResume, OnSenderCancel
<1>5. CASE OnFileAck
  <2>1. SenderHandles("FileAck") /\ ~Untouched(sender)
    BY <1>5, HeadTells DEF OnFileAck
  <2>2. CASE StartSendingFile([sender EXCEPT !.reader = CloseReader(@)], sender.cur + 1, 0)
    <3> DEFINE s == [sender EXCEPT !.reader = CloseReader(@)]
    <3>1. CloseReader(sender.reader) \in Reader
      BY <1>1, CloseReaderFacts DEF Sender
    <3>2. s \in Sender /\ s.status = sender.status
      BY <1>1, <3>1 DEF Sender
    <3> HIDE DEF s
    <3>3. sender.cur + 1 \in Nat \ {0} /\ 0 \in Nat
      <4>1. sender.cur \in Files
        BY <1>1 DEF Sender
      <4>2. QED BY <4>1, SizesAssumption DEF Files
    <3>4. sender.status \in Final => sender'.status \in Final
      BY <2>2, <3>2, <3>3, StartStatus DEF s
    <3>5. QED BY <2>1, <3>4
  <2>3. CASE sender' = WithStatus(sender, "Failed")
    BY <1>1, <2>1, <2>3, WithStatusSender DEF Statuses, Final
  <2>4. QED BY <1>5, <2>2, <2>3 DEF OnFileAck
<1>6. CASE ChunkLoop
  <2>1. sender.status = "Transferring" /\ sender.reader.has
    BY <1>6 DEF ChunkLoop, MaySend
  <2>2. QED BY <2>1 DEF Final, Untouched
<1>7. CASE ResumeSender
  <2> DEFINE s == WithStatus(sender, "Transferring")
  <2>1. /\ sender.status = "Paused"
        /\ SendNextChunk(s, <<TransferResume(sender.cur, sender.fileSent)>>)
    BY <1>7 DEF ResumeSender
  <2>2. s \in Sender /\ s.status = "Transferring" /\ s.reader = sender.reader
    BY <1>1, WithStatusSender DEF Statuses
  <2> HIDE DEF s
  <2>3. sender'.status = "Transferring" \/ sender.reader.has
    BY <2>1, <2>2, LoopStatus
  <2>4. QED BY <2>1, <2>3 DEF Final, Untouched
<1>8. CASE PauseSender \/ StartSend
  <2>1. sender.status \in {"Idle", "Transferring"} /\ sender'.status \in {"Connecting", "Paused"}
    BY <1>1, <1>8, WithStatusSender DEF PauseSender, StartSend, Statuses
  <2>2. QED BY <2>1 DEF Final
<1>9. CASE CancelSender \/ ConnectFails \/ SenderLosesSocket
  <2>1. Close("send") /\ cut' = cut
    BY <1>9 DEF CancelSender, ConnectFails, SenderLosesSocket
  <2>2. QED BY <1>1, <2>1, Closing DEF Sides
<1>10. CASE SocketConnected
  <2>1. sock["send"] = "connecting"
    BY <1>10 DEF SocketConnected
  <2>2. QED BY <2>1 DEF Linked
<1>11. CASE ReceiverStep
  BY <1>11 DEF ReceiverStep, ReceiverHandles, OnHandshakeReq, OnTransferOffer, OnFileStart,
     OnFileDataChunk, OnFileEnd, OnReceiverPause, OnReceiverResume, OnReceiverCancel,
     OnTransferComplete
<1>12. CASE \/ UserAccepts \/ UserRejects \/ PauseReceiver \/ ResumeReceiver
            \/ CancelReceiver \/ CableCut \/ ReceiverLosesSocket \/ ReceiverCrashes
            \/ UNCHANGED vars
  BY <1>12 DEF UserAccepts, UserRejects, PauseReceiver, ResumeReceiver, CancelReceiver,
     CableCut, ReceiverLosesSocket, ReceiverCrashes, vars
<1>13. QED BY <1>2, <1>3, <1>4, <1>5, <1>6, <1>7, <1>8, <1>9, <1>10, <1>11, <1>12
       DEF Next, SenderStep, UserStep, NetworkStep

\* What one turn of the chunk loop does to the counters.
LEMMA LoopCounts ==
    ASSUME NEW s \in Sender, NEW q \in Seq(Message), NEW t, NEW v, LoopTurn(s, q, t, v),
           Linked
    PROVE  /\ Load(v) - t.total = Load(q) - s.total
           /\ t.total \in Nat /\ Load(v) \in Nat
           /\ ~Untouched(s) => ~Untouched(t)
           /\ \A k \in 1..Len(v) :
                 \/ \E j \in 1..Len(q) : v[k] = q[j]
                 \/ v[k].type \in {"FileEnd", "FileDataChunk"}
<1>1. s.total \in Nat /\ Load(q) \in Nat
  BY LoadIsNat DEF Sender
<1>2. CASE Kept(s, t) /\ v = q
  BY <1>1, <1>2 DEF Kept, Untouched
<1>3. CASE LoopEnds(s, q, t, v)
  <2> DEFINE m == FileEnd(s.cur, s.reader.hashed)
  <2>1. m.type = "FileEnd" /\ ~IsChunk(m)
    BY DEF FileEnd, IsChunk
  <2>2. v = Append(q, m) /\ t.total = s.total /\ t.waiting
    BY <1>3 DEF LoopEnds, Say
  <2> HIDE DEF m
  <2>3. Load(v) = Load(q)
    BY <2>1, <2>2, LoadAppend
  <2>4. QED BY <1>1, <2>1, <2>2, <2>3, AppendHolds DEF Untouched
<1>4. CASE LoopReads(s, q, t, v)
  <2> DEFINE m == FileDataChunk(s.cur, s.reader.off, NextBlock(s.reader))
  <2>1. m.type = "FileDataChunk" /\ IsChunk(m)
    BY DEF FileDataChunk, IsChunk
  <2>2. v = Append(q, m) /\ t.total = s.total + 1 /\ t.reader = ReadNextChunk(s.reader)
        /\ s.reader.has
    BY <1>4 DEF LoopReads, Say
  <2> HIDE DEF m
  <2>3. Load(v) = Load(q) + 1
    BY <2>1, <2>2, LoadAppend
  <2>4. t.reader.has
    BY <2>2 DEF ReadNextChunk, Sender, Reader
  <2>5. /\ Load(v) - t.total = Load(q) - s.total
        /\ t.total \in Nat /\ Load(v) \in Nat
    BY <1>1, <2>2, <2>3
  <2>6. ~Untouched(s) => ~Untouched(t)
    BY <2>2, <2>4 DEF Untouched
  <2>7. \A k \in 1..Len(v) : (\E j \in 1..Len(q) : v[k] = q[j]) \/ v[k] = m
    BY <2>2, AppendHolds
  <2>8. QED BY <2>1, <2>5, <2>6, <2>7
<1>5. QED BY <1>2, <1>3, <1>4 DEF LoopTurn

\* What a step leaves of the sums, of the packets under way and of a session
\* that has been at a file.
Balanced == sender.total = receiver.total + Load(toRecv)

KeepsCount ==
    /\ Balanced /\ sender'.status \notin Final => Balanced'
    /\ ~Untouched(sender) => ~Untouched(sender')
    /\ \A k \in 1..Len(toRecv') :
          \/ \E j \in 1..Len(toRecv) : toRecv'[k] = toRecv[j]
          \/ /\ ~IsCall(toRecv'[k])
             /\ toRecv'[k].type = "TransferComplete" => sender'.status \in Final
    /\ \A k \in 1..Len(toSend') :
          \/ \E j \in 1..Len(toSend) : toSend'[k] = toSend[j]
          \/ /\ ~IsCall(toSend'[k])
             /\ toSend'[k].type = "FileAck" => ~Untouched(sender)

LEMMA CountStep ==
    ASSUME ByButton = TRUE, SessionInv, TurnInv, CountInv, [Next]_vars, Linked, Linked',
           KeepsCount
    PROVE  CountOK(sender', toRecv', toSend', receiver')
<1>1. CountOK(sender, toRecv, toSend, receiver)
  BY DEF CountInv
<1>2. /\ sender.status \in Final => sender'.status \in Final
      /\ sender'.status \in Final =>
            \/ sender.status \in Final
            \/ ~Untouched(sender) \/ ~Untouched(sender')
  BY FinalStays
<1>3. sender'.status \notin Final => Balanced'
  BY <1>1, <1>2 DEF CountOK, KeepsCount, Balanced, Load
<1>4. EndedLate(sender', toSend')
  <2>1. sender.status \in Final => ~Untouched(sender)
    BY <1>1 DEF CountOK, EndedLate
  <2>2. (\E k \in 1..Len(toSend') : toSend'[k].type = "FileAck") => ~Untouched(sender)
    BY <1>1 DEF CountOK, EndedLate, KeepsCount
  <2>3. QED BY <1>2, <2>1, <2>2 DEF EndedLate, KeepsCount
<1>5. \A k \in 1..Len(toRecv') :
         /\ toRecv'[k].type = "TransferComplete" => sender'.status \in Final
         /\ ~IsCall(toRecv'[k])
  BY <1>1, <1>2 DEF CountOK, KeepsCount
<1>6. \A k \in 1..Len(toSend') : ~IsCall(toSend'[k])
  BY <1>1 DEF CountOK, KeepsCount
<1>7. QED BY <1>3, <1>4, <1>5, <1>6 DEF CountOK, Balanced, Load

LEMMA AllOld ==
    ASSUME NEW q PROVE \A k \in 1..Len(q) : \E j \in 1..Len(q) : q[k] = q[j]
OBVIOUS

LEMMA CountQuiet ==
    ASSUME SessionInv, SessionInv', Quiet, Linked, Linked' PROVE KeepsCount
<1>1. /\ toRecv \in Seq(Message) /\ toSend \in Seq(Message)
      /\ sender \in Sender /\ receiver \in Receiver
  BY SenderHas
<1>2. /\ sender'.total = sender.total /\ receiver'.total = receiver.total
      /\ ~Untouched(sender) => ~Untouched(sender')
  BY DEF Quiet, Kept, KeptR, Untouched
<1>3. /\ Load(toRecv') = Load(toRecv)
      /\ \A k \in 1..Len(toRecv') :
            \/ \E j \in 1..Len(toRecv) : toRecv'[k] = toRecv[j]
            \/ ~IsCall(toRecv'[k]) /\ toRecv'[k].type # "TransferComplete"
  <2>1. CASE toRecv' = toRecv
    BY <2>1
  <2>2. CASE /\ toRecv # <<>> /\ toRecv' = Tail(toRecv)
             /\ Head(toRecv).type \in {"TransferPause", "TransferResume", "TransferCancel"}
    <3>1. ~IsChunk(Head(toRecv))
      BY <2>2 DEF IsChunk
    <3>2. Load(toRecv') = Load(toRecv)
      BY <1>1, <2>2, <3>1, LoadTail
    <3>3. Part(toRecv, toRecv') /\ toRecv' \in Seq(Message)
      BY <1>1, <2>2, TailIsPart, TailFacts
    <3>4. QED BY <1>1, <3>2, <3>3, PartHolds
  <2>3. ASSUME NEW m \in Message, m.type \in {"TransferPause", "TransferCancel"},
               IsCall(m) => ~Linked', toRecv' = Append(toRecv, m)
        PROVE  /\ Load(toRecv') = Load(toRecv)
               /\ \A k \in 1..Len(toRecv') :
                     \/ \E j \in 1..Len(toRecv) : toRecv'[k] = toRecv[j]
                     \/ ~IsCall(toRecv'[k]) /\ toRecv'[k].type # "TransferComplete"
    <3>1. ~IsChunk(m) /\ ~IsCall(m) /\ m.type # "TransferComplete"
      BY <2>3 DEF IsChunk
    <3>2. QED BY <1>1, <2>3, <3>1, LoadAppend, AppendHolds
  <2>4. QED BY <2>1, <2>2, <2>3 DEF Quiet, QuietToRecv
<1>4. toSend' \in Seq(Message)
  BY DEF SessionInv, TypeOK
<1>5. \A k \in 1..Len(toSend') :
         \/ \E j \in 1..Len(toSend) : toSend'[k] = toSend[j]
         \/ ~IsCall(toSend'[k]) /\ toSend'[k].type # "FileAck"
  <2>1. CASE Part(toSend, toSend')
    BY <1>1, <1>4, <2>1, PartHolds
  <2>2. ASSUME NEW m \in Message,
               \/ m.type \in {"TransferCancel", "TransferReject"}
               \/ m.type \in {"TransferPause", "TransferResume"},
               IsCall(m) => ~Linked', toSend' = Append(toSend, m)
        PROVE  \A k \in 1..Len(toSend') :
                  \/ \E j \in 1..Len(toSend) : toSend'[k] = toSend[j]
                  \/ ~IsCall(toSend'[k]) /\ toSend'[k].type # "FileAck"
    <3>1. ~IsCall(m) /\ m.type # "FileAck"
      BY <2>2
    <3>2. QED BY <1>1, <2>2, <3>1, AppendHolds
  <2>3. QED BY <2>1, <2>2 DEF Quiet, QuietToSend
<1>6. QED BY <1>2, <1>3, <1>5 DEF KeepsCount, Balanced

LEMMA CountHandshakeResp ==
    ASSUME SessionInv, OnHandshakeResp, Linked PROVE KeepsCount
<1> DEFINE m == Signal("TransferOffer")
<1>1. /\ UNCHANGED receiver /\ SendToReceiver(<<m>>)
      /\ sender' = WithStatus(sender, "WaitingApproval")
      /\ toSend # <<>> /\ toSend' = Tail(toSend)
  BY DEF OnHandshakeResp, SenderHandles, SenderGets
<1>2. sender \in Sender /\ toRecv \in Seq(Message) /\ toSend \in Seq(Message)
  BY SenderHas
<1>3. toRecv' = Append(toRecv, m)
  BY <1>1, <1>2, ConcatOne, AnswerMessages DEF SendToReceiver
<1>4. /\ ~IsChunk(m) /\ ~IsCall(m) /\ m.type # "TransferComplete"
      /\ sender'.total = sender.total
      /\ ~Untouched(sender) => ~Untouched(sender')
  BY <1>1, <1>2 DEF Signal, IsChunk, IsCall, WithStatus, Sender, Untouched
<1> HIDE DEF m
<1>5. /\ Load(toRecv') = Load(toRecv)
      /\ \A k \in 1..Len(toRecv') :
            \/ \E j \in 1..Len(toRecv) : toRecv'[k] = toRecv[j]
            \/ ~IsCall(toRecv'[k]) /\ toRecv'[k].type # "TransferComplete"
  BY <1>2, <1>3, <1>4, LoadAppend, AppendHolds
<1>6. \A k \in 1..Len(toSend') : \E j \in 1..Len(toSend) : toSend'[k] = toSend[j]
  BY <1>1, <1>2, TailIsPart, TailFacts, PartHolds
<1>7. QED BY <1>1, <1>4, <1>5, <1>6 DEF KeepsCount, Balanced

\* The sums agree after a turn of the chunk loop that begins with sums that do.
LEMMA CountLoop ==
    ASSUME SessionInv, UNCHANGED receiver, Linked,
           NEW s \in Sender, NEW q \in Seq(Message), LoopTurn(s, q, sender', toRecv'),
           s.total = sender.total, Load(q) = Load(toRecv),
           ~Untouched(sender) => ~Untouched(s),
           \A k \in 1..Len(q) :
              \/ \E j \in 1..Len(toRecv) : q[k] = toRecv[j]
              \/ q[k].type \in {"FileStart", "TransferResume"},
           \A k \in 1..Len(toSend') : \E j \in 1..Len(toSend) : toSend'[k] = toSend[j]
    PROVE  KeepsCount
<1>1. /\ sender \in Sender /\ receiver \in Receiver /\ toRecv \in Seq(Message)
      /\ sender.total \in Nat /\ receiver.total \in Nat /\ Load(toRecv) \in Nat
  BY SenderHas, LoadIsNat DEF Sender, Receiver
<1>2. /\ Load(toRecv') - sender'.total = Load(q) - s.total
      /\ sender'.total \in Nat /\ Load(toRecv') \in Nat
      /\ ~Untouched(s) => ~Untouched(sender')
      /\ \A k \in 1..Len(toRecv') :
            \/ \E j \in 1..Len(q) : toRecv'[k] = q[j]
            \/ toRecv'[k].type \in {"FileEnd", "FileDataChunk"}
  BY LoopCounts
<1>3. Balanced => Balanced'
  <2> DEFINE a == Load(toRecv)
             b == Load(toRecv')
             x == sender.total
             y == sender'.total
             z == receiver.total
  <2>1. a \in Nat /\ b \in Nat /\ x \in Nat /\ y \in Nat /\ z \in Nat
    BY <1>1, <1>2
  <2>2. b - y = a - x
    BY <1>2
  <2>3. receiver'.total = z
    OBVIOUS
  <2>4. x = z + a => y = z + b
    <3> HIDE DEF a, b, x, y, z
    <3>1. QED BY <2>1, <2>2
  <2>5. QED BY <2>3, <2>4 DEF Balanced
<1>4. \A k \in 1..Len(toRecv') :
         \/ \E j \in 1..Len(toRecv) : toRecv'[k] = toRecv[j]
         \/ ~IsCall(toRecv'[k]) /\ toRecv'[k].type # "TransferComplete"
  BY <1>2 DEF IsCall
<1>5. QED BY <1>2, <1>3, <1>4 DEF KeepsCount

LEMMA CountLoops ==
    ASSUME SessionInv, SenderLoops, Linked PROVE KeepsCount
<1>1. PICK s \in Sender, q \in Seq(Message) :
             /\ Kept(sender, s)
             /\ \/ q = toRecv
                \/ \E m \in Message : m.type = "TransferResume" /\ q = Say(toRecv, m)
             /\ LoopTurn(s, q, sender', toRecv')
  BY DEF SenderLoops
<1>2. toRecv \in Seq(Message) /\ UNCHANGED <<receiver, toSend>>
  BY SenderHas DEF SenderLoops
<1>3. s.total = sender.total /\ (~Untouched(sender) => ~Untouched(s))
  BY <1>1 DEF Kept, Untouched
<1>4. /\ Load(q) = Load(toRecv)
      /\ \A k \in 1..Len(q) :
            \/ \E j \in 1..Len(toRecv) : q[k] = toRecv[j]
            \/ q[k].type \in {"FileStart", "TransferResume"}
  <2>1. CASE q = toRecv
    BY <2>1
  <2>2. ASSUME NEW m \in Message, m.type = "TransferResume", q = Say(toRecv, m)
        PROVE  /\ Load(q) = Load(toRecv)
               /\ \A k \in 1..Len(q) :
                     \/ \E j \in 1..Len(toRecv) : q[k] = toRecv[j]
                     \/ q[k].type \in {"FileStart", "TransferResume"}
    <3>1. ~IsChunk(m) /\ q = Append(toRecv, m)
      BY <2>2 DEF IsChunk, Say
    <3>2. QED BY <1>2, <2>2, <3>1, LoadAppend, AppendHolds
  <2>3. QED BY <1>1, <2>1, <2>2
<1>5. QED BY <1>1, <1>2, <1>3, <1>4, CountLoop

LEMMA CountStarts ==
    ASSUME SessionInv, SenderStarts, Linked PROVE KeepsCount
<1>1. PICK s \in Sender, i \in Nat \ {0}, off \in Nat :
             Kept(sender, s) /\ Starts(s, i, off)
  BY DEF SenderStarts
<1>2. /\ toRecv \in Seq(Message) /\ toSend \in Seq(Message) /\ UNCHANGED receiver
      /\ toSend # <<>> /\ toSend' = Tail(toSend)
  BY SenderHas DEF SenderStarts
<1>3. s.total = sender.total /\ (~Untouched(sender) => ~Untouched(s))
  BY <1>1 DEF Kept, Untouched
<1>4. \A k \in 1..Len(toSend') : \E j \in 1..Len(toSend) : toSend'[k] = toSend[j]
  BY <1>2, TailIsPart, TailFacts, PartHolds
<1>5. CASE /\ i \in Files
           /\ LoopTurn(Started(s, i, off), Say(toRecv, FileStart(i)), sender', toRecv')
  <2> DEFINE t == Started(s, i, off)
             m == FileStart(i)
  <2>1. /\ m \in Message /\ m.type = "FileStart" /\ ~IsChunk(m)
    BY <1>5 DEF FileStart, IsChunk, Message
  <2>2. /\ t \in Sender /\ t.total = sender.total /\ ~Untouched(t)
    BY <1>3, <1>5, StartedFacts DEF Untouched
  <2>3. LoopTurn(t, Say(toRecv, m), sender', toRecv')
    BY <1>5
  <2> HIDE DEF t, m
  <2>4. /\ Say(toRecv, m) = Append(toRecv, m) /\ Append(toRecv, m) \in Seq(Message)
        /\ Load(Append(toRecv, m)) = Load(toRecv)
    BY <1>2, <2>1, LoadAppend, AppendFacts DEF Say
  <2>5. \A k \in 1..Len(Append(toRecv, m)) :
           \/ \E j \in 1..Len(toRecv) : Append(toRecv, m)[k] = toRecv[j]
           \/ Append(toRecv, m)[k].type \in {"FileStart", "TransferResume"}
    BY <1>2, <2>1, AppendHolds
  <2>6. QED BY <1>2, <1>4, <2>2, <2>3, <2>4, <2>5, CountLoop
<1>6. CASE /\ sender'.total = s.total /\ sender'.reader.has /\ toRecv' = toRecv
  <2>1. ~Untouched(sender') /\ sender'.total = sender.total
    BY <1>3, <1>6 DEF Untouched
  <2>2. QED BY <1>2, <1>4, <1>6, <2>1, AllOld DEF KeepsCount, Balanced
<1>7. CASE /\ sender'.cur = s.cur /\ sender'.waiting = s.waiting
           /\ sender'.status = "Completed" /\ sender'.reader = s.reader
           /\ toRecv' = Say(toRecv, Signal("TransferComplete"))
  <2> DEFINE m == Signal("TransferComplete")
  <2>1. ~IsCall(m)
    BY DEF Signal, IsCall
  <2>2. toRecv' = Append(toRecv, m)
    BY <1>7 DEF Say
  <2> HIDE DEF m
  <2>3. \A k \in 1..Len(toRecv') :
           \/ \E j \in 1..Len(toRecv) : toRecv'[k] = toRecv[j]
           \/ ~IsCall(toRecv'[k])
    BY <1>2, <2>1, <2>2, AppendHolds
  <2>4. sender'.status \in Final /\ (~Untouched(sender) => ~Untouched(sender'))
    BY <1>3, <1>7 DEF Final, Untouched
  <2>5. QED BY <1>4, <2>3, <2>4 DEF KeepsCount
<1>8. QED BY <1>1, <1>5, <1>6, <1>7 DEF Starts

\* A handler of the receiver takes one packet and counts it if it is a chunk.
LEMMA CountTakes ==
    ASSUME SessionInv, Linked', NEW type, Takes(type), UNCHANGED sender,
           \/ sender.status \in Final
           \/ receiver'.total =
                 IF type = "FileDataChunk" THEN receiver.total + 1 ELSE receiver.total,
           \A k \in 1..Len(toSend') :
              \/ \E j \in 1..Len(toSend) : toSend'[k] = toSend[j]
              \/ /\ ~IsCall(toSend'[k])
                 /\ toSend'[k].type = "FileAck" => ~Untouched(sender)
    PROVE  KeepsCount
<1>1. /\ receiver \in Receiver /\ toRecv \in Seq(Message) /\ toRecv # <<>>
      /\ toRecv' = Tail(toRecv) /\ Head(toRecv).type = type
  BY SenderHas DEF Takes
<1>2. /\ receiver.total \in Nat /\ Load(toRecv) \in Nat /\ Load(toRecv') \in Nat
  BY <1>1, LoadIsNat, TailFacts DEF Receiver
<1>3. Load(toRecv) = IF type = "FileDataChunk" THEN Load(toRecv') + 1 ELSE Load(toRecv')
  BY <1>1, LoadTail DEF IsChunk
<1>4. Balanced /\ sender'.status \notin Final => Balanced'
  <2> DEFINE a == Load(toRecv)
             b == Load(toRecv')
             x == receiver.total
             y == receiver'.total
  <2>1. a \in Nat /\ b \in Nat /\ x \in Nat
    BY <1>2
  <2>2. sender.status \notin Final => x + a = y + b
    <3>1. CASE type = "FileDataChunk"
      <4>1. a = b + 1 /\ (sender.status \notin Final => y = x + 1)
        BY <1>3, <3>1
      <4> HIDE DEF a, b, x, y
      <4>2. QED BY <2>1, <4>1
    <3>2. CASE type # "FileDataChunk"
      <4>1. a = b /\ (sender.status \notin Final => y = x)
        BY <1>3, <3>2
      <4>2. QED BY <4>1
    <3>3. QED BY <3>1, <3>2
  <2>3. QED BY <2>2 DEF Balanced
<1>5. \A k \in 1..Len(toRecv') : \E j \in 1..Len(toRecv) : toRecv'[k] = toRecv[j]
  BY TakesPart
<1>6. ~Untouched(sender) => ~Untouched(sender')
  OBVIOUS
<1>7. QED BY <1>4, <1>5, <1>6 DEF KeepsCount

\* What the receiver says is no call and acknowledges nothing, or a file the
\* sender waits for.
LEMMA SaidIsFit ==
    ASSUME SessionInv, Linked, NEW m, ~IsCall(m), m.type = "FileAck" => ~Untouched(sender),
           toSend' = Say(toSend, m) \/ UNCHANGED toSend
    PROVE  \A k \in 1..Len(toSend') :
              \/ \E j \in 1..Len(toSend) : toSend'[k] = toSend[j]
              \/ /\ ~IsCall(toSend'[k])
                 /\ toSend'[k].type = "FileAck" => ~Untouched(sender)
<1>1. toSend \in Seq(Message)
  BY SenderHas
<1>2. CASE UNCHANGED toSend
  BY <1>2
<1>3. CASE toSend' = Append(toSend, m)
  BY <1>1, <1>3, AppendHolds
<1>4. QED BY <1>2, <1>3 DEF Say

LEMMA CountMoves ==
    ASSUME SessionInv, TurnInv, FollowInv, CountInv, ReceiverMoves, Linked, Linked'
    PROVE  KeepsCount
<1>1. /\ Up /\ Up' /\ toRecv \in Seq(Message)
  BY SenderHas DEF Linked, Up
<1>2. ASSUME NEW type, Takes(type)
      PROVE  UNCHANGED sender /\ toRecv # <<>> /\ Head(toRecv).type = type
             /\ 1 \in 1..Len(toRecv) /\ Head(toRecv) = toRecv[1]
  BY <1>1, <1>2, TailFacts DEF Takes
<1>3. \A i : /\ ~IsCall(TransferAccept(1, 0)) /\ ~IsCall(Signal("HandshakeResp"))
             /\ TransferAccept(1, 0).type # "FileAck"
             /\ Signal("HandshakeResp").type # "FileAck"
             /\ ~IsCall(FileAck(i, TRUE)) /\ ~IsCall(FileAck(i, FALSE))
  BY DEF IsCall, TransferAccept, Signal, FileAck
<1>4. CASE OnHandshakeReq
  <2>1. /\ Takes("HandshakeReq") /\ receiver'.total = receiver.total
        /\ toSend' = Say(toSend, Signal("HandshakeResp"))
    BY <1>4, HandshakeReqDoes
  <2>2. QED BY <1>2, <1>3, <2>1, SaidIsFit, CountTakes
<1>5. CASE OnTransferOffer
  <2>1. /\ Takes("TransferOffer") /\ receiver'.total = receiver.total
        /\ toSend' = Say(toSend, TransferAccept(1, 0)) \/ UNCHANGED toSend
    BY <1>5, TransferOfferDoes
  <2>2. QED BY <1>2, <1>3, <2>1, SaidIsFit, CountTakes
<1>6. CASE UserAccepts
  <2>1. /\ UNCHANGED <<sender, toRecv>> /\ receiver'.total = receiver.total
        /\ toSend' = Say(toSend, TransferAccept(1, 0))
    BY <1>6, UserAcceptsDoes
  <2>2. QED BY <1>3, <2>1, SaidIsFit, AllOld DEF KeepsCount, Balanced
<1>7. CASE OnTransferComplete
  <2>1. Takes("TransferComplete") /\ UNCHANGED toSend
    BY <1>7, TransferCompleteDoes
  <2>2. sender.status \in Final
    BY <1>2, <2>1 DEF CountInv, CountOK
  <2>3. QED BY <1>2, <2>1, <2>2, AllOld, CountTakes
<1>8. CASE OnFileStart
  <2>1. /\ Takes("FileStart") /\ receiver'.total = receiver.total
        /\ UNCHANGED toSend
    BY <1>1, <1>8, FileStartDoes DEF Opened, NotOpened
  <2>2. QED BY <1>2, <2>1, AllOld, CountTakes
<1>9. CASE OnFileDataChunk
  <2>1. Takes("FileDataChunk") /\ UNCHANGED toSend
    BY <1>9, FileDataChunkDoes
  <2>2. receiver.writer.has
    BY <1>1, <1>2, <2>1, ChunkIsNext DEF IsChunk, AtWriter
  <2>3. receiver'.total = receiver.total + 1
    BY <1>1, <1>9, <2>2, FileDataChunkDoes
  <2>4. QED BY <1>2, <2>1, <2>3, AllOld, CountTakes
<1>10. CASE OnFileEnd
  <2>1. /\ Takes("FileEnd") /\ receiver'.total = receiver.total
        /\ \/ UNCHANGED toSend
           \/ toSend' = Say(toSend, FileAck(Head(toRecv).index, TRUE))
           \/ toSend' = Say(toSend, FileAck(Head(toRecv).index, FALSE))
    BY <1>10, FileEndDoes
  <2>2. ~Untouched(sender)
    BY <1>2, <2>1 DEF TurnInv, TurnOK, TurnsFit, TurnToRecv, TurnFits, Untouched
  <2>3. \A k \in 1..Len(toSend') :
           \/ \E j \in 1..Len(toSend) : toSend'[k] = toSend[j]
           \/ /\ ~IsCall(toSend'[k])
              /\ toSend'[k].type = "FileAck" => ~Untouched(sender)
    BY <1>3, <2>1, <2>2, SaidIsFit
  <2>4. QED BY <1>2, <2>1, <2>3, CountTakes
<1>11. CASE ReceiverCrashes
  BY <1>11, CrashDoes
<1>12. QED BY <1>4, <1>5, <1>6, <1>7, <1>8, <1>9, <1>10, <1>11 DEF ReceiverMoves

LEMMA CountConnects ==
    ASSUME SessionInv, CountInv, SocketConnected PROVE CountInv'
<1> DEFINE m == Signal("HandshakeReq")
<1>1. /\ sender \in Sender /\ receiver \in Receiver
      /\ sock' = [p \in Sides |-> "open"] /\ toRecv' = <<m>> /\ UNCHANGED toSend
      /\ sender' = WithStatus(sender, "Handshaking")
      /\ receiver' = WithStatus(receiver, "Handshaking")
      /\ Early
  BY SenderHas DEF SocketConnected, Early
<1>2. ~Early' /\ toSend' = <<>> /\ sender.total = 0 /\ receiver.total = 0
  BY <1>1 DEF Early, Sides, SessionInv, EarlyOK, CountInv
<1>3. sender'.total = 0 /\ receiver'.total = 0 /\ sender'.status \notin Final
  BY <1>1, <1>2 DEF WithStatus, Sender, Receiver, Final
<1>4. m \in Message /\ ~IsChunk(m) /\ ~IsCall(m) /\ m.type # "TransferComplete"
  BY AnswerMessages DEF Signal, IsChunk, IsCall
<1> HIDE DEF m
<1>5. Len(<<m>>) = 1 /\ <<m>>[1] = m
  OBVIOUS
<1>6. Load(<<m>>) = 0
  <2>1. \A k \in 1..Len(<<m>>) : ~IsChunk(<<m>>[k])
    BY <1>4, <1>5
  <2>2. Chunks(<<m>>) = {}
    BY <2>1 DEF Chunks
  <2>3. QED BY <2>2, FS_EmptySet DEF Load
<1>7. \A k \in 1..Len(toRecv') :
         ~IsCall(toRecv'[k]) /\ toRecv'[k].type # "TransferComplete"
  BY <1>1, <1>4, <1>5
<1>8. EndedLate(sender', toSend') /\ \A k \in 1..Len(toSend') : ~IsCall(toSend'[k])
  BY <1>2, <1>3 DEF EndedLate
<1>9. sender'.total = receiver'.total + Load(toRecv')
  BY <1>1, <1>3, <1>6
<1>10. QED BY <1>2, <1>7, <1>8, <1>9 DEF CountInv, CountOK, Load

\* Nothing is counted before the connection is up.
LEMMA EarlyCounts ==
    ASSUME ByButton = TRUE, SessionInv, CountInv, [Next]_vars, Early'
    PROVE  sender'.total = 0 /\ receiver'.total = 0
<1>1. /\ Early /\ sender \in Sender /\ receiver \in Receiver /\ toRecv \in Seq(Message)
      /\ sender.total = 0 /\ receiver.total = 0
      /\ toSend = <<>> /\ ~sender.reader.open /\ sender.status \in Opening
  BY EarlyBefore, SenderHas DEF CountInv, SessionInv, EarlyOK, Opening
<1>2. CASE Quiet
  BY <1>1, <1>2 DEF Quiet, Kept, KeptR
<1>3. CASE SocketConnected
  BY <1>3 DEF SocketConnected, Early, Sides
<1>4. CASE OnHandshakeResp \/ SenderStarts
  BY <1>1, <1>4 DEF OnHandshakeResp, SenderHandles, SenderGets, SenderStarts
<1>5. CASE SenderLoops
  <2>1. PICK s \in Sender, q \in Seq(Message) :
               /\ Kept(sender, s) /\ s.reader = sender.reader
               /\ LoopTurn(s, q, sender', toRecv')
    BY <1>5 DEF SenderLoops
  <2>2. UNCHANGED receiver
    BY <1>5 DEF SenderLoops
  <2>3. QED BY <1>1, <2>1, <2>2 DEF LoopTurn, Kept, LoopEnds, LoopReads
<1>6. CASE ReceiverMoves
  <2>1. ASSUME NEW type, Takes(type)
        PROVE  UNCHANGED sender /\ type = "HandshakeReq"
    <3>1. 1 \in 1..Len(toRecv) /\ toRecv[1].type = type
      BY <1>1, <2>1, TailFacts DEF Takes
    <3>2. QED BY <1>1, <2>1, <3>1 DEF Takes, SessionInv, HandshakeFirst
  <2>2. CASE OnHandshakeReq
    BY <1>1, <2>1, <2>2, HandshakeReqDoes
  <2>3. CASE UserAccepts
    BY <1>1, <2>3, UserAcceptsDoes
  <2>4. CASE ReceiverCrashes
    BY <1>1, <2>4, CrashDoes DEF NewReceiver
  <2>5. /\ ~Takes("TransferOffer") /\ ~Takes("TransferComplete") /\ ~Takes("FileStart")
        /\ ~Takes("FileDataChunk") /\ ~Takes("FileEnd")
    BY <2>1
  <2>6. /\ ~OnTransferOffer /\ ~OnTransferComplete /\ ~OnFileStart
        /\ ~OnFileDataChunk /\ ~OnFileEnd
    BY <2>5, TransferOfferDoes, FileStartDoes, FileDataChunkDoes, FileEndDoes,
       TransferCompleteDoes
  <2>7. QED BY <1>6, <2>2, <2>3, <2>4, <2>6 DEF ReceiverMoves
<1>7. QED BY <1>2, <1>3, <1>4, <1>5, <1>6, StepCases

\* CountInv is inductive.
LEMMA CountKept ==
    ASSUME ByButton = TRUE, SessionInv, SessionInv', TurnInv, FollowInv, CountInv,
           [Next]_vars
    PROVE  CountInv'
<1>1. CASE SocketConnected
  BY <1>1, CountConnects
<1>2. CASE ~SocketConnected
  <2>1. ASSUME Linked' PROVE CountOK(sender', toRecv', toSend', receiver')
    <3>1. Linked
      BY <1>2, <2>1, LinkedBefore
    <3>2. KeepsCount
      BY <1>2, <2>1, <3>1, StepCases, CountQuiet, CountHandshakeResp, CountStarts,
         CountLoops, CountMoves
    <3>3. QED BY <2>1, <3>1, <3>2, CountStep
  <2>2. Early' => sender'.total = 0 /\ receiver'.total = 0
    BY EarlyCounts
  <2>3. QED BY <2>1, <2>2 DEF CountInv
<1>3. QED BY <1>1, <1>2

LEMMA CountInit == ASSUME Init PROVE CountInv
BY DEF Init, CountInv, Linked, Sides, NewReceiver

LEMMA CountInvHolds ==
    ASSUME "recv" \notin Controls, NoTrailingHole, ByButton = TRUE
    PROVE  Spec => []CountInv
<1>1. Init => CountInv
  BY CountInit
<1>2. /\ SessionInv /\ SessionInv' /\ TurnInv /\ FollowInv /\ CountInv /\ [Next]_vars
      => CountInv'
  BY CountKept
<1>3. QED BY <1>1, <1>2, SessionInvHolds, TurnInvHolds, FollowInvHolds, PTL DEF Spec

\* Over a whole link the two totals differ by the chunks that are under way,
\* and by nothing else, whatever pauses and resumes lie between
\* (TransferSession.cpp:84-187 and 416-437).
THEOREM TotalsAgree ==
    ASSUME "recv" \notin Controls, NoTrailingHole, ByButton = TRUE
    PROVE  Spec => []BytesConserved
<1>1. CountInv => BytesConserved
  BY DEF CountInv, CountOK, BytesConserved, ChunksInFlight, Chunks, IsChunk, Final
<1>2. QED BY <1>1, CountInvHolds, PTL

-----------------------------------------------------------------------------
(* EndsOnce.  First what queues hold, then the sender, then the receiver.  *)

LEMMA PacketsPart ==
    ASSUME NEW u \in Seq(Message), NEW v \in Seq(Message), Part(u, v)
    PROVE  /\ Packets(v) \subseteq Packets(u)
           /\ u = <<>> => v = <<>>
<1>1. PICK a \in Nat : /\ Len(v) + a <= Len(u)
                       /\ \A k \in 1..Len(v) : v[k] = u[k + a]
  BY DEF Part
<1>2. \A k \in 1..Len(v) : \E j \in 1..Len(u) : v[k] = u[j]
  BY PartHolds
<1>3. u = <<>> => v = <<>>
  <2>1. u = <<>> => Len(v) = 0
    BY <1>1
  <2>2. QED BY <2>1
<1>4. QED BY <1>2, <1>3 DEF Packets

LEMMA PacketsAppend ==
    ASSUME NEW q \in Seq(Message), NEW m
    PROVE  Packets(Append(q, m)) = Packets(q) \cup {m}
<1> DEFINE v == Append(q, m)
<1>1. /\ Len(v) = Len(q) + 1 /\ Len(q) \in Nat /\ v[Len(q) + 1] = m
      /\ \A k \in 1..Len(q) : v[k] = q[k]
  BY AppendAny
<1> HIDE DEF v
<1>2. 1..Len(v) = (1..Len(q)) \cup {Len(q) + 1}
  BY <1>1
<1>3. QED BY <1>1, <1>2 DEF Packets, v

LEMMA PacketsSay ==
    ASSUME NEW q \in Seq(Message), NEW m
    PROVE  /\ Packets(Say(q, m)) \subseteq Packets(q) \cup {m}
           /\ ~Linked => Say(q, m) = q
           /\ Packets(q) \subseteq Packets(Say(q, m))
           /\ Linked => m \in Packets(Say(q, m))
           /\ m \in Message => Say(q, m) \in Seq(Message)
BY PacketsAppend DEF Say

LEMMA PacketsHead ==
    ASSUME NEW q \in Seq(Message), q # <<>>
    PROVE  /\ Head(q) \in Packets(q) /\ Tail(q) \in Seq(Message)
           /\ Packets(Tail(q)) \subseteq Packets(q)
           /\ Packets(q) = {Head(q)} \cup Packets(Tail(q))
<1>1. /\ Len(q) \in Nat \ {0} /\ Head(q) = q[1] /\ Len(Tail(q)) = Len(q) - 1
      /\ Tail(q) \in Seq(Message)
      /\ \A k \in 1..Len(Tail(q)) : Tail(q)[k] = q[k + 1]
  BY TailFacts
<1>2. ASSUME NEW m \in Packets(q) PROVE m = Head(q) \/ m \in Packets(Tail(q))
  <2>1. PICK k \in 1..Len(q) : m = q[k]
    BY <1>2 DEF Packets
  <2>2. CASE k = 1
    BY <1>1, <2>1, <2>2
  <2>3. CASE k # 1
    <3>1. k - 1 \in 1..Len(Tail(q)) /\ (k - 1) + 1 = k
      BY <1>1, <2>3
    <3>2. Tail(q)[k - 1] = m
      BY <1>1, <2>1, <3>1
    <3>3. QED BY <3>1, <3>2 DEF Packets
  <2>4. QED BY <2>2, <2>3
<1>3. Head(q) \in Packets(q)
  <2>1. 1 \in 1..Len(q)
    BY <1>1
  <2>2. QED BY <1>1, <2>1 DEF Packets
<1>4. Packets(Tail(q)) \subseteq Packets(q)
  BY <1>1, TailIsPart, PacketsPart
<1>5. QED BY <1>1, <1>2, <1>3, <1>4

LEMMA PacketsAre ==
    ASSUME NEW q, NEW u, NEW a
    PROVE  /\ NoTurn(q, u, a) <=> /\ \A m \in Packets(q) : ~TurnToRecv(m)
                                  /\ \A m \in Packets(u) : ~TurnToSend(m)
                                  /\ ~a
           /\ NoStream(q) <=> \A m \in Packets(q) : ~IsStream(m)
BY DEF Packets, NoTurn, NoStream

LEMMA PacketsOne ==
    ASSUME NEW m PROVE Packets(<<m>>) = {m} /\ Packets(<<>>) = {}
<1>1. Len(<<m>>) = 1 /\ <<m>>[1] = m /\ Len(<<>>) = 0
  OBVIOUS
<1>2. 1..1 = {1} /\ 1..0 = {}
  OBVIOUS
<1>3. QED BY <1>1, <1>2 DEF Packets

\* The last word stays the last one in what is left of the queue.
LEMMA LastWordPart ==
    ASSUME NEW q \in Seq(Message), NEW v \in Seq(Message), Part(q, v),
           NEW s, NEW t, t.status = s.status, LastWord(s, q)
    PROVE  LastWord(t, v)
<1>1. PICK a \in Nat : /\ Len(v) + a <= Len(q)
                       /\ \A k \in 1..Len(v) : v[k] = q[k + a]
  BY DEF Part
<1>2. ASSUME NEW k \in 1..Len(v), v[k].type = "TransferComplete"
      PROVE  k = Len(v) /\ t.status = "Completed"
  <2>1. k + a \in 1..Len(q) /\ q[k + a].type = "TransferComplete"
    BY <1>1, <1>2
  <2>2. k + a = Len(q) /\ s.status = "Completed"
    BY <2>1 DEF LastWord
  <2>3. k = Len(v)
    <3>1. Len(v) \in Nat /\ Len(q) \in Nat /\ k \in Nat /\ k <= Len(v)
      OBVIOUS
    <3>2. QED BY <1>1, <2>2, <3>1
  <2>4. QED BY <2>2, <2>3
<1>3. QED BY <1>2 DEF LastWord

\* Before the last word there is none.
LEMMA NoLastWord ==
    ASSUME NEW s, NEW q, LastWord(s, q), s.status # "Completed"
    PROVE  \A m \in Packets(q) : m.type # "TransferComplete"
BY DEF LastWord, Packets

LEMMA LastWordNone ==
    ASSUME NEW t, NEW v, \A m \in Packets(v) : m.type # "TransferComplete"
    PROVE  LastWord(t, v)
BY DEF LastWord, Packets

LEMMA LastWordSaid ==
    ASSUME NEW q \in Seq(Message), NEW t, NEW m, t.status = "Completed",
           \A x \in Packets(q) : x.type # "TransferComplete"
    PROVE  LastWord(t, Say(q, m))
<1>1. LastWord(t, q)
  BY LastWordNone
<1>2. LastWord(t, Append(q, m))
  <2>1. /\ Len(Append(q, m)) = Len(q) + 1 /\ Len(q) \in Nat
        /\ \A k \in 1..Len(q) : Append(q, m)[k] = q[k]
    BY AppendAny
  <2>2. \A k \in 1..Len(Append(q, m)) : k = Len(q) + 1 \/ k \in 1..Len(q)
    BY <2>1
  <2>3. \A k \in 1..Len(q) : Append(q, m)[k].type # "TransferComplete"
    BY <2>1 DEF Packets
  <2>4. QED BY <2>1, <2>2, <2>3 DEF LastWord
<1>3. QED BY <1>1, <1>2 DEF Say

-----------------------------------------------------------------------------
\* The sender has ended, or will.
Ending(s, u) == s.status \in Final \/ \E m \in Packets(u) : Refuses(m)

\* What the sender's session is as far as its end is concerned.
SameEnd(s, t) ==
    /\ t.status = s.status /\ t.waiting = s.waiting
    /\ Untouched(t) <=> Untouched(s)

\* Packets are lost or handled, and the sender rests.
LEMMA SenderRests ==
    ASSUME NEW s, NEW t, SameEnd(s, t),
           NEW q \in Seq(Message), NEW v \in Seq(Message), Part(q, v),
           NEW u \in Seq(Message), NEW w \in Seq(Message), Part(u, w),
           NEW a, NEW b, b => a \/ \E x \in Packets(q) : TurnToRecv(x),
           NEW linked, NEW on, on => linked, SenderEnds(s, q, u, a, linked)
    PROVE  SenderEnds(t, v, w, b, on)
<1>1. Packets(v) \subseteq Packets(q) /\ Packets(w) \subseteq Packets(u)
  BY PacketsPart
<1>2. NoTurnLeft(t, v, w, b, on)
  BY <1>1, PacketsAre DEF SenderEnds, NoTurnLeft, SameEnd
<1>3. RefusalsFit(t, v, w, on)
  BY <1>1, PacketsAre DEF SenderEnds, RefusalsFit, SameEnd
<1>4. Fresh(t, v)
  BY <1>1 DEF SenderEnds, Fresh, SameEnd
<1>5. LastWord(t, v)
  BY LastWordPart DEF SenderEnds, SameEnd
<1>6. QED BY <1>1, <1>2, <1>3, <1>4, <1>5 DEF SenderEnds

\* The receiver says m over a whole link, handling its turn or refusing.
LEMMA SenderHears ==
    ASSUME NEW s, NEW q \in Seq(Message), NEW v \in Seq(Message), Part(q, v),
           NEW u \in Seq(Message), NEW a, NEW b, NEW on, on => Linked,
           SenderEnds(s, q, u, a, Linked), NEW m \in Message,
           \/ ~Refuses(m) /\ (TurnToSend(m) \/ b => a \/ \E x \in Packets(q) : TurnToRecv(x))
           \/ /\ Refuses(m) /\ m.type = "FileAck" /\ ~b
              /\ s.status # "Completed"
              /\ \A x \in Packets(u) : ~TurnToSend(x)
              /\ on => NoTurn(v, u, b) /\ s.waiting
           \/ /\ Refuses(m) /\ m.type = "TransferReject" /\ ~b /\ ~on /\ Untouched(s)
              /\ Linked => s.status \notin Final
              /\ \A x \in Packets(u) : ~TurnToSend(x)
              /\ Linked => \A x \in Packets(u) : x.type # "FileAck",
           m.type # "TransferCancel"
    PROVE  SenderEnds(s, v, Say(u, m), b, on)
<1> DEFINE w == Say(u, m)
<1>1. /\ Packets(v) \subseteq Packets(q) /\ Packets(w) \subseteq Packets(u) \cup {m}
      /\ ~Linked => w = u
  BY PacketsPart, PacketsSay
<1> HIDE DEF w
<1>2. NoTurnLeft(s, q, u, a, Linked) /\ RefusalsFit(s, q, u, Linked)
      /\ Fresh(s, q) /\ LastWord(s, q)
      /\ \A x \in Packets(u) : x.type # "TransferCancel"
  BY DEF SenderEnds
<1>3. ~Refuses(m) \/ ~TurnToSend(m)
  BY DEF Refuses, TurnToSend
<1>4. NoTurnLeft(s, v, w, b, on)
  <2>1. SUFFICES ASSUME Ending(s, w)
                 PROVE  /\ \A x \in Packets(w) : ~TurnToSend(x)
                        /\ on => NoTurn(v, w, b) /\ (s.waiting \/ s.status \in Final)
    BY DEF NoTurnLeft, Ending
  <2>2. CASE Ending(s, u)
    <3>1. /\ \A x \in Packets(u) : ~TurnToSend(x)
          /\ Linked => NoTurn(q, u, a) /\ (s.waiting \/ s.status \in Final)
      BY <1>2, <2>2 DEF NoTurnLeft, Ending
    <3>2. Linked => /\ ~a /\ \A x \in Packets(q) : ~TurnToRecv(x)
      BY <3>1, PacketsAre
    <3>3. Linked => ~TurnToSend(m) /\ ~b
      BY <1>3, <3>2
    <3>4. \A x \in Packets(w) : ~TurnToSend(x)
      BY <1>1, <3>1, <3>3
    <3>5. QED BY <1>1, <3>1, <3>2, <3>3, <3>4, PacketsAre
  <2>3. CASE ~Ending(s, u)
    <3>1. Linked /\ Refuses(m)
      BY <1>1, <2>1, <2>3 DEF Ending
    <3>2. QED BY <1>1, <1>3, <3>1, PacketsAre
  <2>4. QED BY <2>2, <2>3
<1>5. RefusalsFit(s, v, w, on)
  <2>1. ASSUME s.status = "Completed"
        PROVE  NoStream(v) /\ \A x \in Packets(w) : ~Refuses(x)
    <3>1. NoStream(q) /\ \A x \in Packets(u) : ~Refuses(x)
      BY <1>2, <2>1 DEF RefusalsFit
    <3>2. Linked => ~Refuses(m)
      BY <2>1 DEF Final
    <3>3. QED BY <1>1, <3>1, <3>2, PacketsAre
  <2>2. ASSUME s.status = "Cancelled" PROVE ~on /\ \A x \in Packets(w) : x.type # "FileAck"
    BY <1>1, <1>2, <2>2 DEF RefusalsFit
  <2>3. ASSUME NEW y \in Packets(w), y.type = "TransferReject"
        PROVE  /\ ~on /\ Untouched(s) /\ s.status \notin {"Failed", "Completed"}
               /\ \A x \in Packets(w) : x.type # "FileAck"
    <3>1. CASE y \in Packets(u)
      BY <1>1, <1>2, <2>3, <3>1 DEF RefusalsFit
    <3>2. CASE Linked /\ y = m
      BY <1>1, <2>3, <3>2 DEF Refuses, Final
    <3>3. QED BY <1>1, <2>3, <3>1, <3>2
  <2>4. QED BY <2>1, <2>2, <2>3 DEF RefusalsFit
<1>6. Fresh(s, v) /\ LastWord(s, v)
  BY <1>1, <1>2, LastWordPart DEF Fresh
<1>7. QED BY <1>1, <1>2, <1>4, <1>5, <1>6 DEF SenderEnds, w

\* A sender that transfers or pauses takes a step of its own.
LEMMA SenderMoves ==
    ASSUME NEW s, NEW t, NEW q, NEW v, NEW u, NEW a, NEW linked, NEW on,
           SenderEnds(s, q, u, a, linked), s.status \in {"Transferring", "Paused"},
           t.status \notin {"Completed", "Cancelled"}, Untouched(t) => Untouched(s),
           \A m \in Packets(v) : m \in Packets(q) \/ m.type # "TransferComplete",
           Ending(t, u) => /\ \A m \in Packets(u) : ~TurnToSend(m)
                           /\ on => NoTurn(v, u, a) /\ (t.waiting \/ t.status \in Final)
    PROVE  SenderEnds(t, v, u, a, on)
<1>1. ~Untouched(s) /\ s.status \notin Final
  BY DEF SenderEnds, Fresh, Final
<1>2. \A m \in Packets(u) : m.type # "TransferReject"
  BY <1>1 DEF SenderEnds, RefusalsFit
<1>3. \A m \in Packets(v) : m.type # "TransferComplete"
  BY <1>1, NoLastWord DEF SenderEnds, Final
<1>4. NoTurnLeft(t, v, u, a, on)
  BY DEF NoTurnLeft, Ending
<1>5. RefusalsFit(t, v, u, on)
  BY <1>2 DEF RefusalsFit
<1>6. Fresh(t, v) /\ LastWord(t, v)
  BY <1>1, <1>3, LastWordNone DEF Fresh
<1>7. QED BY <1>4, <1>5, <1>6 DEF SenderEnds

\* The sender takes the turn: it has not ended, and nobody refuses.
LEMMA SenderTakesTurn ==
    ASSUME NEW s, NEW t, NEW q, NEW v, NEW u \in Seq(Message), NEW a, NEW linked, NEW on,
           SenderEnds(s, q, u, a, linked), u # <<>>, TurnToSend(Head(u)),
           t.status # "Cancelled",
           \A m \in Packets(Tail(u)) : ~TurnToSend(m),
           t.status \in Final => (on => NoTurn(v, Tail(u), a)),
           t.status = "Completed" => NoStream(v),
           Fresh(t, v), LastWord(t, v)
    PROVE  SenderEnds(t, v, Tail(u), a, on)
<1>1. Head(u) \in Packets(u) /\ Packets(Tail(u)) \subseteq Packets(u)
  BY PacketsHead
<1>2. s.status \notin Final /\ \A m \in Packets(u) : ~Refuses(m)
  BY <1>1 DEF SenderEnds, NoTurnLeft
<1>3. \A m \in Packets(Tail(u)) : ~Refuses(m) /\ m.type # "TransferReject"
  BY <1>1, <1>2 DEF Refuses
<1>4. NoTurnLeft(t, v, Tail(u), a, on)
  BY <1>3 DEF NoTurnLeft
<1>5. RefusalsFit(t, v, Tail(u), on)
  BY <1>3 DEF RefusalsFit
<1>6. QED BY <1>1, <1>4, <1>5 DEF SenderEnds

\* The sender learns that it is refused.
LEMMA SenderRefused ==
    ASSUME NEW s, NEW t, NEW q, NEW u \in Seq(Message), NEW a, NEW linked,
           SenderEnds(s, q, u, a, linked), u # <<>>,
           Untouched(t) <=> Untouched(s), t.waiting = s.waiting,
           \/ Head(u).type = "TransferReject" /\ t.status = "Cancelled"
           \/ Head(u).type = "FileAck" /\ ~Head(u).ok /\ t.status = "Failed"
    PROVE  SenderEnds(t, q, Tail(u), a, linked)
<1>1. Head(u) \in Packets(u) /\ Packets(Tail(u)) \subseteq Packets(u)
  BY PacketsHead
<1>2. /\ NoTurnLeft(s, q, u, a, linked) /\ RefusalsFit(s, q, u, linked)
      /\ Fresh(s, q) /\ LastWord(s, q) /\ Refuses(Head(u))
  BY DEF SenderEnds, Refuses
<1>3. /\ \A m \in Packets(u) : ~TurnToSend(m)
      /\ linked => NoTurn(q, u, a)
  BY <1>1, <1>2 DEF NoTurnLeft
<1>4. s.status # "Completed" /\ \A m \in Packets(q) : m.type # "TransferComplete"
  BY <1>1, <1>2, NoLastWord DEF RefusalsFit
<1>5. NoTurnLeft(t, q, Tail(u), a, linked)
  BY <1>1, <1>3, PacketsAre DEF NoTurnLeft, Final
<1>6. CASE Head(u).type = "TransferReject" /\ t.status = "Cancelled"
  <2>1. RefusalsFit(t, q, Tail(u), linked)
    BY <1>1, <1>2, <1>6 DEF RefusalsFit
  <2>2. Fresh(t, q)
    BY <1>2, <1>6 DEF Fresh
  <2>3. QED BY <1>1, <1>4, <1>5, <2>1, <2>2, LastWordNone DEF SenderEnds
<1>7. CASE Head(u).type = "FileAck" /\ t.status = "Failed"
  <2>1. RefusalsFit(t, q, Tail(u), linked)
    BY <1>1, <1>2, <1>7 DEF RefusalsFit
  <2>2. Fresh(t, q)
    BY <1>2, <1>7 DEF Fresh
  <2>3. QED BY <1>1, <1>4, <1>5, <2>1, <2>2, LastWordNone DEF SenderEnds
<1>8. QED BY <1>6, <1>7

-----------------------------------------------------------------------------
MaySay(m) == m.type # "TransferCancel" /\ (IsControl(m) => "send" \in Controls)

\* The sender has taken a step, over a whole link if it said anything.
Waits(s, t, q, v, r, linked, on) ==
    /\ on => linked
    /\ s.status = "Completed" => t.status = "Completed"
    /\ v = q \/ (linked /\ s.status # "Completed")
    /\ \A m \in Packets(v) : m \in Packets(q) \/ MaySay(m)
    /\ "send" \in Controls => ChunkIsTaken(t, v, r, on)

LEMMA ReceiverWaits ==
    ASSUME NEW s, NEW t, NEW q, NEW v, NEW r, NEW linked, NEW on,
           ReceiverEnds(s, q, r, linked), Waits(s, t, q, v, r, linked, on)
    PROVE  ReceiverEnds(t, v, r, on)
<1>1. EndedReceiver(t, v, r, on)
  <2>1. CASE v = q
    BY <2>1 DEF ReceiverEnds, EndedReceiver, Waits
  <2>2. CASE linked /\ s.status # "Completed"
    <3>1. r.status \notin Final
      BY <2>2 DEF ReceiverEnds, EndedReceiver
    <3>2. QED BY <3>1 DEF ReceiverEnds, EndedReceiver, Final
  <2>3. QED BY <2>1, <2>2 DEF Waits
<1>2. Unbroken(t, v, r, on)
  BY DEF ReceiverEnds, Unbroken, MaySay, Waits
<1>3. QED BY <1>1, <1>2 DEF ReceiverEnds

\* Packets are lost or handled, and the receiver is as it was.
LEMMA ReceiverRests ==
    ASSUME NEW s, NEW t, t.status = s.status,
           NEW q \in Seq(Message), NEW v \in Seq(Message), Part(q, v),
           NEW r, NEW x, x.status = r.status, x.asking => r.asking,
           NEW linked, NEW on, on => linked, ReceiverEnds(s, q, r, linked),
           "send" \in Controls => ChunkIsTaken(t, v, x, on)
    PROVE  ReceiverEnds(t, v, x, on)
<1>1. Packets(v) \subseteq Packets(q) /\ (q = <<>> => v = <<>>)
  BY PacketsPart
<1>2. EndedReceiver(t, v, x, on)
  BY <1>1 DEF ReceiverEnds, EndedReceiver
<1>3. Unbroken(t, v, x, on)
  BY <1>1 DEF ReceiverEnds, Unbroken
<1>4. QED BY <1>2, <1>3 DEF ReceiverEnds

\* A packet that would revive an ended session finds one that goes on.
LEMMA ReceiverLives ==
    ASSUME NEW s, NEW q \in Seq(Message), NEW v \in Seq(Message), Part(q, v),
           NEW r, NEW x, x.status \notin Final, x.asking => x.status = "WaitingApproval",
           NEW linked, NEW on, on => linked, ReceiverEnds(s, q, r, linked),
           "send" \in Controls => ChunkIsTaken(s, v, x, on)
    PROVE  ReceiverEnds(s, v, x, on)
<1>1. Packets(v) \subseteq Packets(q)
  BY PacketsPart
<1>2. EndedReceiver(s, v, x, on)
  BY DEF EndedReceiver, Final
<1>3. Unbroken(s, v, x, on)
  BY <1>1 DEF ReceiverEnds, Unbroken
<1>4. QED BY <1>2, <1>3 DEF ReceiverEnds

\* The receiver ends.
LEMMA ReceiverStops ==
    ASSUME NEW s, NEW q \in Seq(Message), NEW v \in Seq(Message), Part(q, v),
           NEW r, NEW x, x.status \in Final, ~x.asking,
           x.status \in {"Completed", "Cancelled"} => v = <<>>,
           \A m \in Packets(v) : ~Revives(m),
           NEW linked, NEW on, on => linked /\ s.status = "Completed",
           ReceiverEnds(s, q, r, linked),
           "send" \in Controls => ChunkIsTaken(s, v, x, on)
    PROVE  ReceiverEnds(s, v, x, on)
<1>1. Packets(v) \subseteq Packets(q)
  BY PacketsPart
<1>2. EndedReceiver(s, v, x, on)
  BY DEF EndedReceiver
<1>3. Unbroken(s, v, x, on)
  BY <1>1 DEF ReceiverEnds, Unbroken
<1>4. QED BY <1>2, <1>3 DEF ReceiverEnds

\* A start is not lost before the chunks that follow it.
LEMMA ChunkCut ==
    ASSUME NEW s, NEW t, NEW q \in Seq(Message), NEW v \in Seq(Message), NEW r, NEW x,
           Cut(q, v), OneFile(q), x.writer.open = r.writer.open,
           NEW linked, NEW on, on => /\ linked /\ v = q
                                     /\ (t.reader.open /\ ~t.waiting =>
                                            s.reader.open /\ ~s.waiting),
           ChunkIsTaken(s, q, r, linked)
    PROVE  ChunkIsTaken(t, v, x, on)
<1>1. Len(v) <= Len(q) /\ \A k \in 1..Len(v) : v[k] = q[k]
  BY CutFacts
<1>2. ASSUME NEW m \in Packets(v), IsChunk(m)
      PROVE  (\E y \in Packets(v) : IsStart(y)) \/ x.writer.open
  <2>1. PICK p \in 1..Len(v) : m = v[p]
    BY <1>2 DEF Packets
  <2>2. p \in 1..Len(q) /\ IsChunk(q[p])
    BY <1>1, <1>2, <2>1
  <2>3. (\E y \in Packets(q) : IsStart(y)) \/ r.writer.open
    BY <2>2 DEF ChunkIsTaken, Packets
  <2>4. ASSUME NEW k \in 1..Len(q), IsStart(q[k])
        PROVE  k \in 1..Len(v) /\ IsStart(v[k])
    <3>1. ~(p < k)
      BY <1>1, <2>2, <2>4 DEF OneFile, IsStream, IsChunk
    <3>2. k \in 1..Len(v)
      BY <1>1, <3>1
    <3>3. QED BY <1>1, <2>4, <3>2
  <2>5. QED BY <2>3, <2>4 DEF Packets
<1>3. QED BY <1>2 DEF ChunkIsTaken

\* A packet other than a start is handled.
LEMMA ChunkTail ==
    ASSUME NEW s, NEW q \in Seq(Message), q # <<>>, ~IsStart(Head(q)), NEW r, NEW x,
           r.writer.open => x.writer.open, NEW linked, NEW on, on => linked,
           ChunkIsTaken(s, q, r, linked)
    PROVE  ChunkIsTaken(s, Tail(q), x, on)
BY PacketsHead DEF ChunkIsTaken

\* The sender says something.
LEMMA ChunkSaid ==
    ASSUME NEW s, NEW t, NEW q, NEW v, NEW r, NEW linked, NEW on, on => linked,
           ChunkIsTaken(s, q, r, linked), t.reader.open /\ ~t.waiting =>
                                             s.reader.open /\ ~s.waiting,
           Packets(q) \subseteq Packets(v),
           \A m \in Packets(v) : \/ m \in Packets(q) \/ ~IsChunk(m)
                                 \/ linked /\ s.reader.open /\ ~s.waiting
    PROVE  ChunkIsTaken(t, v, r, on)
BY DEF ChunkIsTaken

\* No chunk is under way, and none can be.
LEMMA ChunkNone ==
    ASSUME NEW t, NEW v, NEW r, NEW on, NoStream(v), on => ~t.reader.open \/ t.waiting
    PROVE  ChunkIsTaken(t, v, r, on)
BY PacketsAre DEF ChunkIsTaken, IsChunk, IsStream

-----------------------------------------------------------------------------
\* The hypotheses under which an ended session stays as it ended.
Unforced ==
    /\ HoldsOut /\ Cancellers = {} /\ "crash" \notin Faults /\ "recv" \notin Controls
    /\ NoTrailingHole /\ ByButton = TRUE

\* What the invariants say to a step.
LEMMA EndKnows ==
    ASSUME SessionInv, TurnInv, PartialInv, EndInv
    PROVE  /\ SenderEnds(sender, toRecv, toSend, receiver.asking, Linked)
           /\ ReceiverEnds(sender, toRecv, receiver, Linked)
           /\ "send" \in Controls => ChunkIsTaken(sender, toRecv, receiver, Linked)
           /\ OneFile(toRecv)
           /\ \A m \in Packets(toSend) : TurnToSend(m) => NoStream(toRecv)
           /\ receiver.asking =>
                 /\ Untouched(sender) /\ toRecv = <<>>
                 /\ \A m \in Packets(toSend) : ~TurnToSend(m)
                 /\ receiver.status = "WaitingApproval"
<1>1. /\ SenderEnds(sender, toRecv, toSend, receiver.asking, Linked)
      /\ ReceiverEnds(sender, toRecv, receiver, Linked)
      /\ OneFile(toRecv) /\ OneTurn(toRecv, toSend, receiver.asking)
      /\ TurnsFit(sender, toRecv, toSend, receiver.asking)
      /\ CleanStart(toRecv, toSend, receiver.asking, disk)
  BY DEF EndInv, PartialInv, PartialOK, TurnInv, TurnOK
<1>2. \A m \in Packets(toSend) : TurnToSend(m) => NoStream(toRecv) /\ ~receiver.asking
  BY <1>1 DEF CleanStart, OneTurn, Packets
<1>3. ASSUME receiver.asking
      PROVE  /\ Untouched(sender) /\ toRecv = <<>>
             /\ receiver.status = "WaitingApproval"
  <2>1. Untouched(sender) /\ \A k \in 1..Len(toRecv) : ~TurnToRecv(toRecv[k])
    BY <1>1, <1>3 DEF TurnsFit, OneTurn
  <2>2. \A k \in 1..Len(toRecv) : TurnToRecv(toRecv[k])
    BY <1>1, <2>1 DEF SenderEnds, Fresh, Packets, TurnToRecv
  <2>3. toRecv \in Seq(Message)
    BY SenderHas
  <2>4. Len(toRecv) = 0
    <3>1. Len(toRecv) # 0 => 1 \in 1..Len(toRecv)
      BY <2>3
    <3>2. QED BY <2>1, <2>2, <3>1
  <2>5. QED BY <1>1, <1>3, <2>1, <2>3, <2>4 DEF ReceiverEnds, EndedReceiver
<1>4. QED BY <1>1, <1>2, <1>3 DEF ReceiverEnds, Unbroken

\* A step that leaves the sockets alone keeps the two halves of the invariant.
LEMMA EndOf ==
    ASSUME ~Early, UNCHANGED <<sock, cut>>,
           SenderEnds(sender', toRecv', toSend', receiver'.asking, Linked),
           ReceiverEnds(sender', toRecv', receiver', Linked)
    PROVE  EndInv'
<1>1. Linked' = Linked /\ Early' = Early
  BY DEF Linked, Early
<1>2. QED BY <1>1 DEF EndInv

\* A handler of the sender for the packet at the head of its queue.
LEMMA EndHandshakeResp ==
    ASSUME SessionInv, TurnInv, PartialInv, EndInv, OnHandshakeResp PROVE EndInv'
<1> DEFINE m == Signal("TransferOffer")
<1>1. /\ toSend # <<>> /\ Head(toSend).type = "HandshakeResp" /\ toSend' = Tail(toSend)
      /\ UNCHANGED <<receiver, sock, cut>> /\ SendToReceiver(<<m>>)
      /\ sender' = WithStatus(sender, "WaitingApproval") /\ ~Early
  BY SenderTakes DEF OnHandshakeResp, SenderHandles, SenderGets
<1>2. sender \in Sender /\ toRecv \in Seq(Message) /\ toSend \in Seq(Message)
  BY SenderHas
<1>3. toRecv' = Say(toRecv, m) /\ m \in Message
  BY <1>1, <1>2, ConcatOne, AnswerMessages DEF SendToReceiver, Say
<1>4. TurnToSend(Head(toSend)) /\ Head(toSend) \in Packets(toSend)
  BY <1>1, <1>2, PacketsHead DEF TurnToSend
<1>5. NoTurn(toRecv, toSend', receiver.asking) /\ Untouched(sender) /\ NoStream(toRecv)
  BY <1>1, <1>2, <1>4, TakeFromSend DEF TurnInv, TurnFits
<1>6. /\ sender'.status = "WaitingApproval" /\ sender'.waiting = sender.waiting
      /\ Untouched(sender')
  BY <1>1, <1>2, <1>5 DEF WithStatus, Sender, Untouched
<1>7. m.type = "TransferOffer"
  BY DEF Signal
<1> HIDE DEF m
<1>8. Packets(toRecv') \subseteq Packets(toRecv) \cup {m} /\ (~Linked => toRecv' = toRecv)
  BY <1>2, <1>3, PacketsSay
<1>9. /\ sender.status \notin Final
      /\ SenderEnds(sender, toRecv, toSend, receiver.asking, Linked)
      /\ ReceiverEnds(sender, toRecv, receiver, Linked)
  BY <1>4, EndKnows DEF SenderEnds, NoTurnLeft
<1>10. Fresh(sender', toRecv') /\ LastWord(sender', toRecv')
  <2>1. \A x \in Packets(toRecv') : x.type \in {"HandshakeReq", "TransferOffer"}
    BY <1>5, <1>7, <1>8, <1>9 DEF SenderEnds, Fresh
  <2>2. QED BY <1>6, <2>1, LastWordNone DEF Fresh
<1>11. SenderEnds(sender', toRecv', toSend', receiver.asking, Linked)
  <2>1. \A x \in Packets(Tail(toSend)) : ~TurnToSend(x)
    BY <1>1, <1>5, PacketsAre
  <2>2. sender'.status \notin Final /\ sender'.status # "Cancelled" /\ sender'.status # "Completed"
    BY <1>6 DEF Final
  <2>3. QED BY <1>1, <1>2, <1>4, <1>9, <1>10, <2>1, <2>2, SenderTakesTurn
<1>12. ReceiverEnds(sender', toRecv', receiver, Linked)
  <2>1. NoStream(toRecv')
    BY <1>5, <1>7, <1>8, PacketsAre DEF IsStream
  <2>2. ~sender'.reader.open
    <3>1. SessionInv /\ ~sender.reader.has
      BY <1>5 DEF Untouched
    <3>2. ~sender.reader.open
      BY <3>1 DEF SessionInv, ReaderOK, ReadsCurrent
    <3>3. QED BY <1>1, <1>2, <3>2 DEF WithStatus, Sender
  <2>3. ChunkIsTaken(sender', toRecv', receiver, Linked)
    BY <2>1, <2>2, ChunkNone
  <2>4. \A x \in Packets(toRecv') : x \in Packets(toRecv) \/ MaySay(x)
    BY <1>7, <1>8 DEF IsControl, MaySay
  <2>5. toRecv' = toRecv \/ (Linked /\ sender.status # "Completed")
    BY <1>8, <1>9 DEF Final
  <2>6. sender.status # "Completed"
    BY <1>9 DEF Final
  <2>7. Waits(sender, sender', toRecv, toRecv', receiver, Linked, Linked)
    BY <2>3, <2>4, <2>5, <2>6 DEF Waits
  <2>8. QED BY <1>9, <2>7, ReceiverWaits
<1>13. QED BY <1>1, <1>11, <1>12, EndOf

\* What one turn of the chunk loop leaves in the queue.
LEMMA LoopSays ==
    ASSUME NEW s \in Sender, NEW q \in Seq(Message), NEW t, NEW v, LoopTurn(s, q, t, v)
    PROVE  /\ \A m \in Packets(v) : \/ m \in Packets(q)
                                    \/ m.type = "FileEnd"
                                    \/ m.type = "FileDataChunk" /\ s.reader.open /\ ~s.waiting
           /\ Packets(q) \subseteq Packets(v)
           /\ ~Linked \/ t.status # s.status => v = q
           /\ v = q \/ (s.reader.has /\ ~s.waiting)
           /\ t.reader.open /\ ~t.waiting => s.reader.open /\ ~s.waiting
           /\ t.reader.has = s.reader.has /\ (s.waiting => t.waiting)
<1>1. CASE Kept(s, t) /\ v = q
  BY <1>1 DEF Kept
<1>2. CASE LoopEnds(s, q, t, v)
  <2> DEFINE m == FileEnd(s.cur, s.reader.hashed)
  <2>1. m.type = "FileEnd"
    BY DEF FileEnd
  <2>2. v = Say(q, m)
    BY <1>2 DEF LoopEnds
  <2> HIDE DEF m
  <2>3. /\ Packets(v) \subseteq Packets(q) \cup {m} /\ Packets(q) \subseteq Packets(v)
        /\ ~Linked => v = q
    BY <2>2, PacketsSay
  <2>4. QED BY <1>2, <2>1, <2>3 DEF LoopEnds
<1>3. CASE LoopReads(s, q, t, v)
  <2> DEFINE m == FileDataChunk(s.cur, s.reader.off, NextBlock(s.reader))
  <2>1. m.type = "FileDataChunk"
    BY DEF FileDataChunk
  <2>2. v = Say(q, m)
    BY <1>3 DEF LoopReads
  <2> HIDE DEF m
  <2>3. /\ Packets(v) \subseteq Packets(q) \cup {m} /\ Packets(q) \subseteq Packets(v)
        /\ ~Linked => v = q
    BY <2>2, PacketsSay
  <2>4. t.reader.has = s.reader.has
    BY <1>3 DEF LoopReads, ReadNextChunk, Sender, Reader
  <2>5. QED BY <1>3, <2>1, <2>3, <2>4 DEF LoopReads
<1>4. QED BY <1>1, <1>2, <1>3 DEF LoopTurn

\* A file that is started goes on with the status or fails.
LEMMA StartKeepsStatus ==
    ASSUME NEW s \in Sender, NEW i \in Files, NEW off \in Nat, StartSendingFile(s, i, off)
    PROVE  sender'.status \in {s.status, "Failed"}
<1>1. ~(i > NumFiles)
  BY SizesAssumption DEF Files
<1>2. CASE SendNextChunk(Started(s, i, off), <<FileStart(i)>>)
  <2>2. Started(s, i, off) \in Sender /\ Started(s, i, off).status = s.status
    BY StartedFacts
  <2> DEFINE t == Started(s, i, off)
  <2> HIDE DEF t
  <2>3. t \in Sender /\ t.status = s.status /\ SendNextChunk(t, <<FileStart(i)>>)
    BY <1>2, <2>2 DEF t
  <2>4. QED BY <2>3, LoopStatus
<1>3. ASSUME NEW r, sender' = [WithStatus(s, "Failed") EXCEPT
                                   !.cur = i, !.fileSent = off, !.reader = r]
      PROVE  sender'.status = "Failed"
  BY <1>3 DEF WithStatus, Sender
<1>4. QED BY <1>1, <1>2, <1>3 DEF StartSendingFile, Started

\* The sender begins a file, or ends the transfer after the last one.
LEMMA EndStart ==
    ASSUME SessionInv, PartialInv, TurnInv, EndInv, ~Early, UNCHANGED <<receiver, sock, cut>>,
           toSend # <<>>, toSend' = Tail(toSend), TurnToSend(Head(toSend)),
           NoTurn(toRecv, Tail(toSend), receiver.asking),
           NEW s \in Sender, NEW i \in Nat \ {0}, NEW off \in Nat,
           StartSendingFile(s, i, off), s.status \notin Final,
           i \in Files \/ (s.waiting /\ ~s.reader.open)
    PROVE  EndInv'
<1> DEFINE q == toRecv
           u == toSend
           a == receiver.asking
           v == toRecv'
           t == sender'
<1>1. q \in Seq(Message) /\ u \in Seq(Message) /\ Head(u) \in Packets(u)
  BY SenderHas, PacketsHead
<1>2. /\ SenderEnds(sender, q, u, a, Linked) /\ ReceiverEnds(sender, q, receiver, Linked)
      /\ NoStream(q)
  BY <1>1, EndKnows
<1>3. sender.status \notin Final
  BY <1>1, <1>2 DEF SenderEnds, NoTurnLeft
<1>4. \A m \in Packets(q) : m.type # "TransferComplete"
  BY <1>2, <1>3, NoLastWord DEF SenderEnds, Final
<1>5. Starts(s, i, off)
  BY <1>1, StartsOf
<1>6. /\ \A m \in Packets(q) : ~TurnToRecv(m) /\ ~IsStream(m)
      /\ \A m \in Packets(Tail(u)) : ~TurnToSend(m)
      /\ ~a
  BY <1>2, PacketsAre
<1>7. \/ /\ i \in Files /\ t.reader.has /\ t.status # "Completed" /\ t.status # "Cancelled"
         /\ \A m \in Packets(v) : m \in Packets(q) \/ IsStream(m)
         /\ Linked => (\E m \in Packets(v) : IsStart(m)) \/ (NoStream(v) /\ ~t.reader.open)
         /\ t.status \in Final => \A m \in Packets(v) : ~TurnToRecv(m)
      \/ /\ t.status = "Completed" /\ t.waiting /\ ~t.reader.open
         /\ v = Say(q, Signal("TransferComplete"))
  <2>1. CASE i \in Files
    <3>1. t.reader.has /\ t.status \in {s.status, "Failed"}
      BY <1>5, <2>1, StartsHas, StartKeepsStatus
    <3>2. CASE LoopTurn(Started(s, i, off), Say(q, FileStart(i)), t, v)
      <4> DEFINE x == Started(s, i, off)
                 p == Say(q, FileStart(i))
      <4>1. x \in Sender /\ x.status = s.status /\ LoopTurn(x, p, t, v)
        BY <2>1, <3>2, StartedFacts
      <4>2. FileStart(i) \in Message /\ FileStart(i).type = "FileStart"
        BY <2>1 DEF FileStart, Message
      <4>3. /\ p \in Seq(Message) /\ Packets(p) \subseteq Packets(q) \cup {FileStart(i)}
            /\ Linked => FileStart(i) \in Packets(p)
        BY <1>1, <4>2, PacketsSay
      <4> HIDE DEF x, p
      <4>4. /\ \A m \in Packets(v) : \/ m \in Packets(p)
                                      \/ m.type = "FileEnd"
                                      \/ m.type = "FileDataChunk"
            /\ Packets(p) \subseteq Packets(v)
            /\ t.status # x.status => v = p
        BY <4>1, <4>3, LoopSays
      <4>5. \A m \in Packets(v) : m \in Packets(q) \/ IsStream(m)
        BY <4>2, <4>3, <4>4 DEF IsStream
      <4>6. Linked => \E m \in Packets(v) : IsStart(m)
        BY <4>2, <4>3, <4>4 DEF IsStart
      <4>7. ASSUME t.status \in Final PROVE \A m \in Packets(v) : ~TurnToRecv(m)
        <5>1. v = p
          BY <4>1, <4>4, <4>7
        <5>2. ~TurnToRecv(FileStart(i))
          BY <4>2 DEF TurnToRecv
        <5>3. QED BY <1>6, <4>3, <5>1, <5>2
      <4>8. QED BY <2>1, <3>1, <4>5, <4>6, <4>7 DEF Final
    <3>3. CASE t.status = "Failed" /\ ~t.reader.open /\ v = q
      BY <1>2, <1>6, <2>1, <3>1, <3>3
    <3>4. CASE i > NumFiles
      BY <2>1, <3>4, SizesAssumption DEF Files
    <3>5. QED BY <1>5, <3>2, <3>3, <3>4 DEF Starts
  <2>2. CASE i \notin Files
    BY <1>5, <2>2 DEF Starts
  <2>3. QED BY <2>1, <2>2
<1> HIDE DEF q, u, a, v, t
<1>8. CASE /\ i \in Files /\ t.reader.has /\ t.status # "Completed" /\ t.status # "Cancelled"
           /\ \A m \in Packets(v) : m \in Packets(q) \/ IsStream(m)
           /\ Linked => (\E m \in Packets(v) : IsStart(m)) \/ (NoStream(v) /\ ~t.reader.open)
           /\ t.status \in Final => \A m \in Packets(v) : ~TurnToRecv(m)
  <2>1. Fresh(t, v)
    BY <1>8 DEF Fresh, Untouched
  <2>2. LastWord(t, v)
    BY <1>4, <1>8, LastWordNone DEF IsStream
  <2>3. t.status \in Final => NoTurn(v, Tail(u), a)
    BY <1>6, <1>8, PacketsAre
  <2>4. SenderEnds(t, v, Tail(u), a, Linked)
    BY <1>1, <1>2, <1>6, <1>8, <2>1, <2>2, <2>3, SenderTakesTurn DEF u
  <2>5. Linked \/ v = q
    BY <1>1, <1>5, <1>8, LoopSays, StartedFacts, SizesAssumption
       DEF Starts, Say, Files, q, v
  <2>6. ChunkIsTaken(t, v, receiver, Linked)
    <3>1. CASE Linked
      BY <1>8, <3>1, ChunkNone DEF ChunkIsTaken
    <3>2. CASE ~Linked
      BY <1>2, <2>5, <3>2, ChunkNone
    <3>3. QED BY <3>1, <3>2
  <2>7. Waits(sender, t, q, v, receiver, Linked, Linked)
    <3>1. \A m \in Packets(v) : m \in Packets(q) \/ MaySay(m)
      BY <1>8 DEF IsStream, MaySay, IsControl
    <3>2. QED BY <1>3, <2>5, <2>6, <3>1 DEF Waits, Final
  <2>8. ReceiverEnds(t, v, receiver, Linked)
    BY <1>2, <2>7, ReceiverWaits
  <2>9. QED BY <2>4, <2>8, EndOf DEF q, u, a, v, t
<1>9. CASE /\ t.status = "Completed" /\ t.waiting /\ ~t.reader.open
           /\ v = Say(q, Signal("TransferComplete"))
  <2> DEFINE m == Signal("TransferComplete")
  <2>1. m \in Message /\ m.type = "TransferComplete"
    BY AnswerMessages DEF Signal
  <2> HIDE DEF m
  <2>2. Packets(v) \subseteq Packets(q) \cup {m} /\ (~Linked => v = q)
    BY <1>1, <1>9, PacketsSay DEF m
  <2>3. /\ \A x \in Packets(v) : ~IsStream(x) /\ ~TurnToRecv(x)
        /\ \A x \in Packets(v) : x \in Packets(q) \/ MaySay(x)
    BY <1>6, <2>1, <2>2 DEF IsStream, TurnToRecv, MaySay, IsControl
  <2>4. NoStream(v) /\ NoTurn(v, Tail(u), a)
    BY <1>6, <2>3, PacketsAre
  <2>5. Fresh(t, v) /\ LastWord(t, v)
    BY <1>1, <1>4, <1>9, LastWordSaid DEF Fresh, Untouched
  <2>6. SenderEnds(t, v, Tail(u), a, Linked)
    BY <1>1, <1>2, <1>6, <1>9, <2>4, <2>5, SenderTakesTurn DEF u
  <2>7. ChunkIsTaken(t, v, receiver, Linked)
    BY <1>9, <2>4, ChunkNone
  <2>8. Waits(sender, t, q, v, receiver, Linked, Linked)
    BY <1>3, <2>2, <2>3, <2>7 DEF Waits, Final
  <2>9. ReceiverEnds(t, v, receiver, Linked)
    BY <1>2, <2>8, ReceiverWaits
  <2>10. QED BY <2>6, <2>9, EndOf DEF q, u, a, v, t
<1>10. QED BY <1>7, <1>8, <1>9

\* A refusal ends the sender.
LEMMA EndRefused ==
    ASSUME SessionInv, PartialInv, TurnInv, EndInv, ~Early, UNCHANGED <<receiver, sock, cut>>,
           toSend # <<>>, toSend' = Tail(toSend), toRecv' = toRecv,
           \/ /\ Head(toSend).type = "TransferReject"
              /\ sender' = WithStatus(sender, "Cancelled")
           \/ /\ Head(toSend).type = "FileAck" /\ ~Head(toSend).ok
              /\ sender' = WithStatus(sender, "Failed")
    PROVE  EndInv'
<1>1. /\ sender \in Sender /\ toRecv \in Seq(Message) /\ toSend \in Seq(Message)
      /\ Head(toSend) \in Packets(toSend)
  BY SenderHas, PacketsHead
<1>2. /\ SenderEnds(sender, toRecv, toSend, receiver.asking, Linked)
      /\ ReceiverEnds(sender, toRecv, receiver, Linked)
      /\ "send" \in Controls => ChunkIsTaken(sender, toRecv, receiver, Linked)
  BY EndKnows
<1>3. /\ sender'.waiting = sender.waiting /\ sender'.reader = sender.reader
      /\ sender'.cur = sender.cur
      /\ \/ Head(toSend).type = "TransferReject" /\ sender'.status = "Cancelled"
         \/ Head(toSend).type = "FileAck" /\ ~Head(toSend).ok /\ sender'.status = "Failed"
  BY <1>1 DEF WithStatus, Sender
<1>4. Untouched(sender') <=> Untouched(sender)
  BY <1>3 DEF Untouched
<1>5. SenderEnds(sender', toRecv', toSend', receiver'.asking, Linked)
  BY <1>1, <1>2, <1>3, <1>4, SenderRefused
<1>6. sender.status # "Completed"
  BY <1>1, <1>2, <1>3 DEF SenderEnds, RefusalsFit, Refuses
<1>7. Waits(sender, sender', toRecv, toRecv', receiver', Linked, Linked)
  BY <1>2, <1>3, <1>6 DEF Waits, ChunkIsTaken
<1>8. ReceiverEnds(sender', toRecv', receiver', Linked)
  BY <1>2, <1>7, ReceiverWaits
<1>9. QED BY <1>5, <1>8, EndOf

\* The handlers of the sender.
LEMMA EndSenderStep ==
    ASSUME SessionInv, PartialInv, TurnInv, EndInv, SenderStep PROVE EndInv'
<1>1. sender \in Sender /\ toSend \in Seq(Message)
  BY SenderHas
<1>2. /\ AnswersFit(toSend)
      /\ \A m \in Packets(toSend) : m.type # "TransferCancel"
  BY DEF TurnInv, TurnOK, EndInv, SenderEnds
<1>3. ASSUME NEW type, SenderHandles(type)
      PROVE  /\ ~Early /\ UNCHANGED <<receiver, sock, cut>> /\ Head(toSend) \in Message
             /\ toSend # <<>> /\ toSend' = Tail(toSend) /\ Head(toSend).type = type
             /\ Head(toSend) \in Packets(toSend)
  BY <1>1, <1>3, SenderTakes, PacketsHead DEF SenderHandles
<1>4. CASE OnHandshakeResp
  BY <1>4, EndHandshakeResp
<1>5. CASE OnTransferAccept
  <2> DEFINE s == WithStatus(sender, "Transferring")
             i == Head(toSend).index
             off == Head(toSend).offset
  <2>1. SenderHandles("TransferAccept") /\ StartSendingFile(s, i, off)
    BY <1>5 DEF OnTransferAccept
  <2>2. i \in Files /\ i \in Nat \ {0} /\ off \in Nat
    BY <1>3, <2>1, IndexedPacket
  <2>3. TurnToSend(Head(toSend)) /\ NoTurn(toRecv, Tail(toSend), receiver.asking)
    BY <1>3, <2>1, SenderTurns DEF TurnToSend
  <2>4. s \in Sender /\ s.status \notin Final
    BY <1>1, WithStatusSender DEF Statuses, Final
  <2> HIDE DEF s, i, off
  <2>5. QED BY <1>3, <2>1, <2>2, <2>3, <2>4, EndStart
<1>6. CASE OnFileAck
  <2> DEFINE s == [sender EXCEPT !.reader = CloseReader(@)]
             i == sender.cur + 1
  <2>1. SenderHandles("FileAck")
    BY <1>6 DEF OnFileAck
  <2>2. CASE Head(toSend).ok /\ StartSendingFile(s, i, 0)
    <3>1. /\ TurnToSend(Head(toSend)) /\ NoTurn(toRecv, Tail(toSend), receiver.asking)
          /\ TurnFits(Head(toSend), sender, toRecv)
      BY <1>3, <2>1, <2>2, SenderTurns DEF TurnToSend
    <3>2. sender.waiting /\ sender.status \notin Final
      <4>1. sender.waiting
        BY <1>3, <2>1, <3>1 DEF TurnFits
      <4>2. QED BY <1>3, <2>1, <3>1, <4>1 DEF EndInv, SenderEnds, NoTurnLeft
    <3>3. CloseReader(sender.reader) \in Reader /\ ~CloseReader(sender.reader).open
      BY <1>1, CloseReaderFacts DEF Sender
    <3>4. s \in Sender /\ s.status \notin Final /\ s.waiting /\ ~s.reader.open
      BY <1>1, <3>2, <3>3 DEF Sender
    <3>5. i \in Nat \ {0} /\ 0 \in Nat
      <4>1. sender.cur \in Files
        BY <1>1 DEF Sender
      <4>2. QED BY <4>1, SizesAssumption DEF Files
    <3> HIDE DEF s, i
    <3>6. QED BY <1>3, <2>1, <2>2, <3>1, <3>4, <3>5, EndStart
  <2>3. CASE ~Head(toSend).ok /\ sender' = WithStatus(sender, "Failed") /\ UNCHANGED toRecv
    BY <1>3, <2>1, <2>3, EndRefused
  <2>4. QED BY <1>6, <2>2, <2>3 DEF OnFileAck
<1>7. CASE OnTransferReject
  BY <1>3, <1>7, EndRefused DEF OnTransferReject
<1>8. CASE OnSenderPause \/ OnSenderResume \/ OnSenderCancel
  <2>1. ASSUME NEW type \in {"TransferPause", "TransferResume", "TransferCancel"},
               SenderHandles(type)
        PROVE  FALSE
    BY <1>2, <1>3, <2>1 DEF AnswersFit, Packets
  <2>2. QED BY <1>8, <2>1 DEF OnSenderPause, OnSenderResume, OnSenderCancel
<1>9. QED BY <1>4, <1>5, <1>6, <1>7, <1>8 DEF SenderStep

\* A session that transfers or pauses says so, and takes a turn of its loop.
LEMMA EndLoop ==
    ASSUME SessionInv, PartialInv, TurnInv, EndInv, UNCHANGED <<receiver, sock, cut, toSend>>,
           sender.status \in {"Transferring", "Paused"},
           NEW s \in Sender, NEW q \in Seq(Message), Kept(sender, s),
           s.reader = sender.reader, s.status \in {"Transferring", "Paused"},
           \/ q = toRecv
           \/ \E m \in Message : IsControl(m) /\ "send" \in Controls /\ q = Say(toRecv, m),
           LoopTurn(s, q, sender', toRecv'),
           \/ sender'.status = s.status
           \/ sender'.status = "Failed" /\ s.reader.has /\ ~s.waiting
    PROVE  EndInv'
<1> DEFINE p == toRecv
           u == toSend
           a == receiver.asking
           v == toRecv'
           t == sender'
<1>1. p \in Seq(Message)
  BY SenderHas
<1>2. /\ SenderEnds(sender, p, u, a, Linked) /\ ReceiverEnds(sender, p, receiver, Linked)
      /\ "send" \in Controls => ChunkIsTaken(sender, p, receiver, Linked)
      /\ TurnOK(sender, p, u, a)
  BY EndKnows DEF TurnInv
<1>3. ~Early
  BY DEF SessionInv, EarlyOK
<1>4. s.waiting = sender.waiting /\ s.cur = sender.cur /\ t.cur = s.cur
  BY DEF Kept, LoopTurn, LoopEnds, LoopReads
<1>5. /\ \A m \in Packets(v) : \/ m \in Packets(q)
                               \/ m.type = "FileEnd"
                               \/ m.type = "FileDataChunk" /\ s.reader.open /\ ~s.waiting
      /\ Packets(q) \subseteq Packets(v)
      /\ ~Linked \/ t.status # s.status => v = q
      /\ v = q \/ (s.reader.has /\ ~s.waiting)
      /\ t.reader.open /\ ~t.waiting => s.reader.open /\ ~s.waiting
      /\ t.reader.has = s.reader.has /\ (s.waiting => t.waiting)
  BY LoopSays
<1>6. /\ \A m \in Packets(q) : m \in Packets(p) \/ (IsControl(m) /\ "send" \in Controls)
      /\ Packets(p) \subseteq Packets(q)
      /\ ~Linked => q = p
  <2>1. CASE q = p
    BY <2>1
  <2>2. CASE \E m \in Message : IsControl(m) /\ "send" \in Controls /\ q = Say(p, m)
    <3>1. PICK m \in Message : IsControl(m) /\ "send" \in Controls /\ q = Say(p, m)
      BY <2>2
    <3>2. /\ Packets(Say(p, m)) \subseteq Packets(p) \cup {m}
          /\ Packets(p) \subseteq Packets(Say(p, m))
          /\ ~Linked => Say(p, m) = p
      BY <1>1, PacketsSay
    <3>3. QED BY <3>1, <3>2
  <2>3. QED BY <2>1, <2>2
<1> HIDE DEF p, u, a, v, t
<1>7. \A m \in Packets(v) : \/ m \in Packets(p)
                            \/ MaySay(m) /\ m.type # "TransferComplete" /\ ~IsChunk(m)
                            \/ MaySay(m) /\ m.type # "TransferComplete"
                               /\ Linked /\ sender.reader.open /\ ~sender.waiting
  BY <1>4, <1>5, <1>6 DEF MaySay, IsControl, IsChunk
<1>8. NoTurn(p, u, a) => NoTurn(q, u, a)
  BY <1>6, PacketsAre DEF IsControl, TurnToRecv
<1>9. ASSUME Ending(t, u)
      PROVE  /\ \A m \in Packets(u) : ~TurnToSend(m)
             /\ Linked => NoTurn(v, u, a) /\ (t.waiting \/ t.status \in Final)
  <2>1. CASE t.status \in Final
    <3>1. t.status # s.status /\ s.reader.has /\ ~s.waiting
      BY <2>1 DEF Final, t
    <3>2. NoTurn(p, u, a) /\ v = q
      BY <1>2, <1>4, <1>5, <3>1, TurnIsFree
    <3>3. QED BY <1>8, <2>1, <3>2, PacketsAre
  <2>2. CASE \E m \in Packets(u) : Refuses(m)
    <3>1. /\ \A m \in Packets(u) : ~TurnToSend(m)
          /\ Linked => NoTurn(p, u, a) /\ sender.waiting
      BY <1>2, <2>2 DEF SenderEnds, NoTurnLeft, Final
    <3>2. QED BY <1>4, <1>5, <1>8, <3>1
  <2>3. QED BY <1>9, <2>1, <2>2 DEF Ending
<1>10. t.status \notin {"Completed", "Cancelled"}
  BY DEF t
<1>11. Untouched(t) => Untouched(sender)
  BY <1>4, <1>5 DEF Untouched
<1>12. SenderEnds(t, v, u, a, Linked)
  BY <1>2, <1>7, <1>9, <1>10, <1>11, SenderMoves
<1>13. "send" \in Controls => ChunkIsTaken(t, v, receiver, Linked)
  <2>1. SUFFICES ASSUME "send" \in Controls PROVE ChunkIsTaken(t, v, receiver, Linked)
    OBVIOUS
  <2>2. /\ t.reader.open /\ ~t.waiting => sender.reader.open /\ ~sender.waiting
        /\ Packets(p) \subseteq Packets(v)
        /\ \A m \in Packets(v) : \/ m \in Packets(p) \/ ~IsChunk(m)
                                 \/ Linked /\ sender.reader.open /\ ~sender.waiting
    BY <1>4, <1>5, <1>6, <1>7
  <2>3. ChunkIsTaken(sender, p, receiver, Linked)
    BY <1>2, <2>1
  <2>4. QED BY <2>2, <2>3, ChunkSaid
<1>14. Waits(sender, t, p, v, receiver, Linked, Linked)
  <2>1. v = p \/ Linked
    BY <1>5, <1>6
  <2>2. QED BY <1>7, <1>13, <2>1 DEF Waits
<1>15. ReceiverEnds(t, v, receiver, Linked)
  BY <1>2, <1>14, ReceiverWaits
<1>16. QED BY <1>3, <1>12, <1>15, EndOf DEF u, a, v, t, p

LEMMA EndLoops ==
    ASSUME SessionInv, PartialInv, TurnInv, EndInv, ByButton = TRUE,
           ChunkLoop \/ ResumeSender \/ PauseSender
    PROVE  EndInv'
<1>1. sender \in Sender /\ toRecv \in Seq(Message) /\ ReaderOK(sender)
  BY SenderKnows
<1>2. CASE ChunkLoop
  <2>1. <<>> \in Seq(Message) /\ toRecv = IF Linked THEN toRecv \o <<>> ELSE toRecv
    BY <1>1, ConcatNone
  <2>2. SendNextChunk(sender, <<>>) /\ sender.status = "Transferring"
        /\ UNCHANGED <<receiver, sock, cut, toSend>>
    BY <1>2 DEF ChunkLoop, MaySend
  <2>3. LoopTurn(sender, toRecv, sender', toRecv')
    BY <1>1, <2>1, <2>2, LoopTurnOf
  <2>4. \/ sender'.status = sender.status
        \/ sender'.status = "Failed" /\ sender.reader.has /\ ~sender.waiting
    BY <1>1, <2>2, LoopStatus
  <2>5. QED BY <1>1, <2>2, <2>3, <2>4, KeptSame, EndLoop
<1>3. CASE ResumeSender
  <2> DEFINE s == WithStatus(sender, "Transferring")
             m == TransferResume(sender.cur, sender.fileSent)
  <2>1. /\ sender.status = "Paused" /\ sender.button /\ "send" \in Controls
        /\ SendNextChunk(s, <<m>>) /\ UNCHANGED <<receiver, sock, cut, toSend>>
    BY <1>3 DEF ResumeSender
  <2>2. s \in Sender /\ s.status = "Transferring" /\ s.reader = sender.reader
    BY <1>1, WithStatusSender DEF Statuses
  <2>3. Kept(sender, s)
    BY <1>1, SenderKept DEF Statuses, Opening
  <2>4. m \in Message /\ m.type = "TransferResume" /\ <<m>> \in Seq(Message)
    BY <1>1 DEF TransferResume, Message, Sender
  <2>5. sender.reader.open
    BY <1>1, <2>1 DEF ReaderOK, MustRead, Opening
  <2>6. ReaderOK(s)
    BY <1>1, <2>2, <2>3, <2>5 DEF ReaderOK, ReadsCurrent, MustRead, Kept
  <2> HIDE DEF s, m
  <2>7. Say(toRecv, m) = (IF Linked THEN toRecv \o <<m>> ELSE toRecv)
        /\ Say(toRecv, m) \in Seq(Message)
    BY <1>1, <2>4, ConcatOne, PacketsSay DEF Say
  <2>8. LoopTurn(s, Say(toRecv, m), sender', toRecv')
    BY <1>1, <2>1, <2>2, <2>4, <2>6, <2>7, LoopTurnOf
  <2>9. \/ sender'.status = s.status
        \/ sender'.status = "Failed" /\ s.reader.has /\ ~s.waiting
    BY <2>1, <2>2, LoopStatus
  <2>10. IsControl(m)
    BY <2>4 DEF IsControl
  <2>11. QED BY <2>1, <2>2, <2>3, <2>4, <2>7, <2>8, <2>9, <2>10, EndLoop
<1>4. CASE PauseSender
  <2> DEFINE m == Signal("TransferPause")
             q == Say(toRecv, m)
  <2>1. /\ sender.status = "Transferring" /\ "send" \in Controls
        /\ sender' = WithStatus(sender, "Paused") /\ SendToReceiver(<<m>>)
        /\ UNCHANGED <<receiver, sock, cut, toSend>>
    BY <1>4 DEF PauseSender
  <2>2. sender' \in Sender /\ sender'.status = "Paused" /\ sender'.reader = sender.reader
    BY <1>1, <2>1, WithStatusSender DEF Statuses
  <2>3. Kept(sender, sender') /\ Kept(sender', sender')
    BY <1>1, <2>1, SenderKept, KeptSame DEF Statuses, Opening
  <2>4. m \in Message /\ m.type = "TransferPause"
    BY DEF Signal, Message, Signals
  <2> HIDE DEF m
  <2>5. toRecv' = q /\ q \in Seq(Message)
    BY <1>1, <2>1, <2>4, ConcatOne, PacketsSay DEF SendToReceiver, Say
  <2>6. IsControl(m) /\ LoopTurn(sender', q, sender', toRecv')
    BY <2>3, <2>4, <2>5 DEF IsControl, LoopTurn
  <2>7. QED BY <2>1, <2>2, <2>3, <2>4, <2>5, <2>6, EndLoop
<1>5. QED BY <1>2, <1>3, <1>4

-----------------------------------------------------------------------------
\* Before the connection is up nothing has been said.
LEMMA EndEarly ==
    ASSUME SessionInv, EndInv, Early, toSend' = <<>>, sender'.reader = sender.reader,
           ~receiver'.asking,
           \/ /\ sender'.status \in {"Connecting", "Failed"} /\ toRecv' = <<>>
              /\ receiver'.status = "Idle"
           \/ /\ sender'.status = "Handshaking" /\ toRecv' = <<Signal("HandshakeReq")>>
              /\ receiver'.status = "Handshaking" /\ ~Early'
    PROVE  EndInv'
<1> DEFINE v == toRecv'
           t == sender'
           x == receiver'
           m == Signal("HandshakeReq")
<1>1. ~t.reader.open
  BY DEF SessionInv, EarlyOK
<1>2. m.type = "HandshakeReq"
  BY DEF Signal
<1>3. /\ \A y \in Packets(v) : y = m
      /\ Packets(toSend') = {}
  <2>1. Packets(<<m>>) = {m} /\ Packets(<<>>) = {}
    BY PacketsOne
  <2>2. v = <<>> \/ v = <<m>>
    OBVIOUS
  <2> HIDE DEF v, m
  <2>3. QED BY <2>1, <2>2
<1> HIDE DEF m
<1>4. NoStream(v) /\ \A y \in Packets(v) : y.type = "HandshakeReq"
  BY <1>2, <1>3, PacketsAre DEF IsStream
<1>5. NoTurnLeft(t, v, toSend', x.asking, Linked')
  <2>1. CASE t.status \in Final
    <3>1. Packets(v) = {}
      BY <2>1, PacketsOne DEF Final
    <3>2. QED BY <1>3, <2>1, <3>1, PacketsAre DEF NoTurnLeft
  <2>2. CASE t.status \notin Final
    BY <1>3, <2>2 DEF NoTurnLeft
  <2>3. QED BY <2>1, <2>2
<1>6. RefusalsFit(t, v, toSend', Linked')
  BY <1>3 DEF RefusalsFit
<1>7. Fresh(t, v) /\ LastWord(t, v)
  BY <1>4, LastWordNone DEF Fresh
<1>8. SenderEnds(t, v, toSend', x.asking, Linked')
  BY <1>3, <1>5, <1>6, <1>7 DEF SenderEnds
<1>9. EndedReceiver(t, v, x, Linked')
  BY DEF EndedReceiver, Final
<1>10. ChunkIsTaken(t, v, x, Linked')
  BY <1>1, <1>4, ChunkNone
<1>11. Unbroken(t, v, x, Linked')
  BY <1>4, <1>10 DEF Unbroken, IsControl
<1>12. Early' => toRecv' = <<>> /\ receiver'.status = "Idle"
  OBVIOUS
<1>13. QED BY <1>8, <1>9, <1>11, <1>12 DEF EndInv, ReceiverEnds

LEMMA EndConnects ==
    ASSUME SessionInv, EndInv, StartSend \/ ConnectFails \/ SocketConnected
    PROVE  EndInv'
<1>1. /\ sender \in Sender /\ receiver \in Receiver /\ sock \in [Sides -> SockStates]
  BY SenderHas
<1>2. Early /\ toSend = <<>>
  BY DEF StartSend, ConnectFails, SocketConnected, Early, SessionInv, EarlyOK
<1>3. toRecv = <<>> /\ receiver.status = "Idle" /\ ~receiver.asking
  BY <1>2 DEF EndInv, ReceiverEnds, EndedReceiver
<1>4. \A st \in Statuses : /\ WithStatus(sender, st).status = st
                           /\ WithStatus(sender, st).reader = sender.reader
  BY <1>1, WithStatusSender
<1>5. CASE StartSend \/ ConnectFails
  BY <1>2, <1>3, <1>4, <1>5, EndEarly DEF StartSend, ConnectFails, Statuses
<1>6. CASE SocketConnected
  <2>1. sock'["send"] = "open"
    BY <1>6 DEF SocketConnected, Sides
  <2>2. receiver'.status = "Handshaking" /\ ~receiver'.asking
    BY <1>1, <1>3, <1>6 DEF SocketConnected, WithStatus, Receiver
  <2>3. sender'.status = "Handshaking" /\ sender'.reader = sender.reader
    BY <1>4, <1>6 DEF SocketConnected, Statuses
  <2>4. toSend' = <<>> /\ toRecv' = <<Signal("HandshakeReq")>>
    BY <1>2, <1>6 DEF SocketConnected
  <2>5. ~Early'
    BY <2>1 DEF Early
  <2>6. QED BY <1>2, <2>2, <2>3, <2>4, <2>5, EndEarly
<1>7. QED BY <1>5, <1>6

-----------------------------------------------------------------------------
\* A step after the connection was up.
LEMMA EndLater ==
    ASSUME SessionInv, EndInv, [Next]_vars, Early => toRecv' = <<>> /\ receiver'.status = "Idle",
           SenderEnds(sender', toRecv', toSend', receiver'.asking, Linked'),
           ReceiverEnds(sender', toRecv', receiver', Linked')
    PROVE  EndInv'
<1>1. Early' => toRecv' = <<>> /\ receiver'.status = "Idle"
  BY EarlyBefore
<1>2. QED BY <1>1 DEF EndInv

\* What the loss of a connection leaves of a session.
LEMMA LossLeaves ==
    ASSUME SessionInv
    PROVE  /\ LossFails(sender).waiting = sender.waiting
           /\ LossFails(sender).reader = sender.reader
           /\ LossFails(sender).cur = sender.cur
           /\ sender.status = "Transferring" => LossFails(sender).status = "Failed"
           /\ sender.status # "Transferring" => LossFails(sender) = sender
           /\ LossFails(receiver).asking = receiver.asking
           /\ LossFails(receiver).writer = receiver.writer
           /\ receiver.status = "Transferring" => LossFails(receiver).status = "Failed"
           /\ receiver.status # "Transferring" => LossFails(receiver) = receiver
<1>1. sender \in Sender /\ receiver \in Receiver
  BY SenderHas
<1>2. QED BY <1>1 DEF LossFails, WithStatus, Sender, Receiver

\* The cable is pulled.
LEMMA EndCut ==
    ASSUME SessionInv, PartialInv, TurnInv, EndInv, CableCut PROVE EndInv'
<1>1. toRecv \in Seq(Message) /\ toSend \in Seq(Message)
  BY SenderHas
<1>2. /\ Cut(toRecv, toRecv') /\ Cut(toSend, toSend') /\ UNCHANGED <<sender, receiver, sock>>
      /\ ~Linked'
  BY DEF CableCut, Cut, Linked
<1>3. /\ Part(toRecv, toRecv') /\ Part(toSend, toSend')
      /\ toRecv' \in Seq(Message) /\ toSend' \in Seq(Message)
  BY <1>1, <1>2, CutIsPart, CutFacts
<1>4. /\ SenderEnds(sender, toRecv, toSend, receiver.asking, Linked)
      /\ ReceiverEnds(sender, toRecv, receiver, Linked) /\ OneFile(toRecv)
      /\ "send" \in Controls => ChunkIsTaken(sender, toRecv, receiver, Linked)
  BY EndKnows
<1>5. SenderEnds(sender', toRecv', toSend', receiver'.asking, Linked')
  BY <1>1, <1>2, <1>3, <1>4, SenderRests DEF SameEnd
<1>6. "send" \in Controls => ChunkIsTaken(sender', toRecv', receiver', Linked')
  BY <1>1, <1>2, <1>3, <1>4, ChunkCut
<1>7. ReceiverEnds(sender', toRecv', receiver', Linked')
  BY <1>1, <1>2, <1>3, <1>4, <1>6, ReceiverRests
<1>8. Early' => toRecv' = <<>> /\ receiver'.status = "Idle"
  BY <1>1, <1>2, <1>3, PacketsPart DEF Early, EndInv
<1>9. QED BY <1>5, <1>7, <1>8 DEF EndInv

\* A side loses its connection.
LEMMA EndLost ==
    ASSUME SessionInv, PartialInv, TurnInv, EndInv, [Next]_vars,
           SenderLosesSocket \/ ReceiverLosesSocket
    PROVE  EndInv'
<1>1. /\ toRecv \in Seq(Message) /\ toSend \in Seq(Message)
      /\ sock \in [Sides -> SockStates]
      /\ Part(toRecv, toRecv) /\ Part(toSend, toSend)
  BY SenderHas, CutIsPart
<1>2. /\ SenderEnds(sender, toRecv, toSend, receiver.asking, Linked)
      /\ ReceiverEnds(sender, toRecv, receiver, Linked)
      /\ "send" \in Controls => ChunkIsTaken(sender, toRecv, receiver, Linked)
      /\ receiver.asking => toRecv = <<>> /\ receiver.status = "WaitingApproval"
  BY EndKnows
<1>3. ~Linked'
  BY <1>1, Closing DEF SenderLosesSocket, ReceiverLosesSocket, Sides
<1>4. CASE SenderLosesSocket
  <2>1. /\ toSend = <<>> /\ sender' = LossFails(sender)
        /\ UNCHANGED <<receiver, toRecv, toSend>>
    BY <1>4 DEF SenderLosesSocket
  <2>2. SenderEnds(sender', toRecv', toSend', receiver'.asking, Linked')
    <3>1. CASE sender.status = "Transferring"
      <4>1. sender'.status = "Failed" /\ (Untouched(sender') => Untouched(sender))
        BY <2>1, <3>1, LossLeaves DEF Untouched
      <4>2. Packets(toSend) = {}
        BY <2>1, PacketsOne
      <4>3. Ending(sender', toSend) =>
               /\ \A m \in Packets(toSend) : ~TurnToSend(m)
               /\ Linked' => NoTurn(toRecv, toSend, receiver.asking)
                             /\ (sender'.waiting \/ sender'.status \in Final)
        BY <1>3, <4>2
      <4>4. sender'.status \notin {"Completed", "Cancelled"}
        BY <4>1
      <4>5. SenderEnds(sender', toRecv, toSend, receiver.asking, Linked')
        BY <1>2, <3>1, <4>1, <4>3, <4>4, SenderMoves
      <4>6. QED BY <2>1, <4>5
    <3>2. CASE sender.status # "Transferring"
      <4>1. SameEnd(sender, sender')
        BY <2>1, <3>2, LossLeaves DEF SameEnd
      <4>2. QED BY <1>1, <1>2, <1>3, <2>1, <4>1, SenderRests
    <3>3. QED BY <3>1, <3>2
  <2>3. "send" \in Controls => ChunkIsTaken(sender', toRecv', receiver', Linked')
    BY <1>2, <1>3, <2>1 DEF ChunkIsTaken
  <2>4. sender.status = "Completed" => sender'.status = "Completed"
    BY <2>1, LossLeaves
  <2>5. Waits(sender, sender', toRecv, toRecv', receiver, Linked, Linked')
    BY <1>3, <2>1, <2>3, <2>4 DEF Waits
  <2>6. ReceiverEnds(sender', toRecv', receiver', Linked')
    BY <1>2, <2>1, <2>5, ReceiverWaits
  <2>7. QED BY <2>1, <2>2, <2>6, EndLater DEF EndInv
<1>5. CASE ReceiverLosesSocket
  <2>1. /\ receiver' = LossFails(receiver) /\ UNCHANGED <<sender, toSend>>
        /\ toRecv = <<>> /\ toRecv' = <<>>
    <3>1. CASE receiver.asking
      <4>1. PICK k \in 0..Len(toRecv) : toRecv' = SubSeq(toRecv, 1, k)
        BY <1>5, <3>1 DEF ReceiverLosesSocket
      <4>2. Cut(toRecv, toRecv') /\ toRecv = <<>>
        BY <1>2, <3>1, <4>1 DEF Cut
      <4>3. toRecv' \in Seq(Message) /\ Part(toRecv, toRecv')
        BY <1>1, <4>2, CutIsPart, CutFacts
      <4>4. toRecv' = <<>>
        BY <1>1, <4>2, <4>3, PacketsPart
      <4>5. QED BY <1>5, <4>2, <4>4 DEF ReceiverLosesSocket
    <3>2. CASE ~receiver.asking
      BY <1>5, <3>2 DEF ReceiverLosesSocket
    <3>3. QED BY <3>1, <3>2
  <2>2. receiver'.asking = receiver.asking /\ receiver'.writer = receiver.writer
    BY <2>1, LossLeaves
  <2>3. SenderEnds(sender', toRecv', toSend', receiver'.asking, Linked')
    BY <1>1, <1>2, <1>3, <2>1, <2>2, SenderRests DEF SameEnd
  <2>4. "send" \in Controls => ChunkIsTaken(sender', toRecv', receiver', Linked')
    BY <1>3, <2>1, PacketsOne DEF ChunkIsTaken
  <2>5. ReceiverEnds(sender', toRecv', receiver', Linked')
    <3>1. CASE receiver.status = "Transferring"
      <4>1. receiver'.status = "Failed" /\ ~receiver'.asking
        BY <1>2, <2>1, <2>2, <3>1, LossLeaves
      <4>2. \A m \in Packets(toRecv') : ~Revives(m)
        BY <2>1, PacketsOne
      <4>3. receiver'.status \in Final /\ receiver'.status \notin {"Completed", "Cancelled"}
        BY <4>1 DEF Final
      <4>4. Part(toRecv, toRecv') /\ toRecv' \in Seq(Message) /\ sender' = sender
        BY <1>1, <2>1
      <4>5. ReceiverEnds(sender, toRecv', receiver', Linked')
        BY ONLY <1>1, <1>2, <1>3, <2>4, <4>1, <4>2, <4>3, <4>4, ReceiverStops
      <4>6. QED BY <4>4, <4>5
    <3>2. CASE receiver.status # "Transferring"
      <4>1. receiver' = receiver
        BY <2>1, <3>2, LossLeaves
      <4>2. Part(toRecv, toRecv') /\ toRecv' \in Seq(Message) /\ sender' = sender
        BY <1>1, <2>1
      <4>3. QED BY ONLY <1>1, <1>2, <1>3, <2>4, <4>1, <4>2, ReceiverRests
    <3>3. QED BY <3>1, <3>2
  <2>6. Early => toRecv' = <<>> /\ receiver'.status = "Idle"
    BY <2>1, LossLeaves DEF EndInv
  <2>7. QED BY <2>3, <2>5, <2>6, EndLater
<1>6. QED BY <1>4, <1>5

\* The user rejects the offer.
LEMMA EndRejects ==
    ASSUME SessionInv, PartialInv, TurnInv, EndInv, [Next]_vars, UserRejects PROVE EndInv'
<1> DEFINE m == Signal("TransferReject")
<1>1. /\ toRecv \in Seq(Message) /\ toSend \in Seq(Message) /\ receiver \in Receiver
      /\ sock \in [Sides -> SockStates]
  BY SenderHas
<1>2. /\ SenderEnds(sender, toRecv, toSend, receiver.asking, Linked)
      /\ ReceiverEnds(sender, toRecv, receiver, Linked)
  BY EndKnows
<1>3. /\ receiver.asking /\ Untouched(sender) /\ toRecv = <<>>
      /\ \A x \in Packets(toSend) : ~TurnToSend(x)
      /\ receiver.status = "WaitingApproval"
  BY EndKnows DEF UserRejects
<1>4. ~Early
  BY <1>3 DEF EndInv
<1>5. /\ receiver'.status = "Cancelled" /\ ~receiver'.asking /\ ~Linked'
      /\ SendToSender(<<m>>) /\ sender' = sender
  BY <1>1, Closing DEF UserRejects, WithStatus, Receiver, Sides
<1>6. m \in Message /\ m.type = "TransferReject"
  BY DEF Signal, Message, Signals
<1>7. toSend' = Say(toSend, m)
  BY <1>5, <1>6, SaysToSender
<1> HIDE DEF m
<1>8. toRecv' \in Seq(Message) /\ Part(toRecv, toRecv') /\ toRecv' = <<>>
  <2>1. Cut(toRecv, toRecv')
    BY DEF UserRejects, Cut
  <2>2. toRecv' \in Seq(Message) /\ Part(toRecv, toRecv')
    BY <1>1, <2>1, CutFacts, CutIsPart
  <2>3. QED BY <1>1, <1>3, <2>2, PacketsPart
<1>9. Linked => /\ sender.status \notin Final
                /\ \A x \in Packets(toSend) : x.type # "FileAck"
  <2>1. ~NoTurn(toRecv, toSend, receiver.asking)
    BY <1>3 DEF NoTurn
  <2>2. Linked => /\ sender.status \notin Final
                  /\ \A x \in Packets(toSend) : ~Refuses(x)
    BY <1>2, <2>1 DEF SenderEnds, NoTurnLeft
  <2>3. QED BY <1>3, <2>2 DEF Refuses, TurnToSend
<1>10. SenderEnds(sender, toRecv', Say(toSend, m), receiver'.asking, Linked')
  <2>1. Refuses(m) /\ m.type # "TransferCancel"
    BY <1>6 DEF Refuses
  <2>2. \/ ~Refuses(m) /\ (TurnToSend(m) \/ receiver'.asking =>
                              receiver.asking \/ \E x \in Packets(toRecv) : TurnToRecv(x))
        \/ /\ Refuses(m) /\ m.type = "FileAck" /\ ~receiver'.asking
           /\ sender.status # "Completed"
           /\ \A x \in Packets(toSend) : ~TurnToSend(x)
           /\ Linked' => NoTurn(toRecv', toSend, receiver'.asking) /\ sender.waiting
        \/ /\ Refuses(m) /\ m.type = "TransferReject" /\ ~receiver'.asking
           /\ ~Linked' /\ Untouched(sender)
           /\ Linked => sender.status \notin Final
           /\ \A x \in Packets(toSend) : ~TurnToSend(x)
           /\ Linked => \A x \in Packets(toSend) : x.type # "FileAck"
    BY <1>3, <1>5, <1>6, <1>9, <2>1
  <2>3. Linked' => Linked
    BY <1>5
  <2>4. QED BY ONLY <1>1, <1>2, <1>6, <1>8, <2>1, <2>2, <2>3, SenderHears
<1>11. ReceiverEnds(sender, toRecv', receiver', Linked')
  <2>1. \A x \in Packets(toRecv') : ~Revives(x)
    BY <1>8, PacketsOne
  <2>2. "send" \in Controls => ChunkIsTaken(sender, toRecv', receiver', Linked')
    BY <1>5, <1>8, PacketsOne DEF ChunkIsTaken
  <2>3. receiver'.status \in Final
    BY <1>5 DEF Final
  <2>4. QED BY ONLY <1>1, <1>2, <1>5, <1>8, <2>1, <2>2, <2>3, ReceiverStops
<1>12. QED BY <1>4, <1>5, <1>7, <1>10, <1>11, EndLater

-----------------------------------------------------------------------------
\* A handler of the receiver that leaves an open writer open.
LEMMA ChunkTaken ==
    ASSUME SessionInv, OneFile(toRecv), NEW type, type # "FileStart", Takes(type),
           receiver.writer.open => receiver'.writer.open,
           ChunkIsTaken(sender, toRecv, receiver, Linked)
    PROVE  ChunkIsTaken(sender', toRecv', receiver', Linked')
<1>1. /\ toRecv \in Seq(Message) /\ toRecv # <<>> /\ Head(toRecv).type = type
      /\ Cut(Tail(toRecv), toRecv') /\ sender' = sender
      /\ Linked' => Linked /\ toRecv' = Tail(toRecv)
  BY SenderHas DEF Takes
<1>2. Tail(toRecv) \in Seq(Message) /\ Part(toRecv, Tail(toRecv))
  BY <1>1, TailIsPart, PacketsHead
<1>3. OneFile(Tail(toRecv))
  BY <1>1, <1>2, OneFilePart
<1>4. toRecv' \in Seq(Message)
  BY <1>1, <1>2, CutFacts
<1>5. ChunkIsTaken(sender, Tail(toRecv), receiver', Linked)
  <2>1. ~IsStart(Head(toRecv)) /\ (Linked => Linked)
    BY <1>1 DEF IsStart
  <2>2. QED BY <1>1, <2>1, ChunkTail
<1>6. QED BY <1>1, <1>2, <1>3, <1>4, <1>5, ChunkCut

\* Behind a packet of a file nothing is under way that revives a session.
LEMMA StreamIsLast ==
    ASSUME SessionInv, PartialInv, TurnInv, EndInv, toRecv # <<>>, IsStream(Head(toRecv)),
           "send" \notin Controls
    PROVE  \A m \in Packets(toRecv) : ~Revives(m)
<1>1. toRecv \in Seq(Message) /\ Head(toRecv) \in Packets(toRecv)
  BY SenderHas, PacketsHead
<1>2. /\ SenderEnds(sender, toRecv, toSend, receiver.asking, Linked)
      /\ ReceiverEnds(sender, toRecv, receiver, Linked)
      /\ TurnsFit(sender, toRecv, toSend, receiver.asking)
  BY EndKnows DEF TurnInv, TurnOK
<1>3. ~NoStream(toRecv)
  BY <1>1, PacketsAre
<1>4. sender.status # "Completed"
  BY <1>2, <1>3 DEF SenderEnds, RefusalsFit
<1>5. \A m \in Packets(toRecv) : m.type # "TransferComplete"
  BY <1>2, <1>4, NoLastWord DEF SenderEnds
<1>6. \A m \in Packets(toRecv) : m.type \notin {"HandshakeReq", "TransferOffer"}
  BY <1>2, <1>3 DEF TurnsFit, TurnToRecv, TurnFits, Packets
<1>7. QED BY <1>2, <1>5, <1>6 DEF Revives, ReceiverEnds, Unbroken

\* What a handler of the receiver starts from.
LEMMA EndTakes ==
    ASSUME SessionInv, PartialInv, TurnInv, EndInv, NEW type, Takes(type)
    PROVE  /\ toRecv \in Seq(Message) /\ toSend \in Seq(Message) /\ ~Early
           /\ toRecv' \in Seq(Message) /\ Part(toRecv, toRecv') /\ Part(toSend, toSend)
           /\ Head(toRecv) \in Packets(toRecv) /\ Head(toRecv).type = type
           /\ toRecv # <<>> /\ ~receiver.asking /\ sender' = sender
           /\ Linked' => Linked /\ toRecv' = Tail(toRecv)
           /\ SenderEnds(sender, toRecv, toSend, receiver.asking, Linked)
           /\ ReceiverEnds(sender, toRecv, receiver, Linked)
           /\ "send" \in Controls => ChunkIsTaken(sender, toRecv, receiver, Linked)
           /\ OneFile(toRecv)
           /\ \A m \in Packets(toSend) : TurnToSend(m) => NoStream(toRecv)
<1>1. /\ toRecv # <<>> /\ Head(toRecv).type = type /\ ~receiver.asking /\ sender' = sender
      /\ Linked' => Linked /\ toRecv' = Tail(toRecv)
  BY DEF Takes
<1>2. ~Early
  BY <1>1 DEF EndInv
<1>3. /\ toRecv \in Seq(Message) /\ toSend \in Seq(Message) /\ Part(toSend, toSend)
      /\ toRecv' \in Seq(Message) /\ Part(toRecv, toRecv')
  BY SenderHas, TakesPart
<1>4. QED BY <1>1, <1>2, <1>3, EndKnows, PacketsHead

\* The receiver takes the turn and answers or opens its dialog.
LEMMA EndTurns ==
    ASSUME SessionInv, PartialInv, TurnInv, EndInv, [Next]_vars,
           NEW type \in {"HandshakeReq", "TransferOffer"}, Takes(type),
           receiver'.status \notin Final,
           receiver'.asking => receiver'.status = "WaitingApproval",
           \/ toSend' = toSend
           \/ \E m \in Message : TurnToSend(m) /\ toSend' = Say(toSend, m)
    PROVE  EndInv'
<1>1. /\ toRecv \in Seq(Message) /\ toSend \in Seq(Message) /\ ~Early
      /\ toRecv' \in Seq(Message) /\ Part(toRecv, toRecv') /\ Part(toSend, toSend)
      /\ Head(toRecv) \in Packets(toRecv) /\ Head(toRecv).type = type
      /\ toRecv # <<>> /\ sender' = sender /\ (Linked' => Linked)
      /\ SenderEnds(sender, toRecv, toSend, receiver.asking, Linked)
      /\ ReceiverEnds(sender, toRecv, receiver, Linked)
  BY EndTakes
<1>2. TurnToRecv(Head(toRecv)) /\ Untouched(sender) /\ NoStream(toRecv)
  BY <1>1, TakeFromRecv DEF TurnInv, TurnToRecv, TurnFits
<1>3. SenderEnds(sender, toRecv', toSend', receiver'.asking, Linked')
  <2>1. CASE toSend' = toSend
    <3>1. receiver'.asking => receiver.asking \/ \E x \in Packets(toRecv) : TurnToRecv(x)
      BY <1>1, <1>2
    <3>2. SameEnd(sender, sender)
      BY DEF SameEnd
    <3>3. SenderEnds(sender, toRecv', toSend, receiver'.asking, Linked')
      BY ONLY <1>1, <3>1, <3>2, SenderRests
    <3>4. QED BY <2>1, <3>3
  <2>2. CASE \E m \in Message : TurnToSend(m) /\ toSend' = Say(toSend, m)
    <3>1. PICK m \in Message : TurnToSend(m) /\ toSend' = Say(toSend, m)
      BY <2>2
    <3>2. ~Refuses(m) /\ m.type # "TransferCancel"
      BY <3>1 DEF TurnToSend, Refuses
    <3>3. TurnToSend(m) \/ receiver'.asking =>
             receiver.asking \/ \E x \in Packets(toRecv) : TurnToRecv(x)
      BY <1>1, <1>2
    <3>4. SenderEnds(sender, toRecv', Say(toSend, m), receiver'.asking, Linked')
      BY ONLY <1>1, <3>1, <3>2, <3>3, SenderHears
    <3>5. QED BY <1>1, <3>1, <3>4
  <2>3. QED BY <2>1, <2>2
<1>4. ~sender.reader.open
  BY <1>2 DEF Untouched, SessionInv, ReaderOK, ReadsCurrent
<1>5. ChunkIsTaken(sender, toRecv', receiver', Linked')
  BY <1>1, <1>2, <1>4, NoStreamPart, ChunkNone
<1>6. ReceiverEnds(sender, toRecv', receiver', Linked')
  BY ONLY <1>1, <1>5, ReceiverLives, receiver'.status \notin Final,
     receiver'.asking => receiver'.status = "WaitingApproval"
<1>7. QED BY <1>1, <1>3, <1>6, EndLater

LEMMA EndHandshake ==
    ASSUME SessionInv, PartialInv, TurnInv, EndInv, [Next]_vars,
           OnHandshakeReq \/ OnTransferOffer
    PROVE  EndInv'
<1>1. CASE OnHandshakeReq
  <2>1. /\ Takes("HandshakeReq") /\ receiver'.status = "Offering" /\ ~receiver'.asking
        /\ toSend' = Say(toSend, Signal("HandshakeResp"))
    BY <1>1, HandshakeReqDoes DEF Takes
  <2>2. Signal("HandshakeResp") \in Message /\ TurnToSend(Signal("HandshakeResp"))
    BY AnswerMessages DEF TurnToSend, Signal
  <2>3. receiver'.status \notin Final
    BY <2>1 DEF Final
  <2>4. QED BY <2>1, <2>2, <2>3, EndTurns
<1>2. CASE OnTransferOffer
  <2>1. /\ Takes("TransferOffer") /\ receiver'.status \in {"Transferring", "WaitingApproval"}
        /\ \/ ~receiver'.asking /\ toSend' = Say(toSend, TransferAccept(1, 0))
           \/ receiver'.asking /\ receiver'.status = "WaitingApproval" /\ UNCHANGED toSend
    BY <1>2, TransferOfferDoes
  <2>2. TransferAccept(1, 0) \in Message /\ TurnToSend(TransferAccept(1, 0))
    BY AnswerMessages DEF TurnToSend, TransferAccept
  <2>3. receiver'.status \notin Final
    BY <2>1 DEF Final
  <2>4. QED BY <2>1, <2>2, <2>3, EndTurns
<1>3. QED BY <1>1, <1>2

\* The user accepts the offer.
LEMMA EndAccepts ==
    ASSUME SessionInv, PartialInv, TurnInv, EndInv, [Next]_vars, UserAccepts PROVE EndInv'
<1> DEFINE m == TransferAccept(1, 0)
<1>1. /\ toRecv \in Seq(Message) /\ toSend \in Seq(Message) /\ Part(toRecv, toRecv)
  BY SenderHas, CutIsPart
<1>2. /\ SenderEnds(sender, toRecv, toSend, receiver.asking, Linked)
      /\ ReceiverEnds(sender, toRecv, receiver, Linked)
      /\ "send" \in Controls => ChunkIsTaken(sender, toRecv, receiver, Linked)
  BY EndKnows
<1>3. /\ receiver.asking /\ sender' = sender /\ toRecv' = toRecv /\ Linked' = Linked
      /\ receiver'.writer = receiver.writer /\ ~receiver'.asking
      /\ receiver'.status = "Transferring" /\ toSend' = Say(toSend, m)
  BY UserAcceptsDoes DEF SameWriter
<1>4. ~Early
  BY <1>3, EndKnows DEF EndInv
<1>5. m \in Message /\ TurnToSend(m) /\ ~Refuses(m) /\ m.type # "TransferCancel"
  BY AnswerMessages DEF TurnToSend, TransferAccept, Refuses
<1> HIDE DEF m
<1>6. SenderEnds(sender, toRecv, Say(toSend, m), receiver'.asking, Linked)
  BY ONLY <1>1, <1>2, <1>3, <1>5, SenderHears
<1>7. "send" \in Controls => ChunkIsTaken(sender, toRecv, receiver', Linked)
  BY <1>2, <1>3 DEF ChunkIsTaken
<1>8. receiver'.status \notin Final
  BY <1>3 DEF Final
<1>9. ReceiverEnds(sender, toRecv, receiver', Linked)
  BY ONLY <1>1, <1>2, <1>3, <1>7, <1>8, ReceiverLives
<1>10. QED BY <1>3, <1>4, <1>6, <1>9, EndLater

\* The handlers that leave the sender's side as it is.
LEMMA EndRests ==
    ASSUME SessionInv, PartialInv, TurnInv, EndInv, NEW type, Takes(type),
           toSend' = toSend, ~receiver'.asking
    PROVE  SenderEnds(sender', toRecv', toSend', receiver'.asking, Linked')
<1>1. /\ toRecv \in Seq(Message) /\ toSend \in Seq(Message)
      /\ toRecv' \in Seq(Message) /\ Part(toRecv, toRecv') /\ Part(toSend, toSend)
      /\ sender' = sender /\ (Linked' => Linked)
      /\ SenderEnds(sender, toRecv, toSend, receiver.asking, Linked)
  BY EndTakes
<1>2. SameEnd(sender, sender)
  BY DEF SameEnd
<1>3. receiver'.asking => receiver.asking \/ \E x \in Packets(toRecv) : TurnToRecv(x)
  OBVIOUS
<1>4. SenderEnds(sender, toRecv', toSend, receiver'.asking, Linked')
  BY ONLY <1>1, <1>2, <1>3, SenderRests
<1>5. QED BY <1>1, <1>4

\* A receiver that nothing keeps from opening its file opens it.
LEMMA FileOpens ==
    ASSUME OnFileStart, Policy # "Skip", Faults \cap {"diskfull", "partial"} = {}
    PROVE  receiver'.writer.open
<1>1. \A d : ~SkippedByPolicy(d, Head(toRecv).index, Policy)
  BY DEF SkippedByPolicy
<1>2. \E t : receiver' = [receiver EXCEPT !.recvIndex = Head(toRecv).index, !.fileGot = 0,
                                         !.writer = OpenedWriter(t)]
  BY <1>1 DEF OnFileStart
<1>3. QED BY <1>2 DEF OpenedWriter

\* The receiver fails on a packet of a file: behind it nothing revives it.
LEMMA EndFails ==
    ASSUME SessionInv, PartialInv, TurnInv, EndInv, NEW type, Takes(type),
           IsStream(Head(toRecv)), "send" \notin Controls, ~Linked',
           receiver'.status = "Failed", ~receiver'.asking
    PROVE  ReceiverEnds(sender', toRecv', receiver', Linked')
<1>1. /\ toRecv \in Seq(Message) /\ toRecv # <<>>
      /\ toRecv' \in Seq(Message) /\ Part(toRecv, toRecv') /\ sender' = sender
      /\ ReceiverEnds(sender, toRecv, receiver, Linked)
  BY EndTakes
<1>2. \A m \in Packets(toRecv') : ~Revives(m)
  BY <1>1, StreamIsLast, PacketsPart
<1>3. receiver'.status \in Final /\ receiver'.status \notin {"Completed", "Cancelled"}
  BY DEF Final
<1>4. ReceiverEnds(sender, toRecv', receiver', Linked')
  BY ONLY <1>1, <1>2, <1>3, ~receiver'.asking, ~Linked', "send" \notin Controls,
     ReceiverStops
<1>5. QED BY <1>1, <1>4

LEMMA EndFileStart ==
    ASSUME HoldsOut, SessionInv, PartialInv, TurnInv, EndInv, [Next]_vars, OnFileStart
    PROVE  EndInv'
<1> DEFINE i == Head(toRecv).index
           m == FileAck(i, FALSE)
<1>1. /\ Takes("FileStart") /\ i \in Files /\ ~receiver'.asking
      /\ \E d \in Closed(disk, receiver.writer) : Opened(d, i) \/ NotOpened(d, i)
  BY FileStartDoes
<1>2. /\ toRecv \in Seq(Message) /\ toSend \in Seq(Message) /\ ~Early
      /\ toRecv' \in Seq(Message) /\ Part(toRecv, toRecv')
      /\ Head(toRecv) \in Packets(toRecv) /\ Head(toRecv).type = "FileStart"
      /\ toRecv # <<>> /\ sender' = sender /\ (Linked' => Linked)
      /\ SenderEnds(sender, toRecv, toSend, receiver.asking, Linked)
      /\ ReceiverEnds(sender, toRecv, receiver, Linked)
      /\ \A x \in Packets(toSend) : TurnToSend(x) => NoStream(toRecv)
  BY <1>1, EndTakes
<1>3. IsStream(Head(toRecv)) /\ ~NoStream(toRecv)
  BY <1>2, PacketsAre DEF IsStream
<1>4. CASE \E d : Opened(d, i)
  <2>1. /\ receiver'.writer.open /\ toSend' = toSend
        /\ receiver'.status = receiver.status
    BY <1>4 DEF Opened, OpenedWriter
  <2>2. SenderEnds(sender', toRecv', toSend', receiver'.asking, Linked')
    BY <1>1, <2>1, EndRests
  <2>3. "send" \in Controls => ChunkIsTaken(sender, toRecv', receiver', Linked')
    BY <2>1 DEF ChunkIsTaken
  <2>4. ReceiverEnds(sender, toRecv', receiver', Linked')
    BY ONLY <1>1, <1>2, <2>1, <2>3, ReceiverRests
  <2>5. QED BY <1>2, <2>2, <2>4, EndLater
<1>5. CASE \E d : NotOpened(d, i)
  <2>1. /\ ~Linked' /\ receiver'.status = "Failed" /\ ~receiver'.writer.open
        /\ toSend' = Say(toSend, m)
    BY <1>5 DEF NotOpened, Up, Linked
  <2>2. "send" \notin Controls
    BY <2>1, FileOpens DEF HoldsOut
  <2>3. ReceiverEnds(sender', toRecv', receiver', Linked')
    BY <1>1, <1>3, <2>1, <2>2, EndFails
  <2>4. m \in Message /\ m.type = "FileAck" /\ ~m.ok /\ Refuses(m)
        /\ m.type # "TransferCancel"
    BY <1>1 DEF FileAck, Message, Refuses
  <2> HIDE DEF m
  <2>5. sender.status # "Completed" /\ \A x \in Packets(toSend) : ~TurnToSend(x)
    BY <1>2, <1>3 DEF SenderEnds, RefusalsFit
  <2>6. SenderEnds(sender, toRecv', Say(toSend, m), receiver'.asking, Linked')
    BY ONLY <1>1, <1>2, <2>1, <2>4, <2>5, SenderHears
  <2>7. QED BY <1>2, <2>1, <2>3, <2>6, EndLater
<1>6. QED BY <1>1, <1>4, <1>5

LEMMA EndChunk ==
    ASSUME HoldsOut, SessionInv, PartialInv, TurnInv, EndInv, [Next]_vars, OnFileDataChunk
    PROVE  EndInv'
<1> DEFINE m == Head(toRecv)
           w == receiver.writer
<1>1. /\ Takes("FileDataChunk") /\ toSend' = toSend /\ ~receiver'.asking
      /\ \/ ~w.has /\ UNCHANGED receiver
         \/ /\ w.has /\ w.open /\ receiver'.status = receiver.status
            /\ receiver'.writer = [w EXCEPT !.hashed = Append(@, m.data)]
         \/ /\ receiver'.writer = w /\ receiver'.status = "Failed" /\ ~Linked'
            /\ ~w.open \/ "write" \in Faults
  BY FileDataChunkDoes
<1>2. /\ toRecv \in Seq(Message) /\ toSend \in Seq(Message) /\ ~Early
      /\ toRecv' \in Seq(Message) /\ Part(toRecv, toRecv')
      /\ Head(toRecv) \in Packets(toRecv) /\ Head(toRecv).type = "FileDataChunk"
      /\ toRecv # <<>> /\ sender' = sender /\ (Linked' => Linked)
      /\ ReceiverEnds(sender, toRecv, receiver, Linked) /\ OneFile(toRecv)
      /\ "send" \in Controls => ChunkIsTaken(sender, toRecv, receiver, Linked)
  BY <1>1, EndTakes
<1>3. SenderEnds(sender', toRecv', toSend', receiver'.asking, Linked')
  BY <1>1, EndRests
<1>4. CASE receiver'.status = receiver.status /\ (w.open => receiver'.writer.open)
  <2>1. "send" \in Controls => ChunkIsTaken(sender, toRecv', receiver', Linked')
    BY <1>1, <1>2, <1>4, ChunkTaken
  <2>2. ReceiverEnds(sender, toRecv', receiver', Linked')
    BY ONLY <1>1, <1>2, <1>4, <2>1, ReceiverRests
  <2>3. QED BY <1>2, <1>3, <2>2, EndLater
<1>5. CASE receiver'.status = "Failed" /\ ~Linked' /\ (~w.open \/ "write" \in Faults)
  <2>1. "send" \notin Controls
    <3>1. SUFFICES ASSUME "send" \in Controls PROVE FALSE
      OBVIOUS
    <3>2. "write" \notin Faults
      BY <3>1 DEF HoldsOut
    <3>3. IsChunk(Head(toRecv)) /\ IsStream(Head(toRecv)) /\ ~IsStart(Head(toRecv))
      BY <1>2 DEF IsChunk, IsStream, IsStart
    <3>4. (\E x \in Packets(toRecv) : IsStart(x)) \/ w.open
      BY <1>2, <3>1, <3>3 DEF ChunkIsTaken
    <3>5. PICK k \in 1..Len(toRecv) : IsStart(toRecv[k])
      BY <1>5, <3>2, <3>4 DEF Packets
    <3>6. Head(toRecv) = toRecv[1] /\ 1 \in 1..Len(toRecv)
      BY <1>2, TailFacts
    <3>7. k # 1
      BY <3>3, <3>5, <3>6
    <3>8. 1 < k
      BY <3>7
    <3>9. QED BY <1>2, <3>3, <3>5, <3>6, <3>8 DEF OneFile
  <2>2. IsStream(Head(toRecv))
    BY <1>2 DEF IsStream
  <2>3. ReceiverEnds(sender', toRecv', receiver', Linked')
    BY <1>1, <1>5, <2>1, <2>2, EndFails
  <2>4. QED BY <1>2, <1>3, <2>3, EndLater
<1>6. w.open => [w EXCEPT !.hashed = Append(@, m.data)].open
  <2>1. w \in Writer
    BY DEF SessionInv, TypeOK, Receiver
  <2>2. QED BY <2>1 DEF Writer
<1>7. QED BY <1>1, <1>4, <1>5, <1>6

LEMMA EndFileEnd ==
    ASSUME SessionInv, PartialInv, TurnInv, EndInv, [Next]_vars, OnFileEnd
    PROVE  EndInv'
<1> DEFINE i == Head(toRecv).index
<1>1. /\ Takes("FileEnd") /\ i \in Files /\ toRecv' = Tail(toRecv) /\ ~receiver'.asking
      /\ receiver'.status = receiver.status
      /\ \/ UNCHANGED toSend
         \/ toSend' = Say(toSend, FileAck(i, TRUE))
         \/ toSend' = Say(toSend, FileAck(i, FALSE))
  BY FileEndDoes
<1>2. /\ toRecv \in Seq(Message) /\ toSend \in Seq(Message) /\ ~Early
      /\ toRecv' \in Seq(Message) /\ Part(toRecv, toRecv')
      /\ Head(toRecv) \in Packets(toRecv) /\ Head(toRecv).type = "FileEnd"
      /\ toRecv # <<>> /\ sender' = sender /\ (Linked' => Linked)
      /\ SenderEnds(sender, toRecv, toSend, receiver.asking, Linked)
      /\ ReceiverEnds(sender, toRecv, receiver, Linked) /\ OneFile(toRecv)
  BY <1>1, EndTakes
<1>3. IsStream(Head(toRecv)) /\ IsEnd(Head(toRecv)) /\ TurnToRecv(Head(toRecv))
  BY <1>2 DEF IsStream, IsEnd, TurnToRecv
<1>4. /\ sender.waiting /\ NoTurn(toRecv', toSend, receiver'.asking)
      /\ \A x \in Packets(toSend) : ~TurnToSend(x)
  <2>1. NoTurn(Tail(toRecv), toSend, FALSE) /\ TurnFits(Head(toRecv), sender, toRecv)
    BY <1>2, <1>3, TakeFromRecv DEF TurnInv
  <2>2. QED BY <1>1, <1>2, <2>1, PacketsAre DEF TurnFits
<1>5. sender.status # "Completed"
  BY <1>2, <1>3, PacketsAre DEF SenderEnds, RefusalsFit
<1>6. SenderEnds(sender, toRecv', toSend', receiver'.asking, Linked')
  <2>1. CASE UNCHANGED toSend
    BY <1>1, <1>2, <2>1, EndRests
  <2>2. CASE toSend' = Say(toSend, FileAck(i, TRUE))
    <3> DEFINE m == FileAck(i, TRUE)
    <3>1. m \in Message /\ m.type # "TransferCancel" /\ ~Refuses(m)
      BY <1>1 DEF FileAck, Message, Refuses
    <3> HIDE DEF m
    <3>2. SenderEnds(sender, toRecv', Say(toSend, m), receiver'.asking, Linked')
      <4>1. TurnToSend(m) \/ receiver'.asking =>
               receiver.asking \/ \E x \in Packets(toRecv) : TurnToRecv(x)
        BY <1>2, <1>3
      <4>2. QED BY ONLY <1>2, <3>1, <4>1, SenderHears
    <3>3. QED BY <2>2, <3>2 DEF m
  <2>3. CASE toSend' = Say(toSend, FileAck(i, FALSE))
    <3> DEFINE m == FileAck(i, FALSE)
    <3>1. m \in Message /\ m.type = "FileAck" /\ m.type # "TransferCancel" /\ Refuses(m)
      BY <1>1 DEF FileAck, Message, Refuses
    <3> HIDE DEF m
    <3>2. SenderEnds(sender, toRecv', Say(toSend, m), receiver'.asking, Linked')
      BY ONLY <1>1, <1>2, <1>4, <1>5, <3>1, SenderHears
    <3>3. QED BY <2>3, <3>2 DEF m
  <2>4. QED BY <1>1, <2>1, <2>2, <2>3
<1>7. ReceiverEnds(sender, toRecv', receiver', Linked')
  <2>1. NoStream(toRecv')
    <3>1. /\ Head(toRecv) = toRecv[1] /\ 1 \in 1..Len(toRecv)
          /\ Len(Tail(toRecv)) = Len(toRecv) - 1 /\ Len(toRecv) \in Nat
          /\ \A k \in 1..Len(Tail(toRecv)) : Tail(toRecv)[k] = toRecv[k + 1]
      BY <1>2, TailFacts
    <3>2. \A k \in 1..Len(Tail(toRecv)) : k + 1 \in 1..Len(toRecv) /\ k + 1 > 1
      BY <3>1
    <3>3. \A k \in 1..Len(Tail(toRecv)) : ~IsStream(Tail(toRecv)[k])
      BY <1>2, <1>3, <3>1, <3>2 DEF OneFile
    <3>4. QED BY <1>1, <3>3 DEF NoStream
  <2>2. ChunkIsTaken(sender, toRecv', receiver', Linked')
    BY <1>4, <2>1, ChunkNone
  <2>3. QED BY ONLY <1>1, <1>2, <2>2, ReceiverRests
<1>8. QED BY <1>2, <1>6, <1>7, EndLater

\* Packets that set the receiver's status.
LEMMA EndStatus ==
    ASSUME SessionInv, PartialInv, TurnInv, EndInv, [Next]_vars,
           OnReceiverPause \/ OnReceiverResume \/ OnReceiverCancel \/ OnTransferComplete
    PROVE  EndInv'
<1>1. receiver \in Receiver
  BY SenderHas
<1>2. ASSUME NEW type, ReceiverHandles(type), ConsumeOnly PROVE Takes(type)
  BY <1>2, TakesOf
<1>3. CASE OnReceiverPause \/ OnReceiverResume
  <2>1. PICK type \in {"TransferPause", "TransferResume"} : Takes(type)
    BY <1>2, <1>3 DEF OnReceiverPause, OnReceiverResume
  <2>2. /\ receiver'.status \in {"Paused", "Transferring"} /\ toSend' = toSend
        /\ receiver'.asking = receiver.asking /\ receiver'.writer = receiver.writer
    BY <1>1, <1>3 DEF OnReceiverPause, OnReceiverResume, WithStatus, Receiver
  <2>3. /\ toRecv \in Seq(Message) /\ toRecv' \in Seq(Message) /\ Part(toRecv, toRecv')
        /\ ~receiver.asking /\ sender' = sender /\ ~Early /\ (Linked' => Linked)
        /\ ReceiverEnds(sender, toRecv, receiver, Linked) /\ OneFile(toRecv)
        /\ "send" \in Controls => ChunkIsTaken(sender, toRecv, receiver, Linked)
    BY <2>1, EndTakes
  <2>4. SenderEnds(sender', toRecv', toSend', receiver'.asking, Linked')
    BY <2>1, <2>2, <2>3, EndRests
  <2>5. "send" \in Controls => ChunkIsTaken(sender, toRecv', receiver', Linked')
    BY <2>1, <2>2, <2>3, ChunkTaken
  <2>6. receiver'.status \notin Final
    BY <2>2 DEF Final
  <2>7. ReceiverEnds(sender, toRecv', receiver', Linked')
    BY ONLY <2>2, <2>3, <2>5, <2>6, ReceiverLives
  <2>8. QED BY <2>3, <2>4, <2>7, EndLater
<1>4. CASE OnReceiverCancel
  <2>1. Takes("TransferCancel")
    BY <1>2, <1>4 DEF OnReceiverCancel
  <2>2. QED BY <2>1, EndTakes DEF ReceiverEnds, Unbroken
<1>5. CASE OnTransferComplete
  <2>1. Takes("TransferComplete") /\ toRecv' = Tail(toRecv)
    BY <1>2, <1>5 DEF OnTransferComplete, ConsumeOnly
  <2>2. /\ receiver'.status = "Completed" /\ toSend' = toSend
        /\ receiver'.asking = receiver.asking /\ receiver'.writer = receiver.writer
    BY <1>1, <1>5 DEF OnTransferComplete, WithStatus, Receiver
  <2>3. /\ toRecv \in Seq(Message) /\ toRecv' \in Seq(Message) /\ Part(toRecv, toRecv')
        /\ toRecv # <<>> /\ Head(toRecv).type = "TransferComplete"
        /\ ~receiver.asking /\ sender' = sender /\ ~Early /\ (Linked' => Linked)
        /\ ReceiverEnds(sender, toRecv, receiver, Linked) /\ OneFile(toRecv)
        /\ SenderEnds(sender, toRecv, toSend, receiver.asking, Linked)
        /\ "send" \in Controls => ChunkIsTaken(sender, toRecv, receiver, Linked)
    BY <2>1, EndTakes
  <2>4. SenderEnds(sender', toRecv', toSend', receiver'.asking, Linked')
    BY <2>1, <2>2, <2>3, EndRests
  <2>5. "send" \in Controls => ChunkIsTaken(sender, toRecv', receiver', Linked')
    BY <2>1, <2>2, <2>3, ChunkTaken
  <2>6. toRecv' = <<>> /\ sender.status = "Completed"
    <3>1. /\ Head(toRecv) = toRecv[1] /\ 1 \in 1..Len(toRecv)
          /\ Len(Tail(toRecv)) = Len(toRecv) - 1
      BY <2>3, TailFacts
    <3>2. 1 = Len(toRecv) /\ sender.status = "Completed"
      <4>1. LastWord(sender, toRecv)
        BY <2>3 DEF SenderEnds
      <4>2. toRecv[1].type = "TransferComplete" /\ 1 \in 1..Len(toRecv)
        BY <2>3, <3>1
      <4>3. QED BY ONLY <4>1, <4>2 DEF LastWord
    <3>3. Len(toRecv') = 0
      BY <2>1, <3>1, <3>2
    <3>4. QED BY <2>3, <3>2, <3>3
  <2>7. receiver'.status \in Final /\ \A m \in Packets(toRecv') : ~Revives(m)
    BY <2>2, <2>6, PacketsOne DEF Final
  <2>8. ReceiverEnds(sender, toRecv', receiver', Linked')
    BY ONLY <2>2, <2>3, <2>5, <2>6, <2>7, ReceiverStops
  <2>9. QED BY <2>3, <2>4, <2>8, EndLater
<1>6. QED BY <1>3, <1>4, <1>5

LEMMA EndKept ==
    ASSUME Unforced, SessionInv, PartialInv, TurnInv, EndInv, [Next]_vars PROVE EndInv'
<1>1. /\ ~CancelSender /\ ~CancelReceiver /\ ~ReceiverCrashes
      /\ ~PauseReceiver /\ ~ResumeReceiver
  BY DEF Unforced, CancelSender, CancelReceiver, ReceiverCrashes, PauseReceiver, ResumeReceiver
<1>2. CASE SenderStep
  BY <1>2, EndSenderStep
<1>3. CASE ChunkLoop \/ ResumeSender \/ PauseSender
  BY <1>3, EndLoops DEF Unforced
<1>4. CASE ReceiverStep
  BY <1>4, EndHandshake, EndFileStart, EndChunk, EndFileEnd, EndStatus
     DEF ReceiverStep, Unforced
<1>5. CASE UserAccepts \/ UserRejects
  BY <1>5, EndAccepts, EndRejects
<1>6. CASE StartSend \/ ConnectFails \/ SocketConnected
  BY <1>6, EndConnects
<1>7. CASE CableCut \/ SenderLosesSocket \/ ReceiverLosesSocket
  BY <1>7, EndCut, EndLost
<1>8. CASE UNCHANGED vars
  <2>1. UNCHANGED <<sender, receiver, toRecv, toSend, sock, cut>>
    BY <1>8 DEF vars
  <2>2. Linked' = Linked /\ Early' = Early
    BY <2>1 DEF Linked, Early
  <2>3. QED BY <2>1, <2>2 DEF EndInv
<1>9. QED BY <1>1, <1>2, <1>3, <1>4, <1>5, <1>6, <1>7, <1>8
      DEF Next, UserStep, NetworkStep

LEMMA EndInit == ASSUME Init PROVE EndInv
<1>1. /\ toRecv = <<>> /\ toSend = <<>> /\ sender.status = "Idle" /\ receiver.status = "Idle"
      /\ ~receiver.asking /\ ~Linked
  BY DEF Init, NewReceiver, Linked, Sides
<1>2. Packets(toRecv) = {} /\ Packets(toSend) = {}
  BY <1>1, PacketsOne
<1>3. SenderEnds(sender, toRecv, toSend, receiver.asking, Linked)
  BY <1>1, <1>2, LastWordNone DEF SenderEnds, NoTurnLeft, RefusalsFit, Fresh, Final
<1>4. ReceiverEnds(sender, toRecv, receiver, Linked)
  BY <1>1, <1>2 DEF ReceiverEnds, EndedReceiver, Unbroken, ChunkIsTaken, Final
<1>5. QED BY <1>1, <1>3, <1>4 DEF EndInv

LEMMA EndInvHolds ==
    ASSUME Unforced PROVE Spec => []EndInv
<1>1. Init => EndInv
  BY EndInit
<1>2. SessionInv /\ PartialInv /\ TurnInv /\ EndInv /\ [Next]_vars => EndInv'
  BY EndKept
<1>3. Spec => []SessionInv
  BY SessionInvHolds DEF Unforced
<1>4. Spec => []TurnInv
  BY TurnInvHolds DEF Unforced
<1>5. Spec => []PartialInv
  BY PartialInvHolds DEF Unforced
<1>6. QED BY <1>1, <1>2, <1>3, <1>4, <1>5, PTL DEF Spec

-----------------------------------------------------------------------------
\* What a step does to a session that has ended.
LEMMA SenderStaysEnded ==
    ASSUME Unforced, SessionInv, PartialInv, TurnInv, EndInv, [Next]_vars,
           sender.status \in Final
    PROVE  sender'.status = sender.status
<1>1. /\ sender \in Sender /\ toSend \in Seq(Message)
      /\ SenderEnds(sender, toRecv, toSend, receiver.asking, Linked) /\ AnswersFit(toSend)
  BY SenderHas DEF EndInv, TurnInv, TurnOK
<1>2. \A m \in Packets(toSend) :
        /\ m.type \notin {"HandshakeResp", "TransferAccept", "TransferCancel",
                         "TransferPause", "TransferResume"}
        /\ m.type = "TransferReject" => sender.status = "Cancelled"
        /\ m.type = "FileAck" => ~m.ok /\ sender.status = "Failed"
  <2>1. \A m \in Packets(toSend) : m.type \notin {"TransferPause", "TransferResume"}
    BY <1>1 DEF AnswersFit, Packets
  <2>2. \A m \in Packets(toSend) : ~TurnToSend(m) /\ m.type # "TransferCancel"
    BY <1>1 DEF SenderEnds, NoTurnLeft
  <2>3. ASSUME NEW m \in Packets(toSend), m.type = "FileAck"
        PROVE  ~m.ok /\ sender.status = "Failed"
    BY <1>1, <2>2, <2>3 DEF SenderEnds, RefusalsFit, TurnToSend, Refuses, Final
  <2>4. ASSUME NEW m \in Packets(toSend), m.type = "TransferReject"
        PROVE  sender.status = "Cancelled"
    BY <1>1, <2>4 DEF SenderEnds, RefusalsFit, Final
  <2>5. \A m \in Packets(toSend) : m.type \notin {"HandshakeResp", "TransferAccept"}
    BY <2>2 DEF TurnToSend
  <2>6. QED BY <2>1, <2>2, <2>3, <2>4, <2>5
<1>3. ASSUME NEW type, SenderHandles(type)
      PROVE  /\ type \notin {"HandshakeResp", "TransferAccept", "TransferCancel",
                             "TransferPause", "TransferResume"}
             /\ type = "TransferReject" => sender.status = "Cancelled"
             /\ type = "FileAck" => ~Head(toSend).ok /\ sender.status = "Failed"
  <2>1. Head(toSend) \in Packets(toSend) /\ Head(toSend).type = type
    BY <1>1, <1>3, PacketsHead DEF SenderHandles, SenderGets
  <2>2. QED BY <1>2, <2>1
<1>4. CASE SenderStep
  <2>1. CASE OnTransferReject
    BY <1>1, <1>3, <2>1, WithStatusSender DEF OnTransferReject, Statuses
  <2>2. CASE OnFileAck
    BY <1>1, <1>3, <2>2, WithStatusSender DEF OnFileAck, Statuses
  <2>3. QED BY <1>3, <1>4, <2>1, <2>2 DEF SenderStep, OnHandshakeResp, OnTransferAccept,
        OnSenderPause, OnSenderResume, OnSenderCancel
<1>5. CASE \/ ChunkLoop \/ ResumeSender \/ PauseSender \/ StartSend \/ CancelSender
           \/ ConnectFails \/ SocketConnected \/ SenderLosesSocket
  <2>1. sender.status \notin {"Transferring", "Paused", "Idle", "Connecting"}
    BY DEF Final
  <2>2. ~ChunkLoop /\ ~ResumeSender /\ ~PauseSender /\ ~StartSend /\ ~CancelSender
    BY <2>1 DEF ChunkLoop, MaySend, ResumeSender, PauseSender, StartSend, CancelSender, Unforced
  <2>3. ~ConnectFails /\ ~SocketConnected
    BY <2>1 DEF ConnectFails, SocketConnected, SessionInv, EarlyOK, Early
  <2>4. SenderLosesSocket => sender' = sender
    BY <2>1, LossLeaves DEF SenderLosesSocket
  <2>5. QED BY <1>5, <2>2, <2>3, <2>4
<1>6. CASE ReceiverStep
  BY <1>6 DEF ReceiverStep, ReceiverHandles, OnHandshakeReq, OnTransferOffer, OnFileStart,
     OnFileDataChunk, OnFileEnd, OnReceiverPause, OnReceiverResume, OnReceiverCancel,
     OnTransferComplete
<1>7. CASE \/ UserAccepts \/ UserRejects \/ PauseReceiver \/ ResumeReceiver
           \/ CancelReceiver \/ CableCut \/ ReceiverLosesSocket \/ ReceiverCrashes
           \/ UNCHANGED vars
  BY <1>7 DEF UserAccepts, UserRejects, PauseReceiver, ResumeReceiver, CancelReceiver,
     CableCut, ReceiverLosesSocket, ReceiverCrashes, vars
<1>8. QED BY <1>4, <1>5, <1>6, <1>7 DEF Next, UserStep, NetworkStep

LEMMA ReceiverStaysEnded ==
    ASSUME Unforced, SessionInv, PartialInv, TurnInv, EndInv, [Next]_vars,
           receiver.status \in Final
    PROVE  receiver'.status = receiver.status
<1>1. /\ receiver \in Receiver /\ toRecv \in Seq(Message)
      /\ EndedReceiver(sender, toRecv, receiver, Linked)
  BY SenderHas DEF EndInv, ReceiverEnds
<1>2. /\ ~receiver.asking
      /\ \A m \in Packets(toRecv) : ~Revives(m)
      /\ toRecv # <<>> => receiver.status = "Failed"
  BY <1>1 DEF EndedReceiver, Final
<1>3. ASSUME NEW type, ReceiverHandles(type)
      PROVE  /\ toRecv # <<>> /\ receiver.status = "Failed"
             /\ type \notin {"HandshakeReq", "TransferOffer", "TransferPause",
                             "TransferResume", "TransferCancel", "TransferComplete"}
  BY <1>1, <1>2, <1>3, PacketsHead DEF ReceiverHandles, ReceiverGets, Revives, IsControl
<1>4. CASE ReceiverStep
  <2>1. CASE OnFileStart
    <3>1. receiver.status = "Failed"
      BY <1>3, <2>1 DEF OnFileStart
    <3>2. QED BY <2>1, <3>1, FileStartDoes DEF Opened, NotOpened
  <2>2. CASE OnFileDataChunk
    <3>1. receiver.status = "Failed"
      BY <1>3, <2>2 DEF OnFileDataChunk
    <3>2. QED BY <2>2, <3>1, FileDataChunkDoes
  <2>3. CASE OnFileEnd
    BY <2>3, FileEndDoes
  <2>4. QED BY <1>3, <1>4, <2>1, <2>2, <2>3 DEF ReceiverStep, OnHandshakeReq,
        OnTransferOffer, OnReceiverPause, OnReceiverResume, OnReceiverCancel,
        OnTransferComplete
<1>5. CASE \/ UserAccepts \/ UserRejects \/ PauseReceiver \/ ResumeReceiver
           \/ CancelReceiver \/ ReceiverCrashes
  BY <1>2, <1>5 DEF Unforced, UserAccepts, UserRejects, PauseReceiver, ResumeReceiver,
     CancelReceiver, ReceiverCrashes
<1>6. CASE ReceiverLosesSocket
  <2>1. receiver.status # "Transferring"
    BY DEF Final
  <2>2. QED BY <1>6, <2>1, LossLeaves DEF ReceiverLosesSocket
<1>7. CASE SocketConnected
  <2>1. receiver.status = "Idle"
    BY <1>7 DEF SocketConnected, EndInv, Early
  <2>2. QED BY <2>1 DEF Final
<1>8. CASE \/ SenderStep \/ ChunkLoop \/ StartSend \/ PauseSender \/ ResumeSender
           \/ CancelSender \/ ConnectFails \/ CableCut \/ SenderLosesSocket
           \/ UNCHANGED vars
  BY <1>8 DEF SenderStep, SenderHandles, OnHandshakeResp, OnTransferAccept,
     OnTransferReject, OnFileAck, OnSenderPause, OnSenderResume, OnSenderCancel, ChunkLoop,
     StartSend, PauseSender, ResumeSender, CancelSender, ConnectFails, CableCut,
     SenderLosesSocket, vars
<1>9. QED BY <1>4, <1>5, <1>6, <1>7, <1>8 DEF Next, UserStep, NetworkStep

\* A session that has ended stays as it ended: nobody calls the transfer off,
\* dies or pauses at the receiver, and either the sending user has no Pause
\* button or the receiver cannot fail with packets behind the failure.  The
\* handlers set the status whatever it was (TransferSession.cpp:278-345,
\* 470-525), so what keeps the end is that no packet that sets it is under way.
THEOREM EndedStaysEnded ==
    ASSUME HoldsOut, Cancellers = {}, "crash" \notin Faults, "recv" \notin Controls,
           NoTrailingHole, ByButton = TRUE
    PROVE  Spec => EndsOnce
<1>1. Unforced
  BY DEF Unforced
<1>2. SessionInv /\ PartialInv /\ TurnInv /\ EndInv /\ [Next]_vars =>
         [/\ sender.status \in Final => sender'.status = sender.status
          /\ receiver.status \in Final => receiver'.status = receiver.status]_vars
  BY <1>1, SenderStaysEnded, ReceiverStaysEnded
<1>3. QED BY <1>1, <1>2, SessionInvHolds, TurnInvHolds, PartialInvHolds, EndInvHolds, PTL
      DEF Spec, EndsOnce
=============================================================================
