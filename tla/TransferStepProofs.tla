------------------------- MODULE TransferStepProofs -------------------------
(***************************************************************************)
(* What a step of a transfer may do to the sessions, to the packets under  *)
(* way and to the disk, summed up for the proofs that follow.  Most steps  *)
(* are Quiet: nothing of the transfer itself moves.  The others are the    *)
(* turns of the handshake, the sender's chunk loop and the start of a      *)
(* file, and the handlers that write.                                      *)
(***************************************************************************)
EXTENDS TransferDeliveryInv, TransferSessionProofs

-----------------------------------------------------------------------------
(* Queues.                                                                 *)

Say(q, m) == IF Linked THEN Append(q, m) ELSE q

\* A first part of a queue; any contiguous part of it.
Cut(q, v) == \E k \in 0..Len(q) : v = SubSeq(q, 1, k)
Part(u, v) ==
    \E a \in Nat : /\ Len(v) + a <= Len(u)
                   /\ \A k \in 1..Len(v) : v[k] = u[k + a]

LEMMA CutFacts ==
    ASSUME NEW q \in Seq(Message), NEW v, Cut(q, v)
    PROVE  /\ v \in Seq(Message) /\ Len(v) <= Len(q)
           /\ \A k \in 1..Len(v) : v[k] = q[k]
BY PrefixFacts DEF Cut

LEMMA CutIsPart ==
    ASSUME NEW q \in Seq(Message), NEW v, Cut(q, v) PROVE Part(q, v)
<1>1. v \in Seq(Message) /\ Len(v) <= Len(q) /\ \A k \in 1..Len(v) : v[k] = q[k]
  BY CutFacts
<1>2. Len(v) \in Nat /\ Len(v) + 0 = Len(v) /\ \A k \in 1..Len(v) : k + 0 = k
  BY <1>1
<1> DEFINE a == 0
<1>3. a \in Nat /\ Len(v) + a <= Len(q) /\ \A k \in 1..Len(v) : v[k] = q[k + a]
  BY <1>1, <1>2
<1> HIDE DEF a
<1>4. QED BY <1>3 DEF Part

LEMMA CutAll ==
    ASSUME NEW q \in Seq(Message) PROVE Cut(q, q) /\ Cut(q, <<>>)
<1>1. Len(q) \in 0..Len(q) /\ 0 \in 0..Len(q)
  OBVIOUS
<1>2. SubSeq(q, 1, Len(q)) = q /\ SubSeq(q, 1, 0) = <<>>
  OBVIOUS
<1>3. QED BY <1>1, <1>2 DEF Cut

LEMMA TailIsPart ==
    ASSUME NEW q \in Seq(Message), q # <<>> PROVE Part(q, Tail(q))
<1>1. Len(Tail(q)) + 1 <= Len(q) /\ \A k \in 1..Len(Tail(q)) : Tail(q)[k] = q[k + 1]
  BY TailFacts
<1>2. QED BY <1>1 DEF Part

LEMMA AppendAny ==
    ASSUME NEW q \in Seq(Message), NEW m
    PROVE  /\ Len(Append(q, m)) = Len(q) + 1 /\ Len(q) \in Nat
           /\ \A p \in 1..Len(q) : Append(q, m)[p] = q[p]
           /\ Append(q, m)[Len(q) + 1] = m
<1> DEFINE S == Message \cup {m}
<1>1. m \in S /\ q \in Seq(S)
  OBVIOUS
<1> HIDE DEF S
<1>2. QED BY <1>1, AppendFacts

\* What a part of a queue holds the queue holds, in that order.
LEMMA PartFacts ==
    ASSUME NEW u \in Seq(Message), NEW v \in Seq(Message), Part(u, v)
    PROVE  \E a \in Nat :
              \A k \in 1..Len(v) : k + a \in 1..Len(u) /\ v[k] = u[k + a]
<1>1. PICK a \in Nat : /\ Len(v) + a <= Len(u)
                       /\ \A k \in 1..Len(v) : v[k] = u[k + a]
  BY DEF Part
<1>2. \A k \in 1..Len(v) : k + a \in 1..Len(u)
  BY <1>1
<1>3. QED BY <1>1, <1>2

-----------------------------------------------------------------------------
(* The sending session.                                                    *)

\* A step that leaves file, reader and metrics where they are.
Kept(s, t) ==
    /\ t.cur = s.cur /\ t.waiting = s.waiting /\ t.total = s.total
    /\ t.reader.has = s.reader.has
    /\ t.reader.open => s.reader.open /\ (Linked => t.reader.off = s.reader.off)
    /\ t.status \in {"Completed"} \cup Opening =>
          t.status = s.status \/ {s.status, t.status} \subseteq Opening

\* One turn of the chunk loop, from session s and queue q to t and v.
LoopEnds(s, q, t, v) ==
    /\ s.reader.has /\ s.reader.open /\ ~s.waiting /\ s.status = "Transferring"
    /\ t.cur = s.cur /\ t.waiting /\ t.total = s.total /\ t.status = s.status
    /\ t.reader = s.reader
    /\ v = Say(q, FileEnd(s.cur, s.reader.hashed))

LoopReads(s, q, t, v) ==
    /\ s.reader.has /\ s.reader.open /\ ~s.waiting /\ s.status = "Transferring"
    /\ s.reader.off < s.reader.size
    /\ t.cur = s.cur /\ ~t.waiting /\ t.total = s.total + 1 /\ t.status = s.status
    /\ t.reader = ReadNextChunk(s.reader)
    /\ v = Say(q, FileDataChunk(s.cur, s.reader.off, NextBlock(s.reader)))

LoopTurn(s, q, t, v) ==
    \/ Kept(s, t) /\ v = q
    \/ LoopEnds(s, q, t, v)
    \/ LoopReads(s, q, t, v)

\* The sender begins file i at off: the session and the queue before the first
\* turn of the chunk loop.
Started(s, i, off) ==
    [s EXCEPT !.cur = i, !.fileSent = off, !.waiting = FALSE,
              !.reader = OpenReader(i, off)]

\* Starting file i, or ending the transfer when there is none.
Starts(s, i, off) ==
    \/ /\ i \in Files
       /\ LoopTurn(Started(s, i, off), Say(toRecv, FileStart(i)), sender', toRecv')
    \/ /\ i \in Files
       /\ sender'.cur = i /\ sender'.waiting = s.waiting /\ sender'.total = s.total
       /\ sender'.status = "Failed" /\ sender'.reader.has /\ ~sender'.reader.open
       /\ toRecv' = toRecv
    \/ /\ i > NumFiles
       /\ sender'.cur = s.cur /\ sender'.waiting = s.waiting
       /\ sender'.status = "Completed" /\ sender'.reader = s.reader
       /\ toRecv' = Say(toRecv, Signal("TransferComplete"))

LEMMA LoopTurnOf ==
    ASSUME NEW s \in Sender, ReaderOK(s), NEW sent \in Seq(Message), NEW q,
           q = IF Linked THEN toRecv \o sent ELSE toRecv,
           toRecv \in Seq(Message), SendNextChunk(s, sent)
    PROVE  LoopTurn(s, q, sender', toRecv')
<1> DEFINE r == s.reader
           S(m) == toRecv' = Say(q, m)
<1>1. ASSUME NEW m \in Message, SendToReceiver(Append(sent, m)) PROVE S(m)
  <2>1. toRecv \o Append(sent, m) = Append(toRecv \o sent, m)
    BY ConcatAppend
  <2>2. QED BY <1>1, <2>1 DEF SendToReceiver, Say
<1>2. SendToReceiver(sent) => toRecv' = q
  BY DEF SendToReceiver
<1>3. MaySend(s) => /\ s.status = "Transferring" /\ ~s.waiting /\ r.has
                    /\ ReaderOn(r, s.cur) /\ s.cur \in Files
  BY ReaderOKOn DEF MaySend
<1> HIDE DEF S
<1>4. CASE sender' = s /\ SendToReceiver(sent)
  BY <1>2, <1>4 DEF LoopTurn, Kept
<1>5. CASE /\ MaySend(s) /\ IsAtEnd(r)
           /\ sender' = [s EXCEPT !.waiting = TRUE]
           /\ SendToReceiver(Append(sent, FileEnd(s.cur, r.hashed)))
  <2>1. FileEnd(s.cur, r.hashed) \in Message
    BY <1>3, <1>5 DEF FileEnd, Message, ReaderOn, Reader
  <2>2. S(FileEnd(s.cur, r.hashed))
    BY <1>1, <1>5, <2>1
  <2>3. /\ sender'.cur = s.cur /\ sender'.waiting /\ sender'.total = s.total
        /\ sender'.status = s.status /\ sender'.reader = s.reader
    BY <1>5 DEF Sender
  <2>4. LoopEnds(s, q, sender', toRecv')
    BY <1>3, <1>5, <2>2, <2>3 DEF LoopEnds, ReaderOn, S
  <2>5. QED BY <2>4 DEF LoopTurn
<1>6. CASE /\ MaySend(s) /\ ~IsAtEnd(r) /\ sock["send"] = "open"
           /\ sender' = [s EXCEPT !.reader = ReadNextChunk(@),
                                  !.fileSent = @ + 1, !.total = @ + 1]
           /\ SendToReceiver(Append(sent, FileDataChunk(s.cur, r.off, NextBlock(r))))
  <2>1. /\ NextBlock(r) \in Block /\ r.off \in Nat
    BY <1>3, <1>6, ReadFacts
  <2>2. FileDataChunk(s.cur, r.off, NextBlock(r)) \in Message
    BY <1>3, <1>6, <2>1 DEF FileDataChunk, Message
  <2>3. S(FileDataChunk(s.cur, r.off, NextBlock(r)))
    BY <1>1, <1>6, <2>2
  <2>4. /\ sender'.cur = s.cur /\ sender'.waiting = s.waiting
        /\ sender'.total = s.total + 1
        /\ sender'.status = s.status /\ sender'.reader = ReadNextChunk(s.reader)
    BY <1>6 DEF Sender
  <2>5. r.off < r.size
    BY <1>3, <1>6 DEF IsAtEnd, ReaderOn, Reader
  <2>6. LoopReads(s, q, sender', toRecv')
    BY <1>3, <1>6, <2>3, <2>4, <2>5 DEF LoopReads, ReaderOn, S
  <2>7. QED BY <2>6 DEF LoopTurn
<1>7. CASE /\ MaySend(s) /\ ~IsAtEnd(r)
           /\ \E x \in {r, ReadNextChunk(r)} :
                 ChunkFails(s, x) /\ sender' = [WithStatus(s, "Failed") EXCEPT !.reader = x]
           /\ SendToReceiver(sent)
  <2>1. PICK x \in {r, ReadNextChunk(r)} :
           ChunkFails(s, x) /\ sender' = [WithStatus(s, "Failed") EXCEPT !.reader = x]
    BY <1>7
  <2>2. ReaderOn(r, s.cur) /\ ReaderOn(ReadNextChunk(r), s.cur)
    BY <1>3, <1>7, ReadFacts
  <2>3. x.has /\ x.open /\ r.has /\ r.open
    BY <2>1, <2>2 DEF ReaderOn
  <2>4. Linked => x.off = r.off
    BY <2>1 DEF ChunkFails, Linked
  <2>5. /\ sender'.cur = s.cur /\ sender'.waiting = s.waiting
        /\ sender'.total = s.total /\ sender'.status = "Failed" /\ sender'.reader = x
    BY <2>1 DEF WithStatus, Sender
  <2>6. Kept(s, sender')
    BY <2>3, <2>4, <2>5 DEF Kept, Opening
  <2>7. QED BY <1>2, <1>7, <2>6 DEF LoopTurn
<1>8. QED BY <1>4, <1>5, <1>6, <1>7 DEF SendNextChunk

LEMMA StartedFacts ==
    ASSUME NEW s \in Sender, NEW i \in Files, NEW off \in Nat
    PROVE  /\ Started(s, i, off) \in Sender /\ ReaderOK(Started(s, i, off))
           /\ ReaderOn(Started(s, i, off).reader, i)
           /\ Started(s, i, off).cur = i /\ ~Started(s, i, off).waiting
           /\ Started(s, i, off).status = s.status
           /\ Started(s, i, off).total = s.total
           /\ Started(s, i, off).reader = OpenReader(i, off)
           /\ OpenReader(i, off).has /\ OpenReader(i, off).open
           /\ off = 0 => OpenReader(i, off).off = 0
<1>1. ReaderOn(OpenReader(i, off), i)
  BY OpenReaderFacts
<1>2. /\ Started(s, i, off) \in Sender /\ Started(s, i, off).cur = i
      /\ ~Started(s, i, off).waiting /\ Started(s, i, off).status = s.status
      /\ Started(s, i, off).total = s.total
      /\ Started(s, i, off).reader = OpenReader(i, off)
  BY <1>1 DEF Started, Sender, ReaderOn
<1>3. off = 0 => OpenReader(i, off).off = 0
  BY DEF OpenReader
<1>4. QED BY <1>1, <1>2, <1>3 DEF ReaderOK, ReadsCurrent, MustRead, ReaderOn

LEMMA StartsOf ==
    ASSUME NEW s \in Sender, NEW i \in Nat \ {0}, NEW off \in Nat,
           toRecv \in Seq(Message), StartSendingFile(s, i, off)
    PROVE  Starts(s, i, off)
<1>1. i > NumFiles \/ i \in Files
  BY SizesAssumption DEF Files
<1>2. CASE /\ i > NumFiles
           /\ sender' = [WithStatus(s, "Completed") EXCEPT
                            !.total = TotalSize, !.fileSent = ManifestSize[s.cur]]
           /\ SendToReceiver(<<Signal("TransferComplete")>>)
  <2>1. Signal("TransferComplete") \in Message
    BY DEF Signal, Message, Signals
  <2>2. toRecv' = Say(toRecv, Signal("TransferComplete"))
    BY <1>2, <2>1, ConcatOne DEF SendToReceiver, Say
  <2>3. /\ sender'.cur = s.cur /\ sender'.waiting = s.waiting
        /\ sender'.status = "Completed" /\ sender'.reader = s.reader
    BY <1>2 DEF WithStatus, Sender
  <2>4. QED BY <1>2, <2>2, <2>3 DEF Starts
<1>3. CASE /\ i <= NumFiles
           /\ SendNextChunk(Started(s, i, off), <<FileStart(i)>>)
  <2>1. i \in Files
    BY <1>1, <1>3, SizesAssumption DEF Files
  <2>2. Started(s, i, off) \in Sender /\ ReaderOK(Started(s, i, off))
    BY <2>1, StartedFacts
  <2>3. FileStart(i) \in Message /\ <<FileStart(i)>> \in Seq(Message)
    BY <2>1 DEF FileStart, Message
  <2>4. Say(toRecv, FileStart(i)) = IF Linked THEN toRecv \o <<FileStart(i)>> ELSE toRecv
    BY <2>3, ConcatOne DEF Say
  <2>5. LoopTurn(Started(s, i, off), Say(toRecv, FileStart(i)), sender', toRecv')
    BY <1>3, <2>2, <2>3, <2>4, LoopTurnOf
  <2>6. QED BY <2>1, <2>5 DEF Starts
<1>4. CASE /\ i <= NumFiles
           /\ \E r \in OpenFailures(i, off) :
                 sender' = [WithStatus(s, "Failed") EXCEPT
                                !.cur = i, !.fileSent = off, !.reader = r]
           /\ SendToReceiver(<<>>)
  <2>1. i \in Files
    BY <1>1, <1>4, SizesAssumption DEF Files
  <2>2. PICK r \in OpenFailures(i, off) :
               sender' = [WithStatus(s, "Failed") EXCEPT
                              !.cur = i, !.fileSent = off, !.reader = r]
    BY <1>4
  <2>3. r.has /\ ~r.open
    BY DEF OpenFailures, NewReader, NoReader
  <2>4. toRecv' = toRecv
    BY <1>4, ConcatNone DEF SendToReceiver
  <2>5. /\ sender'.cur = i /\ sender'.waiting = s.waiting
        /\ sender'.total = s.total /\ sender'.status = "Failed" /\ sender'.reader = r
    BY <2>2 DEF WithStatus, Sender
  <2>6. QED BY <2>1, <2>3, <2>4, <2>5 DEF Starts
<1>5. QED BY <1>2, <1>3, <1>4 DEF StartSendingFile, Started

-----------------------------------------------------------------------------
(* Quiet steps.                                                            *)

KeptR(r, v) ==
    /\ v.writer.has = r.writer.has /\ v.writer.target = r.writer.target
    /\ v.writer.partial = r.writer.partial /\ v.writer.hashed = r.writer.hashed
    /\ v.writer.open => r.writer.open
    /\ v.recvIndex = r.recvIndex /\ v.total = r.total
    /\ v.asking => r.asking
    /\ v.status = "Completed" => r.status = "Completed"

\* The packets to the receiver are as they were, cut short with the link,
\* without one that concerns the status only, or with one more of these.  Who
\* calls the transfer off closes the link.
QuietToRecv ==
    \/ Cut(toRecv, toRecv') /\ (Linked' => toRecv' = toRecv)
    \/ /\ toRecv # <<>> /\ toRecv' = Tail(toRecv)
       /\ Head(toRecv).type \in {"TransferPause", "TransferResume", "TransferCancel"}
    \/ \E m \in Message : /\ m.type \in {"TransferPause", "TransferCancel"}
                          /\ IsCall(m) => ~Linked'
                          /\ toRecv' = Append(toRecv, m)

QuietToSend ==
    \/ Part(toSend, toSend')
    \/ \E m \in Message :
          /\ \/ m.type \in {"TransferCancel", "TransferReject"}
             \/ "recv" \in Controls /\ m.type \in {"TransferPause", "TransferResume"}
          /\ IsCall(m) => ~Linked'
          /\ toSend' = Append(toSend, m)

\* The disk is left alone, or the writer is closed and its buffer may be lost.
QuietDisk ==
    \/ UNCHANGED disk
    \/ ~receiver'.writer.open /\ disk' \in Closed(disk, receiver.writer)

\* Nothing of the transfer itself moves: a status, a loss, a lost packet.
Quiet ==
    /\ Kept(sender, sender') /\ KeptR(receiver, receiver')
    /\ QuietDisk /\ (Linked' => Linked) /\ (Up' => Up)
    /\ QuietToRecv /\ QuietToSend

\* A packet handler of the sender begins a file, or ends the transfer.
SenderStarts ==
    /\ UNCHANGED <<receiver, disk, sock, cut>>
    /\ toSend # <<>> /\ toSend' = Tail(toSend) /\ Head(toSend) \in Message
    /\ \E s \in Sender, i \in Nat \ {0}, off \in Nat :
          /\ Kept(sender, s) /\ s.status \notin Opening /\ Starts(s, i, off)
          /\ \/ /\ Head(toSend).type \in {"TransferAccept", "TransferResume"}
                /\ i = Head(toSend).index /\ off = Head(toSend).offset
                /\ i \in Files
             \/ /\ Head(toSend).type = "FileAck" /\ Head(toSend).ok
                /\ i = sender.cur + 1 /\ off = 0 /\ ~s.reader.open

\* The chunk loop takes a turn, of its own or after a resume.
SenderLoops ==
    /\ UNCHANGED <<receiver, disk, sock, cut, toSend>>
    /\ \E s \in Sender, q \in Seq(Message) :
          /\ Kept(sender, s) /\ s.reader = sender.reader
          /\ \/ q = toRecv
             \/ \E m \in Message : m.type = "TransferResume" /\ q = Say(toRecv, m)
          /\ LoopTurn(s, q, sender', toRecv')

LEMMA SenderKept ==
    ASSUME NEW s \in Sender, NEW st \in Statuses \ ({"Completed"} \cup Opening)
    PROVE  /\ Kept(s, WithStatus(s, st))
           /\ Kept(s, [WithStatus(s, st) EXCEPT !.reader = CloseReader(@)])
BY DEF WithStatus, Kept, CloseReader, Sender, Reader

LEMMA ReceiverKept ==
    ASSUME NEW r \in Receiver, NEW st \in Statuses \ {"Completed"}
    PROVE  /\ KeptR(r, WithStatus(r, st))
           /\ KeptR(r, [WithStatus(r, st) EXCEPT !.asking = FALSE])
           /\ KeptR(r, [WithStatus(r, st) EXCEPT !.writer = CloseWriter(@)])
BY DEF WithStatus, KeptR, CloseWriter, Receiver, Writer

LEMMA KeptSame ==
    ASSUME NEW s, NEW r PROVE Kept(s, s) /\ KeptR(r, r)
BY DEF Kept, KeptR

LEMMA Closing ==
    ASSUME NEW p \in Sides, sock \in [Sides -> SockStates], Close(p), cut' = cut
    PROVE  ~Linked' /\ (Up' => Up)
BY DEF Close, Linked, Up, Sides, SockStates

\* What a handler of the sender starts from.
LEMMA SenderHas ==
    ASSUME SessionInv
    PROVE  /\ sender \in Sender /\ toRecv \in Seq(Message) /\ toSend \in Seq(Message)
           /\ sock \in [Sides -> SockStates] /\ receiver \in Receiver
           /\ Cut(toRecv, toRecv) /\ Part(toSend, toSend) /\ Part(toSend, <<>>)
           /\ Cut(toRecv, <<>>)
           /\ toSend # <<>> => Part(toSend, Tail(toSend))
<1>1. /\ sender \in Sender /\ toRecv \in Seq(Message) /\ toSend \in Seq(Message)
      /\ sock \in [Sides -> SockStates] /\ receiver \in Receiver
  BY DEF SessionInv, TypeOK
<1>2. QED BY <1>1, CutAll, CutIsPart, TailIsPart

LEMMA SenderStepCases ==
    ASSUME SessionInv, SenderStep
    PROVE  Quiet \/ OnHandshakeResp \/ SenderStarts
<1>1. /\ sender \in Sender /\ toRecv \in Seq(Message) /\ toSend \in Seq(Message)
      /\ receiver \in Receiver /\ Cut(toRecv, toRecv)
      /\ toSend # <<>> => Part(toSend, Tail(toSend))
  BY SenderHas
<1>2. ASSUME NEW type, SenderHandles(type)
      PROVE  /\ UNCHANGED <<receiver, disk, sock, cut>> /\ Linked' = Linked /\ Up' = Up
             /\ toSend # <<>> /\ toSend' = Tail(toSend) /\ Head(toSend) \in Message
             /\ Head(toSend).type = type
             /\ type \notin {"HandshakeResp", "TransferCancel"} =>
                   sender.status \notin Opening
             /\ KeptR(receiver, receiver')
  BY <1>2, SenderTakes, KeptSame DEF SenderHandles, SenderGets, Linked, Up
<1>3. ASSUME NEW type, SenderHandles(type), UNCHANGED toRecv, Kept(sender, sender')
      PROVE  Quiet
  BY <1>1, <1>2, <1>3 DEF Quiet, QuietDisk, QuietToRecv, QuietToSend
<1>4. CASE OnTransferReject \/ OnSenderPause \/ OnSenderCancel
  <2>1. Kept(sender, sender') /\ UNCHANGED toRecv
    BY <1>1, <1>4, SenderKept
       DEF OnTransferReject, OnSenderPause, OnSenderCancel, Statuses, Opening
  <2>2. QED BY <1>3, <1>4, <2>1 DEF OnTransferReject, OnSenderPause, OnSenderCancel
<1>5. ASSUME NEW type \in {"TransferAccept", "TransferResume"}, SenderHandles(type),
             StartSendingFile(WithStatus(sender, "Transferring"),
                              Head(toSend).index, Head(toSend).offset)
      PROVE  SenderStarts
  <2> DEFINE s == WithStatus(sender, "Transferring")
  <2>1. /\ Head(toSend).index \in Files /\ Head(toSend).index \in Nat \ {0}
        /\ Head(toSend).offset \in Nat
    BY <1>2, <1>5, IndexedPacket
  <2>2. s \in Sender /\ s.status = "Transferring" /\ Kept(sender, s)
    BY <1>1, WithStatusSender, SenderKept DEF Statuses, Opening
  <2> HIDE DEF s
  <2>3. StartSendingFile(s, Head(toSend).index, Head(toSend).offset)
    BY <1>5 DEF s
  <2>4. Starts(s, Head(toSend).index, Head(toSend).offset)
    BY <1>1, <2>1, <2>2, <2>3, StartsOf
  <2>5. s.status \notin Opening
    BY <2>2 DEF Opening
  <2>6. Head(toSend).type \in {"TransferAccept", "TransferResume"}
    BY <1>2, <1>5
  <2>7. QED BY <1>2, <1>5, <2>1, <2>2, <2>4, <2>5, <2>6 DEF SenderStarts
<1>6. CASE OnFileAck
  <2>1. SenderHandles("FileAck")
    BY <1>6 DEF OnFileAck
  <2>2. CASE /\ Head(toSend).ok
             /\ StartSendingFile([sender EXCEPT !.reader = CloseReader(@)],
                                 sender.cur + 1, 0)
    <3> DEFINE s == [sender EXCEPT !.reader = CloseReader(@)]
    <3>1. CloseReader(sender.reader) \in Reader /\ ~CloseReader(sender.reader).open
      BY <1>1, CloseReaderFacts DEF Sender
    <3>2. s \in Sender /\ s.status = sender.status /\ ~s.reader.open /\ Kept(sender, s)
      BY <1>1, <3>1 DEF Sender, Kept, CloseReader, Reader
    <3> HIDE DEF s
    <3>3. sender.cur + 1 \in Nat \ {0} /\ 0 \in Nat
      <4>1. sender.cur \in Files
        BY <1>1 DEF Sender
      <4>2. QED BY <4>1, SizesAssumption DEF Files
    <3>4. Starts(s, sender.cur + 1, 0)
      BY <1>1, <2>2, <3>2, <3>3, StartsOf DEF s
    <3>5. s.status \notin Opening
      BY <1>2, <2>1, <3>2
    <3>6. QED BY <1>2, <2>1, <2>2, <3>2, <3>3, <3>4, <3>5 DEF SenderStarts
  <2>3. CASE sender' = WithStatus(sender, "Failed") /\ UNCHANGED toRecv
    <3>1. Kept(sender, sender')
      BY <1>1, <2>3, SenderKept DEF Statuses, Opening
    <3>2. QED BY <1>3, <2>1, <2>3, <3>1
  <2>4. QED BY <1>6, <2>2, <2>3 DEF OnFileAck
<1>7. CASE OnTransferAccept \/ OnSenderResume
  BY <1>5, <1>7 DEF OnTransferAccept, OnSenderResume
<1>8. QED BY <1>4, <1>6, <1>7 DEF SenderStep

LEMMA LoopCases ==
    ASSUME ByButton = TRUE, SessionInv, ChunkLoop \/ ResumeSender
    PROVE  SenderLoops
<1>1. sender \in Sender /\ toRecv \in Seq(Message) /\ ReaderOK(sender)
  BY SenderKnows
<1>2. CASE ChunkLoop
  <2>1. <<>> \in Seq(Message) /\ toRecv = IF Linked THEN toRecv \o <<>> ELSE toRecv
    BY <1>1, ConcatNone
  <2>2. LoopTurn(sender, toRecv, sender', toRecv')
    BY <1>1, <1>2, <2>1, LoopTurnOf DEF ChunkLoop
  <2>3. UNCHANGED <<receiver, disk, sock, cut, toSend>>
    BY <1>2 DEF ChunkLoop
  <2>4. QED BY <1>1, <2>2, <2>3, KeptSame DEF SenderLoops
<1>3. CASE ResumeSender
  <2> DEFINE s == WithStatus(sender, "Transferring")
             m == TransferResume(sender.cur, sender.fileSent)
  <2>1. sender.status = "Paused" /\ sender.button /\ SendNextChunk(s, <<m>>)
    BY <1>3 DEF ResumeSender
  <2>2. sender.reader.open
    BY <1>1, <2>1 DEF ReaderOK, MustRead, Opening
  <2>3. /\ s \in Sender /\ s.status = "Transferring" /\ Kept(sender, s)
        /\ s.reader = sender.reader /\ s.cur = sender.cur
    BY <1>1, WithStatusSender, SenderKept DEF Statuses, Opening
  <2> HIDE DEF s
  <2>4. ReaderOK(s)
    BY <1>1, <2>2, <2>3, ReaderKept
  <2>5. m \in Message /\ m.type = "TransferResume"
    BY <1>1 DEF TransferResume, Message, Sender
  <2> HIDE DEF m
  <2>6. <<m>> \in Seq(Message) /\ Say(toRecv, m) = IF Linked THEN toRecv \o <<m>> ELSE toRecv
    <3>1. <<m>> \in Seq(Message)
      BY <2>5
    <3>2. toRecv \o <<m>> = Append(toRecv, m)
      BY <1>1, <2>5, ConcatOne
    <3>3. QED BY <3>1, <3>2 DEF Say
  <2>7. LoopTurn(s, Say(toRecv, m), sender', toRecv')
    BY <1>1, <2>1, <2>3, <2>4, <2>6, LoopTurnOf
  <2>8. UNCHANGED <<receiver, disk, sock, cut, toSend>>
    BY <1>3 DEF ResumeSender
  <2>9. Say(toRecv, m) \in Seq(Message)
    BY <1>1, <2>5, AppendFacts DEF Say
  <2>10. QED BY <2>3, <2>5, <2>7, <2>8, <2>9 DEF SenderLoops
<1>4. QED BY <1>2, <1>3

LEMMA ReceiverStepCases ==
    ASSUME SessionInv, ReceiverStep
    PROVE  \/ Quiet
           \/ OnHandshakeReq \/ OnTransferOffer \/ OnFileStart
           \/ OnFileDataChunk \/ OnFileEnd \/ OnTransferComplete
<1>1. /\ receiver \in Receiver /\ toRecv \in Seq(Message) /\ toSend \in Seq(Message)
      /\ Part(toSend, toSend)
  BY SenderHas
<1>2. CASE OnReceiverPause \/ OnReceiverResume \/ OnReceiverCancel
  <2>1. /\ UNCHANGED <<sender, cut, sock, toSend>>
        /\ toRecv # <<>> /\ toRecv' = Tail(toRecv)
        /\ Head(toRecv).type \in {"TransferPause", "TransferResume", "TransferCancel"}
    BY <1>2 DEF OnReceiverPause, OnReceiverResume, OnReceiverCancel, ReceiverHandles,
       ReceiverGets, ConsumeOnly
  <2>2. KeptR(receiver, receiver')
    BY <1>1, <1>2, ReceiverKept
       DEF OnReceiverPause, OnReceiverResume, OnReceiverCancel, Statuses
  <2>3. Kept(sender, sender') /\ Linked' = Linked /\ Up' = Up
    BY <2>1, KeptSame DEF Linked, Up
  <2>4. QuietDisk
    <3>1. CASE OnReceiverPause \/ OnReceiverResume
      BY <3>1 DEF OnReceiverPause, OnReceiverResume, QuietDisk
    <3>2. CASE OnReceiverCancel
      <4>1. /\ receiver' = [WithStatus(receiver, "Cancelled") EXCEPT !.writer = CloseWriter(@)]
            /\ disk' \in Closed(disk, receiver.writer)
        BY <3>2 DEF OnReceiverCancel
      <4>2. ~receiver'.writer.open
        BY <1>1, <4>1 DEF WithStatus, CloseWriter, Receiver, Writer
      <4>3. QED BY <4>1, <4>2 DEF QuietDisk
    <3>3. QED BY <1>2, <3>1, <3>2
  <2>5. QED BY <1>1, <2>1, <2>2, <2>3, <2>4 DEF Quiet, QuietDisk, QuietToRecv, QuietToSend
<1>3. QED BY <1>2 DEF ReceiverStep

\* What the receiving user says is heard over a whole link only.
LEMMA ReceiverSays ==
    ASSUME SessionInv, NEW m \in Message, SendToSender(<<m>>),
           \/ m.type \in {"TransferCancel", "TransferReject"}
           \/ "recv" \in Controls /\ m.type \in {"TransferPause", "TransferResume"},
           IsCall(m) => ~Linked'
    PROVE  QuietToSend
<1>1. toSend \in Seq(Message) /\ Part(toSend, toSend)
  BY SenderHas
<1>2. toSend \o <<m>> = Append(toSend, m)
  BY <1>1, ConcatOne
<1>3. QED BY <1>1, <1>2 DEF SendToSender, QuietToSend

LEMMA SenderSays ==
    ASSUME SessionInv, NEW m \in Message, SendToReceiver(<<m>>),
           m.type \in {"TransferPause", "TransferCancel"}, IsCall(m) => ~Linked'
    PROVE  QuietToRecv
<1>1. toRecv \in Seq(Message) /\ Cut(toRecv, toRecv)
  BY SenderHas
<1>2. toRecv \o <<m>> = Append(toRecv, m)
  BY <1>1, ConcatOne
<1>3. QED BY <1>1, <1>2 DEF SendToReceiver, QuietToRecv

LEMMA UserStepCases ==
    ASSUME ByButton = TRUE, SessionInv, UserStep
    PROVE  Quiet \/ UserAccepts \/ SenderLoops
<1>1. /\ sender \in Sender /\ receiver \in Receiver
      /\ toRecv \in Seq(Message) /\ toSend \in Seq(Message)
      /\ sock \in [Sides -> SockStates]
      /\ Cut(toRecv, toRecv) /\ Cut(toRecv, <<>>)
      /\ Part(toSend, toSend) /\ Part(toSend, <<>>)
  BY SenderHas
<1>2. Kept(sender, sender) /\ KeptR(receiver, receiver)
  BY KeptSame
<1>3. \A type \in Signals : Signal(type) \in Message /\ Signal(type).type = type
  BY DEF Signal, Message
<1>4. CASE StartSend
  <2>1. /\ UNCHANGED <<receiver, toRecv, toSend, cut, disk>>
        /\ sender.status = "Idle" /\ sender' = WithStatus(sender, "Connecting")
        /\ sock' = [sock EXCEPT !["send"] = "connecting"]
    BY <1>4 DEF StartSend
  <2>2. ~Linked' /\ (Up' => Up)
    BY <1>1, <2>1 DEF Linked, Up, Sides, SockStates
  <2>3. Kept(sender, sender')
    BY <1>1, <2>1 DEF Kept, WithStatus, Sender, Opening
  <2>4. QED BY <1>1, <1>2, <2>1, <2>2, <2>3 DEF Quiet, QuietDisk, QuietToRecv, QuietToSend
<1>5. CASE UserRejects
  <2>1. /\ UNCHANGED <<sender, cut, disk>> /\ Close("recv")
        /\ receiver' = [WithStatus(receiver, "Cancelled") EXCEPT !.asking = FALSE]
        /\ SendToSender(<<Signal("TransferReject")>>)
        /\ Cut(toRecv, toRecv')
    BY <1>5 DEF UserRejects, Cut
  <2>2. ~Linked' /\ (Up' => Up)
    BY <1>1, <2>1, Closing DEF Sides
  <2>3. KeptR(receiver, receiver')
    BY <1>1, <2>1, ReceiverKept DEF Statuses
  <2>4. QuietToSend
    BY <1>3, <2>1, <2>2, ReceiverSays DEF Signals
  <2>5. QED BY <1>2, <2>1, <2>2, <2>3, <2>4 DEF Quiet, QuietDisk, QuietToRecv
<1>6. CASE PauseReceiver
  <2>1. /\ UNCHANGED <<sender, toRecv, sock, cut, disk>> /\ "recv" \in Controls
        /\ receiver' = WithStatus(receiver, "Paused")
        /\ SendToSender(<<Signal("TransferPause")>>)
    BY <1>6 DEF PauseReceiver
  <2>2. KeptR(receiver, receiver')
    BY <1>1, <2>1, ReceiverKept DEF Statuses
  <2>3. QuietToSend
    BY <1>3, <2>1, ReceiverSays DEF Signals, IsCall
  <2>4. Linked' = Linked /\ Up' = Up
    BY <2>1 DEF Linked, Up
  <2>5. QED BY <1>1, <1>2, <2>1, <2>2, <2>3, <2>4 DEF Quiet, QuietDisk, QuietToRecv
<1>7. CASE ResumeReceiver
  <2> DEFINE m == TransferResume(1, receiver.fileGot)
  <2>1. /\ UNCHANGED <<sender, toRecv, sock, cut, disk>> /\ "recv" \in Controls
        /\ receiver' = WithStatus(receiver, "Transferring")
        /\ SendToSender(<<m>>)
    BY <1>7 DEF ResumeReceiver
  <2>2. KeptR(receiver, receiver')
    BY <1>1, <2>1, ReceiverKept DEF Statuses
  <2>3. m \in Message /\ m.type = "TransferResume"
    BY <1>1, SizesAssumption DEF TransferResume, Message, Receiver, Files
  <2> HIDE DEF m
  <2>4. QuietToSend
    BY <2>1, <2>3, ReceiverSays DEF IsCall
  <2>5. Linked' = Linked /\ Up' = Up
    BY <2>1 DEF Linked, Up
  <2>6. QED BY <1>1, <1>2, <2>1, <2>2, <2>4, <2>5 DEF Quiet, QuietDisk, QuietToRecv
<1>8. CASE PauseSender
  <2>1. /\ UNCHANGED <<receiver, toSend, sock, cut, disk>>
        /\ sender' = WithStatus(sender, "Paused")
        /\ SendToReceiver(<<Signal("TransferPause")>>)
    BY <1>8 DEF PauseSender
  <2>2. Kept(sender, sender')
    BY <1>1, <2>1, SenderKept DEF Statuses, Opening
  <2>3. QuietToRecv
    BY <1>3, <2>1, SenderSays DEF Signals, IsCall
  <2>4. Linked' = Linked /\ Up' = Up
    BY <2>1 DEF Linked, Up
  <2>5. QED BY <1>1, <1>2, <2>1, <2>2, <2>3, <2>4 DEF Quiet, QuietDisk, QuietToSend
<1>9. CASE CancelSender
  <2>1. /\ UNCHANGED <<receiver, cut, disk>> /\ Close("send") /\ toSend' = <<>>
        /\ sender' = [WithStatus(sender, "Cancelled") EXCEPT !.reader = CloseReader(@)]
        /\ SendToReceiver(<<Signal("TransferCancel")>>)
    BY <1>9 DEF CancelSender
  <2>2. Kept(sender, sender')
    BY <1>1, <2>1, SenderKept DEF Statuses, Opening
  <2>3. ~Linked' /\ (Up' => Up)
    BY <1>1, <2>1, Closing DEF Sides
  <2>4. QuietToRecv
    BY <1>3, <2>1, <2>3, SenderSays DEF Signals
  <2>5. QED BY <1>1, <1>2, <2>1, <2>2, <2>3, <2>4 DEF Quiet, QuietDisk, QuietToSend
<1>10. CASE CancelReceiver
  <2>1. /\ UNCHANGED <<sender, cut>> /\ Close("recv") /\ toRecv' = <<>>
        /\ disk' \in Closed(disk, receiver.writer)
        /\ receiver' = [WithStatus(receiver, "Cancelled") EXCEPT !.writer = CloseWriter(@)]
        /\ SendToSender(<<Signal("TransferCancel")>>)
    BY <1>10 DEF CancelReceiver
  <2>2. KeptR(receiver, receiver')
    BY <1>1, <2>1, ReceiverKept DEF Statuses
  <2>3. ~Linked' /\ (Up' => Up)
    BY <1>1, <2>1, Closing DEF Sides
  <2>4. QuietToSend
    BY <1>3, <2>1, <2>3, ReceiverSays DEF Signals
  <2>5. QuietDisk
    BY <1>1, <2>1 DEF QuietDisk, WithStatus, CloseWriter, Receiver, Writer
  <2>6. QED BY <1>1, <1>2, <2>1, <2>2, <2>3, <2>4, <2>5 DEF Quiet, QuietDisk, QuietToRecv
<1>11. CASE ResumeSender
  BY <1>11, LoopCases
<1>12. QED BY <1>4, <1>5, <1>6, <1>7, <1>8, <1>9, <1>10, <1>11 DEF UserStep

LEMMA NetworkStepCases ==
    ASSUME SessionInv, NetworkStep
    PROVE  Quiet \/ SocketConnected \/ ReceiverCrashes
<1>1. /\ sender \in Sender /\ receiver \in Receiver
      /\ toRecv \in Seq(Message) /\ toSend \in Seq(Message)
      /\ sock \in [Sides -> SockStates]
      /\ Cut(toRecv, toRecv) /\ Part(toSend, toSend)
  BY SenderHas
<1>2. Kept(sender, sender) /\ KeptR(receiver, receiver)
  BY KeptSame
<1>3. CASE ConnectFails
  <2>1. /\ UNCHANGED <<receiver, toRecv, toSend, cut, disk>> /\ Close("send")
        /\ sender' = WithStatus(sender, "Failed")
    BY <1>3 DEF ConnectFails
  <2>2. Kept(sender, sender')
    BY <1>1, <2>1, SenderKept DEF Statuses, Opening
  <2>3. ~Linked' /\ (Up' => Up)
    BY <1>1, <2>1, Closing DEF Sides
  <2>4. QED BY <1>1, <1>2, <2>1, <2>2, <2>3 DEF Quiet, QuietDisk, QuietToRecv, QuietToSend
<1>4. CASE CableCut
  <2>1. /\ UNCHANGED <<sender, receiver, sock, disk>> /\ cut' = TRUE
        /\ Cut(toRecv, toRecv') /\ Cut(toSend, toSend')
    BY <1>4 DEF CableCut, Cut
  <2>2. ~Linked' /\ Up' = Up
    BY <2>1 DEF Linked, Up
  <2>3. Part(toSend, toSend')
    BY <1>1, <2>1, CutIsPart
  <2>4. QED BY <1>2, <2>1, <2>2, <2>3 DEF Quiet, QuietDisk, QuietToRecv, QuietToSend
<1>5. CASE SenderLosesSocket
  <2>1. /\ UNCHANGED <<receiver, toRecv, toSend, cut, disk>> /\ Close("send")
        /\ sender' \in {sender, WithStatus(sender, "Failed")}
    BY <1>5 DEF SenderLosesSocket, LossFails
  <2>2. Kept(sender, sender')
    BY <1>1, <1>2, <2>1, SenderKept DEF Statuses, Opening
  <2>3. ~Linked' /\ (Up' => Up)
    BY <1>1, <2>1, Closing DEF Sides
  <2>4. QED BY <1>1, <1>2, <2>1, <2>2, <2>3 DEF Quiet, QuietDisk, QuietToRecv, QuietToSend
<1>6. CASE ReceiverLosesSocket
  <2>1. /\ UNCHANGED <<sender, toSend, cut, disk>> /\ Close("recv")
        /\ receiver' \in {receiver, WithStatus(receiver, "Failed")}
    BY <1>6 DEF ReceiverLosesSocket, LossFails
  <2>2. Cut(toRecv, toRecv')
    BY <1>1, <1>6 DEF ReceiverLosesSocket, Cut
  <2>3. KeptR(receiver, receiver')
    BY <1>1, <1>2, <2>1, ReceiverKept DEF Statuses
  <2>4. ~Linked' /\ (Up' => Up)
    BY <1>1, <2>1, Closing DEF Sides
  <2>5. QED BY <1>1, <1>2, <2>1, <2>2, <2>3, <2>4 DEF Quiet, QuietDisk, QuietToRecv, QuietToSend
<1>7. QED BY <1>3, <1>4, <1>5, <1>6 DEF NetworkStep

\* The handlers by which the transfer moves on at the receiver.
ReceiverMoves ==
    \/ OnHandshakeReq \/ OnTransferOffer \/ UserAccepts \/ OnTransferComplete
    \/ OnFileStart \/ OnFileDataChunk \/ OnFileEnd \/ ReceiverCrashes

\* Every step of a transfer is one of these.
LEMMA StepCases ==
    ASSUME ByButton = TRUE, SessionInv, [Next]_vars
    PROVE  \/ Quiet
           \/ SocketConnected \/ OnHandshakeResp \/ SenderStarts \/ SenderLoops
           \/ ReceiverMoves
<1>1. CASE SenderStep
  BY <1>1, SenderStepCases
<1>2. CASE ChunkLoop
  BY <1>2, LoopCases
<1>3. CASE ReceiverStep
  BY <1>3, ReceiverStepCases DEF ReceiverMoves
<1>4. CASE UserStep
  BY <1>4, UserStepCases DEF ReceiverMoves
<1>5. CASE NetworkStep
  BY <1>5, NetworkStepCases DEF ReceiverMoves
<1>6. CASE UNCHANGED vars
  <2>1. UNCHANGED <<sender, receiver, toRecv, toSend, sock, cut, disk>>
    BY <1>6 DEF vars
  <2>2. Linked' = Linked /\ Up' = Up
    BY <2>1 DEF Linked, Up
  <2>3. QED BY <2>1, <2>2, SenderHas, KeptSame DEF Quiet, QuietDisk, QuietToRecv, QuietToSend
<1>7. QED BY <1>1, <1>2, <1>3, <1>4, <1>5, <1>6 DEF Next

\* A socket of the sender that has yet to connect has not been connected.
LEMMA EarlyBefore ==
    ASSUME SessionInv, [Next]_vars, Early' PROVE Early
<1>1. sock \in [Sides -> SockStates]
  BY SenderHas
<1>2. ASSUME sock' = sock \/ Close("recv") \/ Close("send") PROVE Early
  BY <1>1, <1>2 DEF Early, Close, Sides
<1>3. CASE SenderStep \/ ChunkLoop
  BY <1>2, <1>3 DEF SenderStep, OnHandshakeResp, OnTransferAccept, OnTransferReject,
     OnFileAck, OnSenderPause, OnSenderResume, OnSenderCancel, SenderHandles, ChunkLoop
<1>4. CASE ReceiverStep
  BY <1>2, <1>4 DEF ReceiverStep, OnHandshakeReq, OnTransferOffer, OnFileStart,
     OnFileDataChunk, OnFileEnd, OnReceiverPause, OnReceiverResume, OnReceiverCancel,
     OnTransferComplete, ConsumeOnly, CloseInHandler, OpenFails
<1>5. CASE UserStep
  <2>1. CASE StartSend
    BY <2>1 DEF StartSend, SessionInv, EarlyOK
  <2>2. QED BY <1>2, <1>5, <2>1 DEF UserStep, UserAccepts, UserRejects, PauseSender,
        PauseReceiver, ResumeSender, ResumeReceiver, CancelSender, CancelReceiver
<1>6. CASE NetworkStep
  <2>1. CASE SocketConnected
    BY <2>1 DEF SocketConnected, Early
  <2>2. QED BY <1>2, <1>6, <2>1 DEF NetworkStep, ConnectFails, CableCut,
        SenderLosesSocket, ReceiverLosesSocket, ReceiverCrashes
<1>7. QED BY <1>2, <1>3, <1>4, <1>5, <1>6 DEF Next, vars

-----------------------------------------------------------------------------
(* The receiving session.                                                  *)

\* A packet handler of the receiver: the packet goes, and with a socket that
\* is closed in the handler some of those behind it.
Takes(type) ==
    /\ toRecv # <<>> /\ Head(toRecv) \in Message /\ Head(toRecv).type = type
    /\ HonestPacket(Head(toRecv)) /\ ~receiver.asking /\ UNCHANGED sender
    /\ Cut(Tail(toRecv), toRecv')
    /\ Linked' => Linked /\ toRecv' = Tail(toRecv)
    /\ Up' => Up /\ toRecv' = Tail(toRecv)

SameWriter(r, v) == v.writer = r.writer /\ v.recvIndex = r.recvIndex

LEMMA TakesOf ==
    ASSUME SessionInv, NEW type, ReceiverHandles(type), ConsumeOnly \/ CloseInHandler
    PROVE  Takes(type) /\ (CloseInHandler => ~Up')
<1>1. /\ toRecv # <<>> /\ Head(toRecv) \in Message /\ Head(toRecv).type = type
      /\ HonestPacket(Head(toRecv)) /\ ~receiver.asking /\ UNCHANGED <<sender, cut>>
      /\ toRecv \in Seq(Message) /\ sock \in [Sides -> SockStates]
  BY ReceiverTakes, ReceiverKnows
<1>2. Tail(toRecv) \in Seq(Message) /\ Len(Tail(toRecv)) = Len(toRecv) - 1
  BY <1>1, TailFacts
<1>3. CASE ConsumeOnly
  <2>1. toRecv' = Tail(toRecv) /\ sock' = sock
    BY <1>3 DEF ConsumeOnly
  <2>2. Cut(Tail(toRecv), toRecv')
    BY <1>2, <2>1, CutAll
  <2>3. Linked' = Linked /\ Up' = Up
    BY <1>1, <2>1 DEF Linked, Up
  <2>4. CloseInHandler => ~Up'
    BY <1>1, Closing DEF CloseInHandler, Close, Up, Sides
  <2>5. QED BY <1>1, <2>1, <2>2, <2>3, <2>4 DEF Takes
<1>4. CASE CloseInHandler
  <2>1. PICK kept \in 0..(Len(toRecv) - 1) : toRecv' = SubSeq(Tail(toRecv), 1, kept)
    BY <1>4 DEF CloseInHandler
  <2>2. Cut(Tail(toRecv), toRecv')
    BY <1>2, <2>1 DEF Cut
  <2>3. ~Up' /\ ~Linked'
    BY <1>1, <1>4 DEF CloseInHandler, Close, Up, Linked, Sides
  <2>4. QED BY <1>1, <2>2, <2>3 DEF Takes
<1>5. QED BY <1>3, <1>4

\* What the receiving session says reaches the queue over a whole link only.
LEMMA SaysToSender ==
    ASSUME SessionInv, NEW m \in Message, SendToSender(<<m>>)
    PROVE  toSend' = Say(toSend, m)
<1>1. toSend \in Seq(Message)
  BY ReceiverKnows
<1>2. QED BY <1>1, ConcatOne DEF SendToSender, Say

LEMMA AnswerMessages ==
    /\ Signal("HandshakeResp") \in Message /\ Signal("HandshakeReq") \in Message
    /\ Signal("TransferOffer") \in Message /\ Signal("TransferComplete") \in Message
    /\ TransferAccept(1, 0) \in Message
<1>1. 1 \in Files
  BY SizesAssumption DEF Files
<1>2. QED BY <1>1 DEF Signal, Signals, TransferAccept, Message

LEMMA HandshakeReqDoes ==
    ASSUME SessionInv, OnHandshakeReq
    PROVE  /\ Takes("HandshakeReq") /\ SameWriter(receiver, receiver')
           /\ receiver'.asking = receiver.asking /\ receiver'.status = "Offering"
           /\ receiver'.total = receiver.total
           /\ UNCHANGED disk /\ toSend' = Say(toSend, Signal("HandshakeResp"))
<1>1. receiver \in Receiver
  BY ReceiverKnows
<1>2. Takes("HandshakeReq")
  BY TakesOf DEF OnHandshakeReq
<1>3. toSend' = Say(toSend, Signal("HandshakeResp"))
  BY SaysToSender, AnswerMessages DEF OnHandshakeReq
<1>4. QED BY <1>1, <1>2, <1>3 DEF OnHandshakeReq, WithStatus, SameWriter, Receiver

LEMMA AcceptDoes ==
    ASSUME SessionInv, AcceptTransfer(receiver)
    PROVE  /\ SameWriter(receiver, receiver') /\ ~receiver'.asking
           /\ receiver'.status = "Transferring" /\ receiver'.total = receiver.total
           /\ toSend' = Say(toSend, TransferAccept(1, 0))
<1>1. receiver \in Receiver
  BY ReceiverKnows
<1>2. toSend' = Say(toSend, TransferAccept(1, 0))
  BY SaysToSender, AnswerMessages DEF AcceptTransfer
<1>3. QED BY <1>1, <1>2 DEF AcceptTransfer, WithStatus, SameWriter, Receiver

LEMMA TransferOfferDoes ==
    ASSUME SessionInv, OnTransferOffer
    PROVE  /\ Takes("TransferOffer") /\ SameWriter(receiver, receiver')
           /\ receiver'.status \in {"Transferring", "WaitingApproval"}
           /\ receiver'.total = receiver.total /\ UNCHANGED disk
           /\ \/ ~receiver'.asking /\ toSend' = Say(toSend, TransferAccept(1, 0))
              \/ /\ receiver'.asking /\ receiver'.status = "WaitingApproval"
                 /\ UNCHANGED toSend
<1>1. receiver \in Receiver
  BY ReceiverKnows
<1>2. Takes("TransferOffer") /\ UNCHANGED disk
  BY TakesOf DEF OnTransferOffer
<1>3. CASE AcceptTransfer(receiver)
  BY <1>2, <1>3, AcceptDoes
<1>4. CASE /\ receiver' = [WithStatus(receiver, "WaitingApproval") EXCEPT !.asking = TRUE]
           /\ UNCHANGED toSend
  BY <1>1, <1>2, <1>4 DEF WithStatus, SameWriter, Receiver
<1>5. QED BY <1>3, <1>4 DEF OnTransferOffer

LEMMA UserAcceptsDoes ==
    ASSUME SessionInv, UserAccepts
    PROVE  /\ receiver.asking /\ UNCHANGED <<sender, toRecv, disk>>
           /\ Linked' = Linked /\ Up' = Up
           /\ SameWriter(receiver, receiver') /\ ~receiver'.asking
           /\ receiver'.status = "Transferring" /\ receiver'.total = receiver.total
           /\ toSend' = Say(toSend, TransferAccept(1, 0))
<1>1. AcceptTransfer(receiver) /\ receiver.asking
      /\ UNCHANGED <<sender, toRecv, sock, cut, disk>>
  BY DEF UserAccepts
<1>2. QED BY <1>1, AcceptDoes DEF Linked, Up

LEMMA TransferCompleteDoes ==
    ASSUME SessionInv, OnTransferComplete
    PROVE  /\ Takes("TransferComplete") /\ SameWriter(receiver, receiver')
           /\ ~receiver'.asking /\ UNCHANGED <<disk, toSend>>
<1>1. receiver \in Receiver
  BY ReceiverKnows
<1>2. Takes("TransferComplete")
  BY TakesOf DEF OnTransferComplete
<1>3. QED BY <1>1, <1>2 DEF OnTransferComplete, WithStatus, SameWriter, Receiver, Takes

\* The last file's writer has left the disk d.  A file is opened, or its opening
\* fails, is acknowledged so and closes the socket.
Opened(d, i) ==
    \E t \in Targets(d, i, Policy), c \in Preallocations(i) :
        /\ receiver'.writer = OpenedWriter(t) /\ disk' = OpenedDisk(d, t, c)
        /\ toRecv' = Tail(toRecv) /\ UNCHANGED toSend
        /\ receiver'.status = receiver.status

NotOpened(d, i) ==
    /\ ~Up' /\ receiver'.status = "Failed" /\ ~receiver'.writer.open
    /\ receiver'.writer.hashed = <<>>
    /\ toSend' = Say(toSend, FileAck(i, FALSE))
    /\ \/ /\ receiver'.writer.partial = NoName /\ disk' = d
          /\ \/ receiver'.writer.target = NoName
             \/ SkippedByPolicy(d, i, Policy)
       \/ \E t \in Targets(d, i, Policy) :
             /\ receiver'.writer.target = t /\ receiver'.writer.partial = t
             /\ disk' = Cleared(d, t)

LEMMA FileStartDoes ==
    ASSUME SessionInv, OnFileStart
    PROVE  /\ Takes("FileStart") /\ Head(toRecv).index \in Files
           /\ receiver'.recvIndex = Head(toRecv).index
           /\ ~receiver'.asking /\ receiver'.total = receiver.total
           /\ receiver'.writer.has
           /\ \E d \in Closed(disk, receiver.writer) :
                 Opened(d, Head(toRecv).index) \/ NotOpened(d, Head(toRecv).index)
<1> DEFINE i == Head(toRecv).index
           r == [receiver EXCEPT !.recvIndex = i, !.fileGot = 0]
<1>1. receiver \in Receiver /\ sock \in [Sides -> SockStates]
  BY ReceiverKnows
<1>2. /\ ReceiverHandles("FileStart") /\ Head(toRecv) \in Message
      /\ Head(toRecv).type = "FileStart" /\ ~receiver.asking
  BY ReceiverTakes DEF OnFileStart
<1>3. i \in Files
  BY <1>2 DEF Message, Signals
<1>4. /\ r \in Receiver /\ r.recvIndex = i /\ ~r.asking /\ r.total = receiver.total
      /\ r.status = receiver.status
  BY <1>1, <1>2, <1>3 DEF Receiver
<1> HIDE DEF r
<1>5. ASSUME NEW d, NEW w, NEW e, w.has, ~w.open, w.hashed = <<>>, OpenFails(r, w, e),
             \/ /\ w.partial = NoName /\ e = d
                /\ w.target = NoName \/ SkippedByPolicy(d, i, Policy)
             \/ \E t \in Targets(d, i, Policy) :
                   w.target = t /\ w.partial = t /\ e = Cleared(d, t)
      PROVE  /\ Takes("FileStart") /\ receiver'.recvIndex = i /\ ~receiver'.asking
             /\ receiver'.total = receiver.total /\ receiver'.writer.has
             /\ NotOpened(d, i)
  <2>1. /\ receiver' = [WithStatus(r, "Failed") EXCEPT !.writer = w] /\ disk' = e
        /\ SendToSender(<<FileAck(i, FALSE)>>) /\ CloseInHandler
    BY <1>4, <1>5 DEF OpenFails
  <2>2. Takes("FileStart") /\ ~Up'
    BY <1>2, <2>1, TakesOf
  <2>3. /\ receiver'.writer = w /\ receiver'.status = "Failed" /\ receiver'.recvIndex = i
        /\ ~receiver'.asking /\ receiver'.total = receiver.total
    BY <1>4, <2>1 DEF WithStatus, Receiver
  <2>4. toSend' = Say(toSend, FileAck(i, FALSE))
    BY <1>3, <2>1, SaysToSender, FileAckMessage
  <2>5. QED BY <1>5, <2>1, <2>2, <2>3, <2>4 DEF NotOpened
<1> DEFINE Opens(d) ==
             /\ \E t \in Targets(d, i, Policy), c \in Preallocations(i) :
                   /\ receiver' = [r EXCEPT !.writer = OpenedWriter(t)]
                   /\ disk' = OpenedDisk(d, t, c)
             /\ ConsumeOnly /\ UNCHANGED toSend
           Skips(d) ==
             /\ SkippedByPolicy(d, i, Policy)
             /\ OpenFails(r, [NewWriter EXCEPT !.target = <<RelPath[i], 0>>], d)
           FailsAt(d) ==
             \E t \in Targets(d, i, Policy) :
                OpenFails(r, CloseWriter(OpenedWriter(t)), Cleared(d, t))
<1>6. PICK d \in Closed(disk, receiver.writer) :
             Opens(d) \/ OpenFails(r, NewWriter, d) \/ Skips(d) \/ FailsAt(d)
  BY DEF OnFileStart, r
<1>7. CASE Opens(d)
  <2>1. PICK t \in Targets(d, i, Policy), c \in Preallocations(i) :
               /\ receiver' = [r EXCEPT !.writer = OpenedWriter(t)]
               /\ disk' = OpenedDisk(d, t, c)
    BY <1>7
  <2>2. Takes("FileStart")
    BY <1>2, <1>7, TakesOf
  <2>3. /\ receiver'.writer = OpenedWriter(t) /\ receiver'.recvIndex = i
        /\ ~receiver'.asking /\ receiver'.total = receiver.total
        /\ receiver'.status = receiver.status
    BY <1>4, <2>1 DEF Receiver
  <2>4. Opened(d, i)
    BY <1>7, <2>1, <2>3 DEF Opened, ConsumeOnly
  <2>5. QED BY <1>3, <2>2, <2>3, <2>4 DEF OpenedWriter
<1>8. CASE OpenFails(r, NewWriter, d)
  <2>1. /\ NewWriter.has /\ ~NewWriter.open /\ NewWriter.hashed = <<>>
        /\ NewWriter.partial = NoName /\ NewWriter.target = NoName
    BY DEF NewWriter, NoWriter
  <2>2. QED BY <1>3, <1>5, <1>8, <2>1
<1>9. CASE Skips(d)
  <2> DEFINE w == [NewWriter EXCEPT !.target = <<RelPath[i], 0>>]
  <2>1. w.has /\ ~w.open /\ w.hashed = <<>> /\ w.partial = NoName
    BY DEF NewWriter, NoWriter
  <2> HIDE DEF w
  <2>2. OpenFails(r, w, d)
    BY <1>9 DEF w
  <2>3. QED BY <1>3, <1>5, <1>9, <2>1, <2>2
<1>10. CASE FailsAt(d)
  <2>1. PICK t \in Targets(d, i, Policy) :
               OpenFails(r, CloseWriter(OpenedWriter(t)), Cleared(d, t))
    BY <1>10
  <2> DEFINE w == CloseWriter(OpenedWriter(t))
  <2>2. w.has /\ ~w.open /\ w.hashed = <<>> /\ w.partial = t /\ w.target = t
    BY DEF OpenedWriter, CloseWriter
  <2> HIDE DEF w
  <2>3. OpenFails(r, w, Cleared(d, t))
    BY <2>1 DEF w
  <2>4. QED BY <1>3, <1>5, <2>2, <2>3
<1>11. QED BY <1>6, <1>7, <1>8, <1>9, <1>10

\* A chunk is ignored, written, or its writing fails and closes the socket.
LEMMA FileDataChunkDoes ==
    ASSUME SessionInv, OnFileDataChunk
    PROVE  LET m == Head(toRecv)
               w == receiver.writer
           IN  /\ Takes("FileDataChunk") /\ UNCHANGED toSend
               /\ receiver'.recvIndex = receiver.recvIndex /\ ~receiver'.asking
               /\ receiver'.status = "Completed" => receiver.status = "Completed"
               /\ \/ ~w.has /\ UNCHANGED <<receiver, disk>>
                  \/ /\ w.has /\ w.open
                     /\ receiver'.writer = [w EXCEPT !.hashed = Append(@, m.data)]
                     /\ receiver'.total = receiver.total + 1
                     /\ receiver'.status = receiver.status
                     /\ disk' = WriteToDisk(disk, w, m.offset, m.data)
                  \/ /\ w.has /\ ~Up' /\ receiver'.writer = w
                     /\ receiver'.status = "Failed" /\ ~Linked'
                     /\ ~w.open \/ "write" \in Faults
                     /\ \/ UNCHANGED disk
                        \/ w.open /\ disk' = WriteToDisk(disk, w, m.offset, m.data)
<1> DEFINE m == Head(toRecv)
           w == receiver.writer
<1>1. receiver \in Receiver
  BY ReceiverKnows
<1>2. ReceiverHandles("FileDataChunk") /\ UNCHANGED toSend /\ ~receiver.asking
  BY ReceiverTakes DEF OnFileDataChunk
<1>3. CASE ~w.has /\ ConsumeOnly /\ UNCHANGED <<receiver, disk>>
  BY <1>2, <1>3, TakesOf
<1>4. CASE /\ w.has /\ w.open
           /\ receiver' = [receiver EXCEPT !.writer.hashed = Append(@, m.data),
                                           !.fileGot = @ + 1, !.total = @ + 1]
           /\ disk' = WriteToDisk(disk, w, m.offset, m.data) /\ ConsumeOnly
  <2>1. Takes("FileDataChunk")
    BY <1>2, <1>4, TakesOf
  <2>2. /\ receiver'.writer = [w EXCEPT !.hashed = Append(@, m.data)]
        /\ receiver'.recvIndex = receiver.recvIndex
        /\ receiver'.asking = receiver.asking /\ receiver'.status = receiver.status
        /\ receiver'.total = receiver.total + 1
    BY <1>1, <1>4 DEF Receiver
  <2>3. QED BY <1>2, <1>4, <2>1, <2>2
<1>5. CASE /\ w.has
           /\ \/ ~w.open /\ UNCHANGED disk
              \/ /\ w.open /\ "write" \in Faults /\ ~Buffered(m.data)
                 /\ disk' \in {disk, WriteToDisk(disk, w, m.offset, m.data)}
           /\ receiver' = WithStatus(receiver, "Failed") /\ CloseInHandler
  <2>1. Takes("FileDataChunk") /\ ~Up' /\ ~Linked'
    BY <1>2, <1>5, TakesOf DEF Up, Linked
  <2>2. /\ receiver'.writer = w /\ receiver'.recvIndex = receiver.recvIndex
        /\ receiver'.asking = receiver.asking /\ receiver'.status = "Failed"
    BY <1>1, <1>5 DEF Receiver, WithStatus
  <2>3. QED BY <1>2, <1>5, <2>1, <2>2
<1>6. QED BY <1>3, <1>4, <1>5 DEF OnFileDataChunk

\* The end of a file is ignored, or the writer is closed and the outcome
\* acknowledged; only the good one follows a commit.
LEMMA FileEndDoes ==
    ASSUME SessionInv, OnFileEnd
    PROVE  LET m == Head(toRecv)
               w == receiver.writer
           IN  /\ Takes("FileEnd") /\ m.index \in Files /\ m.hash = Source(m.index)
               /\ toRecv' = Tail(toRecv)
               /\ receiver'.recvIndex = receiver.recvIndex /\ ~receiver'.asking
               /\ receiver'.status = receiver.status /\ receiver'.total = receiver.total
               /\ \/ ~w.has /\ UNCHANGED <<receiver, toSend, disk>>
                  \/ /\ w.has /\ receiver'.writer = CloseWriter(w)
                     /\ toSend' = Say(toSend, FileAck(m.index, TRUE))
                     /\ Verified(w, m.hash) /\ Renamable(disk, w)
                     /\ \E d \in Closed(disk, w) : disk' = Committed(d, w)
                  \/ /\ w.has /\ receiver'.writer = CloseWriter(w)
                     /\ toSend' = Say(toSend, FileAck(m.index, FALSE))
                     /\ \E d \in Closed(disk, w) :
                           \/ disk' = d
                           \/ Verified(w, m.hash) /\ disk' = HalfCommitted(d, w)
<1> DEFINE m == Head(toRecv)
           w == receiver.writer
<1>1. receiver \in Receiver
  BY ReceiverKnows
<1>2. /\ ReceiverHandles("FileEnd") /\ ConsumeOnly /\ ~receiver.asking
      /\ m \in Message /\ m.type = "FileEnd" /\ HonestPacket(m)
  BY ReceiverTakes DEF OnFileEnd
<1>3. /\ Takes("FileEnd") /\ toRecv' = Tail(toRecv)
      /\ m.index \in Files /\ m.hash = Source(m.index)
  BY <1>2, TakesOf DEF ConsumeOnly, Message, Signals, HonestPacket
<1>4. ASSUME NEW ok \in BOOLEAN,
             receiver' = [receiver EXCEPT !.writer = CloseWriter(@)],
             SendToSender(<<FileAck(m.index, ok)>>)
      PROVE  /\ toSend' = Say(toSend, FileAck(m.index, ok))
             /\ receiver'.writer = CloseWriter(w) /\ receiver'.recvIndex = receiver.recvIndex
             /\ ~receiver'.asking /\ receiver'.status = receiver.status
             /\ receiver'.total = receiver.total
  <2>1. toSend' = Say(toSend, FileAck(m.index, ok))
    BY <1>3, <1>4, SaysToSender, FileAckMessage
  <2>2. QED BY <1>1, <1>2, <1>4, <2>1 DEF Receiver
<1>5. CASE ~w.has /\ UNCHANGED <<receiver, toSend, disk>>
  BY <1>2, <1>3, <1>5
<1>6. CASE /\ w.has /\ ~Verified(w, m.hash) /\ disk' \in Closed(disk, w)
           /\ receiver' = [receiver EXCEPT !.writer = CloseWriter(@)]
           /\ SendToSender(<<FileAck(m.index, FALSE)>>)
  BY <1>3, <1>4, <1>6
<1>7. CASE /\ w.has /\ Verified(w, m.hash) /\ Renamable(disk, w)
           /\ \E d \in Closed(disk, w) : disk' = Committed(d, w)
           /\ receiver' = [receiver EXCEPT !.writer = CloseWriter(@)]
           /\ SendToSender(<<FileAck(m.index, TRUE)>>)
  BY <1>3, <1>4, <1>7
<1>8. CASE /\ w.has /\ Verified(w, m.hash)
           /\ \E d \in Closed(disk, w) : disk' = HalfCommitted(d, w)
           /\ receiver' = [receiver EXCEPT !.writer = CloseWriter(@)]
           /\ SendToSender(<<FileAck(m.index, FALSE)>>)
  BY <1>3, <1>4, <1>8
<1>9. QED BY <1>5, <1>6, <1>7, <1>8 DEF OnFileEnd

LEMMA CrashDoes ==
    ASSUME SessionInv, ReceiverCrashes
    PROVE  /\ receiver' = NewReceiver /\ toRecv' = <<>> /\ Cut(toSend, toSend')
           /\ UNCHANGED sender /\ ~Up' /\ ~Linked'
           /\ \/ disk' \in {disk} \cup Unflushed(disk, receiver.writer)
              \/ /\ toRecv # <<>> /\ ~receiver.asking
                 /\ disk' \in DiskInside(Head(toRecv))
<1>1. sock \in [Sides -> SockStates]
  BY ReceiverKnows
<1>2. QED BY <1>1 DEF ReceiverCrashes, Close, Up, Linked, Sides, Cut

-----------------------------------------------------------------------------
(* The disk changes in the handlers of three packets only, and in a crash  *)
(* as one of them would have changed it.  Any step may lose a buffer.      *)

DiskMoves(m, d, e) ==
    LET w == receiver.writer
    IN  \/ /\ m.type = "FileStart" /\ m.index \in Files
           /\ \E t \in Targets(d, m.index, Policy) :
                 \/ e = Cleared(d, t)
                 \/ \E c \in Preallocations(m.index) : e = OpenedDisk(d, t, c)
        \/ /\ m.type = "FileDataChunk" /\ w.has /\ w.open
           /\ d = disk /\ e = WriteToDisk(d, w, m.offset, m.data)
        \/ /\ m.type = "FileEnd" /\ w.has /\ Verified(w, m.hash)
           /\ \/ e = HalfCommitted(d, w)
              \/ Renamable(d, w) /\ e = Committed(d, w)

LEMMA ClosedDisks ==
    ASSUME SessionInv, NEW d \in Closed(disk, receiver.writer)
    PROVE  /\ d \in {disk} \cup Unflushed(disk, receiver.writer)
           /\ d.final = disk.final /\ DOMAIN d.partial = DOMAIN disk.partial
           /\ Renamable(disk, receiver.writer) => Renamable(d, receiver.writer)
           /\ \A j, policy : Targets(d, j, policy) = Targets(disk, j, policy)
           /\ disk \in Closed(disk, receiver.writer)
<1>1. /\ DiskType(disk) /\ HoldsCopies(disk) /\ receiver.writer \in Writer
      /\ receiver.recvIndex \in Files
      /\ WriterOK(receiver.writer, receiver.recvIndex, disk)
  BY ReceiverKnows DEF Receiver
<1>2. /\ d.final = disk.final /\ DOMAIN d.partial = DOMAIN disk.partial
      /\ Renamable(disk, receiver.writer) => Renamable(d, receiver.writer)
  BY <1>1, ClosingRenames
<1>3. \A j, policy : Targets(d, j, policy) = Targets(disk, j, policy)
  BY <1>1, ClosingTargets
<1>4. d \in {disk} \cup Unflushed(disk, receiver.writer)
  BY DEF Closed
<1>5. disk \in Closed(disk, receiver.writer)
  BY DEF Closed
<1>6. QED BY <1>2, <1>3, <1>4, <1>5

LEMMA DiskMovesOf ==
    ASSUME ByButton = TRUE, SessionInv, [Next]_vars
    PROVE  \/ disk' \in {disk} \cup Unflushed(disk, receiver.writer)
           \/ /\ toRecv # <<>> /\ Head(toRecv) \in Message
              /\ HonestPacket(Head(toRecv)) /\ UNCHANGED sender
              /\ \E d \in Closed(disk, receiver.writer) :
                    DiskMoves(Head(toRecv), d, disk')
<1>1. CASE Quiet
  BY <1>1, ClosedDisks DEF Quiet, QuietDisk
<1>2. CASE SocketConnected \/ OnHandshakeResp \/ SenderStarts \/ SenderLoops
  BY <1>2 DEF SocketConnected, OnHandshakeResp, SenderHandles, SenderStarts, SenderLoops
<1>3. CASE OnHandshakeReq \/ OnTransferOffer \/ UserAccepts \/ OnTransferComplete
  BY <1>3 DEF OnHandshakeReq, OnTransferOffer, UserAccepts, OnTransferComplete
<1>4. CASE OnFileStart
  <2> DEFINE m == Head(toRecv)
  <2>1. /\ toRecv # <<>> /\ m \in Message /\ HonestPacket(m) /\ UNCHANGED sender
        /\ m.type = "FileStart" /\ m.index \in Files
    BY <1>4, FileStartDoes DEF Takes
  <2>2. PICK d \in Closed(disk, receiver.writer) :
               Opened(d, m.index) \/ NotOpened(d, m.index)
    BY <1>4, FileStartDoes
  <2>3. CASE Opened(d, m.index)
    BY <2>1, <2>3 DEF Opened, DiskMoves
  <2>4. CASE NotOpened(d, m.index)
    BY <2>1, <2>4, ClosedDisks DEF NotOpened, DiskMoves
  <2>5. QED BY <2>2, <2>3, <2>4
<1>5. CASE OnFileDataChunk
  BY <1>5, FileDataChunkDoes, ClosedDisks DEF Takes, DiskMoves, Closed
<1>6. CASE OnFileEnd
  <2>1. Takes("FileEnd")
    BY <1>6, FileEndDoes
  <2>2. CASE UNCHANGED disk
    BY <2>2
  <2>3. CASE \E d \in Closed(disk, receiver.writer) : disk' = d
    BY <2>3, ClosedDisks
  <2>4. CASE /\ receiver.writer.has /\ Verified(receiver.writer, Head(toRecv).hash)
             /\ \E d \in Closed(disk, receiver.writer) :
                   \/ disk' = HalfCommitted(d, receiver.writer)
                   \/ Renamable(d, receiver.writer) /\ disk' = Committed(d, receiver.writer)
    BY <2>1, <2>4 DEF Takes, DiskMoves
  <2>5. QED BY <1>6, <2>2, <2>3, <2>4, FileEndDoes, ClosedDisks
<1>7. CASE ReceiverCrashes
  <2> DEFINE m == Head(toRecv)
             w == receiver.writer
  <2>1. \/ disk' \in {disk} \cup Unflushed(disk, w)
        \/ toRecv # <<>> /\ disk' \in DiskInside(m)
    BY <1>7, CrashDoes
  <2>2. ASSUME toRecv # <<>>, disk' \in DiskInside(m)
        PROVE  /\ m \in Message /\ HonestPacket(m)
               /\ \E d \in Closed(disk, w) : DiskMoves(m, d, disk')
    <3>1. m \in Message /\ HonestPacket(m)
      <4>1. toRecv \in Seq(Message) /\ QueueOK(toRecv, receiver)
        BY ReceiverKnows
      <4>2. 1 \in 1..Len(toRecv) /\ m = toRecv[1] /\ m \in Message
        BY <2>2, <4>1, TailFacts
      <4>3. QED BY <4>1, <4>2 DEF QueueOK, PayloadOK
    <3>2. CASE m.type = "FileStart"
      <4>1. m.index \in Files
        BY <3>1, <3>2 DEF Message, Signals
      <4>2. PICK d \in Closed(disk, w), t \in Targets(disk, m.index, Policy) :
                   \/ disk' = Cleared(d, t)
                   \/ \E c \in Preallocations(m.index) : disk' = OpenedDisk(d, t, c)
        BY <2>2, <3>2 DEF DiskInside
      <4>3. t \in Targets(d, m.index, Policy)
        BY ClosedDisks
      <4>4. QED BY <3>1, <3>2, <4>1, <4>2, <4>3 DEF DiskMoves
    <3>3. CASE m.type = "FileDataChunk"
      BY <2>2, <3>1, <3>3 DEF DiskInside, DiskMoves, Closed
    <3>4. CASE m.type = "FileEnd"
      <4>1. PICK d \in Closed(disk, w) :
               /\ w.has /\ Verified(w, m.hash) /\ Renamable(disk, w)
               /\ disk' \in {HalfCommitted(d, w), Committed(d, w)}
        BY <2>2, <3>4 DEF DiskInside
      <4>2. QED BY <3>1, <3>4, <4>1, ClosedDisks DEF DiskMoves
    <3>5. m.type \in {"FileStart", "FileDataChunk", "FileEnd"}
      BY <2>2 DEF DiskInside
    <3>6. QED BY <3>1, <3>2, <3>3, <3>4, <3>5
  <2>3. UNCHANGED sender
    BY <1>7, CrashDoes
  <2>4. QED BY <2>1, <2>2, <2>3
<1>8. QED BY <1>1, <1>2, <1>3, <1>4, <1>5, <1>6, <1>7, StepCases DEF ReceiverMoves
=============================================================================
