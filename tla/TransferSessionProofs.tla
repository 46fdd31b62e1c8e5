----------------------- MODULE TransferSessionProofs -----------------------
(***************************************************************************)
(* Proofs about TransferSession, for every manifest, policy, window, set   *)
(* of faults and number of pauses.                                         *)
(***************************************************************************)
EXTENDS TransferSessionInv, SequenceTheorems, TLAPS

-----------------------------------------------------------------------------
(* Sequences: adding one element, adding a singleton, taking a prefix.     *)

LEMMA AppendFacts ==
    ASSUME NEW S, NEW q \in Seq(S), NEW m \in S
    PROVE  /\ Append(q, m) \in Seq(S)
           /\ Len(Append(q, m)) = Len(q) + 1
           /\ \A p \in 1..Len(q) : Append(q, m)[p] = q[p]
           /\ Append(q, m)[Len(q) + 1] = m
    OBVIOUS

LEMMA ConcatOne ==
    ASSUME NEW S, NEW q \in Seq(S), NEW m \in S
    PROVE  q \o <<m>> = Append(q, m)
    OBVIOUS

LEMMA ConcatNone ==
    ASSUME NEW S, NEW q \in Seq(S)
    PROVE  q \o <<>> = q
    OBVIOUS

LEMMA TailFacts ==
    ASSUME NEW S, NEW q \in Seq(S), q # <<>>
    PROVE  /\ Tail(q) \in Seq(S) /\ Head(q) \in S /\ Head(q) = q[1]
           /\ Len(q) \in Nat \ {0}
           /\ Len(Tail(q)) = Len(q) - 1
           /\ \A p \in 1..Len(Tail(q)) : Tail(q)[p] = q[p + 1]
    OBVIOUS

LEMMA PrefixFacts ==
    ASSUME NEW S, NEW q \in Seq(S), NEW k \in 0..Len(q)
    PROVE  /\ SubSeq(q, 1, k) \in Seq(S)
           /\ Len(SubSeq(q, 1, k)) = k
           /\ \A p \in 1..k : SubSeq(q, 1, k)[p] = q[p]
    OBVIOUS

-----------------------------------------------------------------------------
(* The queue towards the receiver.                                         *)

\* Ownership of a position depends on the packets before it only.
LEMMA OwnerPrefix ==
    ASSUME NEW q, NEW u, NEW p \in Nat, NEW i, NEW r,
           \A k \in 1..(p - 1) : q[k] = u[k],
           Owner(q, p, i, r)
    PROVE  Owner(u, p, i, r)
<1>1. CASE \E s \in 1..(p - 1) :
              /\ IsStart(q[s]) /\ q[s].index = i
              /\ \A k \in (s + 1)..(p - 1) : ~IsStart(q[k])
  <2>1. PICK s \in 1..(p - 1) :
              /\ IsStart(q[s]) /\ q[s].index = i
              /\ \A k \in (s + 1)..(p - 1) : ~IsStart(q[k])
    BY <1>1
  <2>2. \A k \in (s + 1)..(p - 1) : k \in 1..(p - 1)
    OBVIOUS
  <2>3. QED BY <2>1, <2>2 DEF Owner
<1>2. CASE /\ \A k \in 1..(p - 1) : ~IsStart(q[k])
           /\ r.writer.has => r.recvIndex = i
  BY <1>2 DEF Owner
<1>3. QED BY <1>1, <1>2 DEF Owner

\* Once the receiver has handled the head it is one position nearer.
LEMMA OwnerTail ==
    ASSUME NEW q \in Seq(Message), q # <<>>, NEW p \in 2..(Len(q) + 1),
           NEW i, NEW r, NEW u, Owner(q, p, i, r),
           IF IsStart(Head(q)) THEN u.recvIndex = Head(q).index
                               ELSE /\ u.recvIndex = r.recvIndex
                                    /\ u.writer.has => r.writer.has
    PROVE  Owner(Tail(q), p - 1, i, u)
<1> DEFINE t == Tail(q)
<1>1. /\ \A k \in 1..(p - 2) : t[k] = q[k + 1]
      /\ Head(q) = q[1]
  BY TailFacts
<1>2. CASE \E s \in 1..(p - 1) :
              /\ IsStart(q[s]) /\ q[s].index = i
              /\ \A k \in (s + 1)..(p - 1) : ~IsStart(q[k])
  <2>1. PICK s \in 1..(p - 1) :
              /\ IsStart(q[s]) /\ q[s].index = i
              /\ \A k \in (s + 1)..(p - 1) : ~IsStart(q[k])
    BY <1>2
  <2>2. CASE s = 1
    <3>1. \A k \in 1..(p - 2) : ~IsStart(t[k])
      BY <1>1, <2>1, <2>2
    <3>2. u.recvIndex = i
      BY <1>1, <2>1, <2>2
    <3>3. QED BY <3>1, <3>2 DEF Owner
  <2>3. CASE s # 1
    <3>1. s - 1 \in 1..(p - 2) /\ IsStart(t[s - 1]) /\ t[s - 1].index = i
      BY <1>1, <2>1, <2>3
    <3>2. \A k \in s..(p - 2) : ~IsStart(t[k])
      BY <1>1, <2>1, <2>3
    <3>3. QED BY <3>1, <3>2 DEF Owner
  <2>4. QED BY <2>2, <2>3
<1>3. CASE /\ \A k \in 1..(p - 1) : ~IsStart(q[k])
           /\ r.writer.has => r.recvIndex = i
  <2>1. \A k \in 1..(p - 2) : ~IsStart(t[k])
    BY <1>1, <1>3
  <2>2. ~IsStart(Head(q))
    BY <1>1, <1>3
  <2>3. u.writer.has => u.recvIndex = i
    BY <1>3, <2>2
  <2>4. QED BY <2>1, <2>3 DEF Owner
<1>4. QED BY <1>2, <1>3 DEF Owner

LEMMA OwnerAfterStart ==
    ASSUME NEW q \in Seq(Message), NEW m \in Message, IsStart(m), NEW r
    PROVE  Owner(Append(q, m), Len(q) + 2, m.index, r)
BY AppendFacts DEF Owner

LEMMA OwnerAfterOther ==
    ASSUME NEW q \in Seq(Message), NEW m \in Message, ~IsStart(m), NEW r, NEW i,
           Owner(q, Len(q) + 1, i, r)
    PROVE  Owner(Append(q, m), Len(q) + 2, i, r)
<1> DEFINE a == Append(q, m)
<1>1. Len(q) \in Nat /\ (\A p \in 1..Len(q) : a[p] = q[p]) /\ a[Len(q) + 1] = m
  BY AppendFacts
<1>2. CASE \E s \in 1..Len(q) :
              /\ IsStart(q[s]) /\ q[s].index = i
              /\ \A k \in (s + 1)..Len(q) : ~IsStart(q[k])
  <2>1. PICK s \in 1..Len(q) :
              /\ IsStart(q[s]) /\ q[s].index = i
              /\ \A k \in (s + 1)..Len(q) : ~IsStart(q[k])
    BY <1>2
  <2>2. s \in 1..(Len(q) + 1) /\ IsStart(a[s]) /\ a[s].index = i
    BY <1>1, <2>1
  <2>3. \A k \in (s + 1)..(Len(q) + 1) : ~IsStart(a[k])
    BY <1>1, <2>1
  <2>4. QED BY <1>1, <2>2, <2>3 DEF Owner
<1>3. CASE /\ \A k \in 1..Len(q) : ~IsStart(q[k])
           /\ r.writer.has => r.recvIndex = i
  <2>1. \A k \in 1..(Len(q) + 1) : ~IsStart(a[k])
    BY <1>1, <1>3
  <2>2. QED BY <1>1, <1>3, <2>1 DEF Owner
<1>4. QED BY <1>1, <1>2, <1>3 DEF Owner

\* A queue that keeps its promises to the receiver r.
QueueOK(q, r) == q \in Seq(Message) /\ StreamOK(q, r) /\ PayloadOK(q)

LEMMA QueueEmpty ==
    ASSUME NEW r PROVE QueueOK(<<>>, r)
BY DEF QueueOK, StreamOK, PayloadOK

LEMMA QueuePrefix ==
    ASSUME NEW q, NEW r, QueueOK(q, r), NEW k \in 0..Len(q)
    PROVE  QueueOK(SubSeq(q, 1, k), r)
<1> DEFINE t == SubSeq(q, 1, k)
<1>1. q \in Seq(Message) /\ Len(q) \in Nat
  BY DEF QueueOK
<1>2. t \in Seq(Message) /\ Len(t) = k /\ \A p \in 1..k : t[p] = q[p]
  BY <1>1, PrefixFacts
<1>3. StreamOK(t, r)
  <2>1. SUFFICES ASSUME NEW p \in 1..Len(t), IsData(t[p])
                 PROVE  Owner(t, p, t[p].index, r)
    BY DEF StreamOK
  <2>2. p \in 1..Len(q) /\ t[p] = q[p] /\ p \in Nat
    BY <1>1, <1>2
  <2>3. Owner(q, p, t[p].index, r)
    BY <2>1, <2>2 DEF QueueOK, StreamOK
  <2>4. \A j \in 1..(p - 1) : q[j] = t[j]
    BY <1>2, <2>2
  <2>5. QED BY <2>2, <2>3, <2>4, OwnerPrefix
<1>4. PayloadOK(t)
  BY <1>1, <1>2 DEF QueueOK, PayloadOK
<1>5. QED BY <1>2, <1>3, <1>4 DEF QueueOK

\* Adding a packet: a chunk or a digest has to be honest and to belong to the
\* file announced last.
LEMMA QueueAppend ==
    ASSUME NEW q, NEW r, QueueOK(q, r), NEW m \in Message, HonestPacket(m),
           IsData(m) => Owner(q, Len(q) + 1, m.index, r)
    PROVE  QueueOK(Append(q, m), r)
<1> DEFINE a == Append(q, m)
<1>1. q \in Seq(Message) /\ Len(q) \in Nat
  BY DEF QueueOK
<1>2. /\ a \in Seq(Message) /\ Len(a) = Len(q) + 1
      /\ \A p \in 1..Len(q) : a[p] = q[p]
      /\ a[Len(q) + 1] = m
  BY <1>1, AppendFacts
<1>3. StreamOK(a, r)
  <2>1. SUFFICES ASSUME NEW p \in 1..Len(a), IsData(a[p])
                 PROVE  Owner(a, p, a[p].index, r)
    BY DEF StreamOK
  <2>2. p \in Nat /\ \A j \in 1..(p - 1) : q[j] = a[j]
    BY <1>1, <1>2
  <2>3. Owner(q, p, a[p].index, r)
    <3>1. CASE p \in 1..Len(q)
      BY <1>2, <2>1, <3>1 DEF QueueOK, StreamOK
    <3>2. CASE p = Len(q) + 1
      BY <1>2, <2>1, <3>2
    <3>3. QED BY <1>1, <1>2, <3>1, <3>2
  <2>4. QED BY <2>2, <2>3, OwnerPrefix
<1>4. PayloadOK(a)
  BY <1>1, <1>2 DEF QueueOK, PayloadOK
<1>5. QED BY <1>2, <1>3, <1>4 DEF QueueOK

\* What the receiver's state has to be after it has taken the head off.
Took(q, r, u) ==
    IF IsStart(Head(q)) THEN u.recvIndex = Head(q).index
                        ELSE /\ u.recvIndex = r.recvIndex
                             /\ u.writer.has => r.writer.has

LEMMA QueueTail ==
    ASSUME NEW q, NEW r, QueueOK(q, r), q # <<>>, NEW u, Took(q, r, u)
    PROVE  QueueOK(Tail(q), u)
<1> DEFINE t == Tail(q)
<1>1. q \in Seq(Message)
  BY DEF QueueOK
<1>2. /\ t \in Seq(Message) /\ Len(q) \in Nat \ {0} /\ Len(t) = Len(q) - 1
      /\ \A p \in 1..Len(t) : t[p] = q[p + 1]
  BY <1>1, TailFacts
<1>3. StreamOK(t, u)
  <2>1. SUFFICES ASSUME NEW p \in 1..Len(t), IsData(t[p])
                 PROVE  Owner(t, p, t[p].index, u)
    BY DEF StreamOK
  <2>2. p + 1 \in 2..Len(q) /\ t[p] = q[p + 1] /\ (p + 1) - 1 = p
    BY <1>2
  <2>3. p + 1 \in 1..Len(q) /\ p + 1 \in 2..(Len(q) + 1)
    BY <1>2, <2>2
  <2>4. Owner(q, p + 1, t[p].index, r)
    BY <2>1, <2>2, <2>3 DEF QueueOK, StreamOK
  <2>5. Owner(t, (p + 1) - 1, t[p].index, u)
    BY <1>1, <2>3, <2>4, OwnerTail DEF Took
  <2>6. QED BY <2>2, <2>5
<1>4. PayloadOK(t)
  <2>1. SUFFICES ASSUME NEW p \in 1..Len(t) PROVE HonestPacket(t[p])
    BY DEF PayloadOK
  <2>2. p + 1 \in 1..Len(q) /\ t[p] = q[p + 1]
    BY <1>2
  <2>3. QED BY <2>2 DEF QueueOK, PayloadOK
<1>5. QED BY <1>2, <1>3, <1>4 DEF QueueOK

\* A data packet at the head is for the file the receiver has open, if any.
LEMMA HeadIsOwned ==
    ASSUME NEW q, NEW r, QueueOK(q, r), q # <<>>, IsData(Head(q)), r.writer.has
    PROVE  r.recvIndex = Head(q).index
<1>1. Head(q) = q[1] /\ 1 \in 1..Len(q)
  BY TailFacts DEF QueueOK
<1>2. Owner(q, 1, Head(q).index, r)
  BY <1>1 DEF QueueOK, StreamOK
<1>3. QED BY <1>2 DEF Owner

-----------------------------------------------------------------------------
(* The announced file, as the queue grows and shrinks.                     *)

LEMMA AnnouncedTail ==
    ASSUME NEW q \in Seq(Message), q # <<>>, NEW r, NEW u, Took(q, r, u), NEW s,
           AnnouncedOK(q, s, r)
    PROVE  AnnouncedOK(Tail(q), s, u)
<1>1. Len(q) \in Nat \ {0} /\ Len(Tail(q)) = Len(q) - 1
  BY TailFacts
<1>2. SUFFICES ASSUME s.reader.open PROVE Owner(Tail(q), Len(q), s.cur, u)
  BY <1>1 DEF AnnouncedOK
<1>3. Owner(q, Len(q) + 1, s.cur, r) /\ Len(q) + 1 \in 2..(Len(q) + 1)
  BY <1>1, <1>2 DEF AnnouncedOK
<1>4. (Len(q) + 1) - 1 = Len(q)
  BY <1>1
<1>5. QED BY <1>3, <1>4, OwnerTail DEF Took

LEMMA AnnouncedAfterStart ==
    ASSUME NEW q \in Seq(Message), NEW i \in Files, NEW s, s.cur = i, NEW r
    PROVE  AnnouncedOK(Append(q, FileStart(i)), s, r)
<1>1. FileStart(i) \in Message /\ IsStart(FileStart(i)) /\ FileStart(i).index = i
  BY DEF FileStart, Message, IsStart
<1>2. Len(Append(q, FileStart(i))) + 1 = Len(q) + 2
  BY <1>1, AppendFacts
<1>3. QED BY <1>1, <1>2, OwnerAfterStart DEF AnnouncedOK

LEMMA AnnouncedAfterOther ==
    ASSUME NEW q \in Seq(Message), NEW m \in Message, ~IsStart(m), NEW r, NEW s,
           AnnouncedOK(q, s, r)
    PROVE  AnnouncedOK(Append(q, m), s, r)
<1>1. Len(Append(q, m)) + 1 = Len(q) + 2
  BY AppendFacts
<1>2. QED BY <1>1, OwnerAfterOther DEF AnnouncedOK

-----------------------------------------------------------------------------
(* The reader and the sending session.                                     *)

LEMMA SourceFacts ==
    ASSUME NEW i \in Files
    PROVE  /\ Source(i) \in Seq(Block) /\ Len(Source(i)) = SourceSize[i]
           /\ SourceSize[i] \in Nat
           /\ \A k \in 1..SourceSize[i] : Source(i)[k] = <<i, k>>
<1>1. SourceSize[i] \in Nat
  BY SizesAssumption
<1>2. \A k \in 1..SourceSize[i] : <<i, k>> \in Block
  BY <1>1 DEF Block
<1>3. Source(i) = [k \in 1..SourceSize[i] |-> <<i, k>>]
  BY DEF Source
<1>4. Source(i) \in [1..SourceSize[i] -> Block]
  BY <1>2, <1>3
<1>5. Source(i) \in Seq(Block) /\ Len(Source(i)) = SourceSize[i]
  BY <1>1, <1>4
<1>6. QED BY <1>1, <1>3, <1>5

\* A reader on file i with its offset inside the file.
ReaderOn(r, i) ==
    /\ r \in Reader /\ r.open /\ r.has /\ r.file = i
    /\ r.size = SourceSize[i] /\ r.off <= r.size
    /\ r.hashed = SubSeq(Source(i), 1, r.off)

LEMMA OpenReaderFacts ==
    ASSUME NEW i \in Files, NEW off \in Nat
    PROVE  ReaderOn(OpenReader(i, off), i)
<1> DEFINE skip == IF off <= SourceSize[i] THEN off ELSE 0
<1>1. SourceSize[i] \in Nat /\ Source(i) \in Seq(Block) /\ Len(Source(i)) = SourceSize[i]
  BY SourceFacts
<1>2. skip \in 0..SourceSize[i]
  BY <1>1
<1>3. SubSeq(Source(i), 1, skip) \in Seq(Block)
  BY <1>1, <1>2, PrefixFacts
<1>4. QED BY <1>1, <1>2, <1>3 DEF OpenReader, ReaderOn, Reader

LEMMA OpenFailureFacts ==
    ASSUME NEW i \in Files, NEW off \in Nat, NEW r \in OpenFailures(i, off)
    PROVE  r \in Reader /\ ~r.open
<1>1. SourceSize[i] \in Nat /\ Source(i) \in Seq(Block) /\ Len(Source(i)) = SourceSize[i]
  BY SourceFacts
<1>2. NewReader(i) \in Reader /\ ~NewReader(i).open
  <2>1. 1 \in Files
    BY SizesAssumption DEF Files
  <2>2. NoReader \in Reader /\ ~NoReader.open
    BY <2>1 DEF NoReader, Reader
  <2>3. QED BY <2>2 DEF NewReader, Reader
<1>3. ASSUME NEW k \in 0..SourceSize[i]
      PROVE  SubSeq(Source(i), 1, k) \in Seq(Block)
  BY <1>1, PrefixFacts
<1>4. QED BY <1>2, <1>3 DEF OpenFailures, Reader, NewReader, NoReader

LEMMA CloseReaderFacts ==
    ASSUME NEW r \in Reader
    PROVE  CloseReader(r) \in Reader /\ ~CloseReader(r).open
BY DEF CloseReader, Reader

LEMMA ReadFacts ==
    ASSUME NEW i \in Files, NEW r, ReaderOn(r, i), ~IsAtEnd(r)
    PROVE  /\ ReaderOn(ReadNextChunk(r), i)
           /\ NextBlock(r) = <<i, r.off + 1>> /\ NextBlock(r) \in Block
           /\ r.off < SourceSize[i] /\ r.off \in Nat
<1> DEFINE S == Source(i)
           n == r.off
<1>1. /\ S \in Seq(Block) /\ Len(S) = SourceSize[i] /\ SourceSize[i] \in Nat
      /\ \A k \in 1..SourceSize[i] : S[k] = <<i, k>>
  BY SourceFacts
<1>2. n \in Nat /\ n < SourceSize[i]
  BY <1>1 DEF ReaderOn, Reader, IsAtEnd
<1>3. NextBlock(r) = <<i, n + 1>> /\ <<i, n + 1>> \in Block
  BY <1>2 DEF NextBlock, ReaderOn, Block
<1>4. Append(SubSeq(S, 1, n), <<i, n + 1>>) = SubSeq(S, 1, n + 1)
  <2> HIDE DEF S, n
  <2>1. n \in 0..Len(S) /\ n + 1 \in 0..Len(S)
    BY <1>1, <1>2
  <2>2. /\ SubSeq(S, 1, n) \in Seq(Block) /\ Len(SubSeq(S, 1, n)) = n
        /\ \A k \in 1..n : SubSeq(S, 1, n)[k] = S[k]
    BY <1>1, <2>1, PrefixFacts
  <2>3. /\ SubSeq(S, 1, n + 1) \in Seq(Block) /\ Len(SubSeq(S, 1, n + 1)) = n + 1
        /\ \A k \in 1..(n + 1) : SubSeq(S, 1, n + 1)[k] = S[k]
    BY <1>1, <2>1, PrefixFacts
  <2>4. S[n + 1] = <<i, n + 1>>
    BY <1>1, <1>2
  <2>5. /\ Append(SubSeq(S, 1, n), <<i, n + 1>>) \in Seq(Block)
        /\ Len(Append(SubSeq(S, 1, n), <<i, n + 1>>)) = n + 1
        /\ \A k \in 1..n : Append(SubSeq(S, 1, n), <<i, n + 1>>)[k] = S[k]
        /\ Append(SubSeq(S, 1, n), <<i, n + 1>>)[n + 1] = <<i, n + 1>>
    BY <1>3, <2>2, AppendFacts
  <2>6. \A k \in 1..(n + 1) :
            Append(SubSeq(S, 1, n), <<i, n + 1>>)[k] = SubSeq(S, 1, n + 1)[k]
    BY <1>2, <2>3, <2>4, <2>5
  <2>7. QED BY <2>3, <2>5, <2>6, SeqEqual
<1>5. ReadNextChunk(r) = [r EXCEPT !.off = n + 1, !.hashed = SubSeq(S, 1, n + 1)]
  BY <1>3, <1>4 DEF ReadNextChunk, ReaderOn, Reader
<1>6. SubSeq(S, 1, n + 1) \in Seq(Block)
  BY <1>1, <1>2, PrefixFacts
<1>7. ReaderOn(ReadNextChunk(r), i)
  <2> HIDE DEF S, n
  <2>1. /\ r \in Reader /\ r.open /\ r.has /\ r.file = i
        /\ r.size = SourceSize[i]
    BY DEF ReaderOn
  <2>2. ReadNextChunk(r) \in Reader
    <3>1. n + 1 \in Nat
      BY <1>2
    <3>2. QED BY <1>5, <1>6, <2>1, <3>1 DEF Reader
  <2>3. /\ ReadNextChunk(r).open = r.open /\ ReadNextChunk(r).has = r.has
        /\ ReadNextChunk(r).file = r.file /\ ReadNextChunk(r).size = r.size
        /\ ReadNextChunk(r).off = n + 1
        /\ ReadNextChunk(r).hashed = SubSeq(S, 1, n + 1)
    BY <1>5, <2>1 DEF Reader
  <2>4. n + 1 <= SourceSize[i]
    BY <1>1, <1>2
  <2>5. QED BY <2>1, <2>2, <2>3, <2>4 DEF ReaderOn, S
<1>8. QED BY <1>2, <1>3, <1>7

\* At the end of the file the reader has hashed all of it.
LEMMA AtEndFacts ==
    ASSUME NEW i \in Files, NEW r, ReaderOn(r, i), IsAtEnd(r)
    PROVE  r.hashed = Source(i)
<1>1. Source(i) \in Seq(Block) /\ Len(Source(i)) = SourceSize[i] /\ SourceSize[i] \in Nat
  BY SourceFacts
<1>2. r.off = Len(Source(i))
  BY <1>1 DEF ReaderOn, Reader, IsAtEnd
<1>3. QED BY <1>1, <1>2 DEF ReaderOn

LEMMA ReaderOKOn ==
    ASSUME NEW s \in Sender, ReaderOK(s), s.status = "Transferring"
    PROVE  ReaderOn(s.reader, s.cur) /\ s.cur \in Files
BY DEF ReaderOK, ReadsCurrent, MustRead, Opening, ReaderOn, Sender

LEMMA WithStatusSender ==
    ASSUME NEW s \in Sender, NEW st \in Statuses
    PROVE  /\ WithStatus(s, st) \in Sender /\ WithStatus(s, st).status = st
           /\ WithStatus(s, st).reader = s.reader /\ WithStatus(s, st).cur = s.cur
           /\ st \in Final \cup {"WaitingApproval"} => ~WithStatus(s, st).button
           /\ st = "Paused" => WithStatus(s, st).button = s.button
BY DEF WithStatus, Sender, Final

-----------------------------------------------------------------------------
(* Streaming.  SenderSide collects what a step of the sending session has  *)
(* to preserve, for a session state s and a queue q.                       *)

SenderSide(s, q) ==
    /\ s \in Sender /\ s.status \notin Opening /\ ReaderOK(s)
    /\ QueueOK(q, receiver)
    /\ Linked => AnnouncedOK(q, s, receiver)

\* The packets sent so far in this handler leave the queue in order.
SentOK(s, sent) ==
    /\ sent \in Seq(Message)
    /\ Linked => /\ QueueOK(toRecv \o sent, receiver)
                 /\ AnnouncedOK(toRecv \o sent, s, receiver)

LEMMA ConcatAppend ==
    ASSUME NEW S, NEW q \in Seq(S), NEW t \in Seq(S), NEW m \in S
    PROVE  /\ q \o t \in Seq(S)
           /\ q \o Append(t, m) = Append(q \o t, m)
    OBVIOUS

\* Sending one more honest packet about the current file, if about any.
LEMMA SendOne ==
    ASSUME NEW s, NEW sent, QueueOK(toRecv, receiver), SentOK(s, sent),
           NEW m \in Message, HonestPacket(m), ~IsStart(m),
           IsData(m) => s.reader.open /\ m.index = s.cur
    PROVE  SentOK(s, Append(sent, m))
<1>1. toRecv \in Seq(Message)
  BY DEF QueueOK
<1>2. sent \in Seq(Message) /\ Append(sent, m) \in Seq(Message)
  BY AppendFacts DEF SentOK
<1> DEFINE t == Append(sent, m)
<1>0. toRecv \o t = Append(toRecv \o sent, m)
  BY <1>1, <1>2, ConcatAppend
<1> HIDE DEF t
<1>3. SUFFICES ASSUME Linked
               PROVE  /\ QueueOK(Append(toRecv \o sent, m), receiver)
                      /\ AnnouncedOK(Append(toRecv \o sent, m), s, receiver)
  <2>1. t \in Seq(Message)
    BY <1>2 DEF t
  <2>2. SUFFICES SentOK(s, t)
    BY DEF t
  <2>3. QED BY <1>0, <2>1 DEF SentOK
<1>4. toRecv \o sent \in Seq(Message)
  BY <1>1, <1>2, ConcatAppend
<1>5. /\ QueueOK(toRecv \o sent, receiver)
      /\ AnnouncedOK(toRecv \o sent, s, receiver)
  BY <1>3 DEF SentOK
<1>6. IsData(m) => Owner(toRecv \o sent, Len(toRecv \o sent) + 1, m.index, receiver)
  BY <1>5 DEF AnnouncedOK
<1>7. QueueOK(Append(toRecv \o sent, m), receiver)
  BY <1>5, <1>6, QueueAppend
<1>8. AnnouncedOK(Append(toRecv \o sent, m), s, receiver)
  BY <1>4, <1>5, AnnouncedAfterOther
<1>9. QED BY <1>7, <1>8

\* What is sent reaches the queue only over a whole link; the session may by
\* then be in a state t that reads the same file.
LEMMA SendReaches ==
    ASSUME NEW s, NEW t \in Sender, NEW sent, QueueOK(toRecv, receiver),
           SentOK(s, sent), SendToReceiver(sent),
           t.status \notin Opening, ReaderOK(t),
           t.reader.open => s.reader.open /\ t.cur = s.cur
    PROVE  SenderSide(t, toRecv')
<1>1. CASE Linked
  <2>1. toRecv' = toRecv \o sent
    BY <1>1 DEF SendToReceiver
  <2>2. QueueOK(toRecv', receiver) /\ AnnouncedOK(toRecv', s, receiver)
    BY <1>1, <2>1 DEF SentOK
  <2>3. AnnouncedOK(toRecv', t, receiver)
    BY <2>2 DEF AnnouncedOK
  <2>4. QED BY <2>2, <2>3 DEF SenderSide
<1>2. CASE ~Linked
  BY <1>2 DEF SendToReceiver, SenderSide
<1>3. QED BY <1>1, <1>2

LEMMA SendNextChunkOK ==
    ASSUME NEW s \in Sender, s.status \notin Opening, ReaderOK(s), NEW sent,
           QueueOK(toRecv, receiver), SentOK(s, sent), SendNextChunk(s, sent)
    PROVE  SenderSide(sender', toRecv')
<1>1. CASE sender' = s /\ SendToReceiver(sent)
  BY <1>1, SendReaches
<1> DEFINE i == s.cur
           r == s.reader
<1>2. ASSUME MaySend(s)
      PROVE  ReaderOn(r, i) /\ i \in Files /\ s.status = "Transferring"
  BY <1>2, ReaderOKOn DEF MaySend
<1>3. CASE /\ MaySend(s) /\ IsAtEnd(r)
           /\ sender' = [s EXCEPT !.waiting = TRUE]
           /\ SendToReceiver(Append(sent, FileEnd(i, r.hashed)))
  <2>1. r.hashed = Source(i) /\ r.open /\ i \in Files /\ Source(i) \in Seq(Block)
    BY <1>2, <1>3, AtEndFacts, SourceFacts DEF ReaderOn
  <2>2. /\ FileEnd(i, r.hashed) \in Message /\ HonestPacket(FileEnd(i, r.hashed))
        /\ ~IsStart(FileEnd(i, r.hashed)) /\ FileEnd(i, r.hashed).index = i
    BY <2>1 DEF FileEnd, Message, HonestPacket, IsStart
  <2>3. SentOK(s, Append(sent, FileEnd(i, r.hashed)))
    BY <2>1, <2>2, SendOne
  <2>4. /\ sender' \in Sender /\ ReaderOK(sender') /\ sender'.status \notin Opening
        /\ sender'.cur = s.cur /\ sender'.reader = s.reader
    BY <1>3 DEF Sender, ReaderOK, ReadsCurrent, MustRead
  <2>5. QED BY <1>3, <2>3, <2>4, SendReaches
<1>4. CASE /\ MaySend(s) /\ ~IsAtEnd(r) /\ sock["send"] = "open"
           /\ sender' = [s EXCEPT !.reader = ReadNextChunk(@),
                                  !.fileSent = @ + 1, !.total = @ + 1]
           /\ SendToReceiver(Append(sent, FileDataChunk(i, r.off, NextBlock(r))))
  <2> DEFINE m == FileDataChunk(i, r.off, NextBlock(r))
  <2>1. ReaderOn(r, i) /\ i \in Files /\ s.status = "Transferring" /\ r.open
    BY <1>2, <1>4 DEF ReaderOn
  <2>2. /\ ReaderOn(ReadNextChunk(r), i)
        /\ NextBlock(r) = <<i, r.off + 1>> /\ NextBlock(r) \in Block
        /\ r.off < SourceSize[i] /\ r.off \in Nat
    BY <1>4, <2>1, ReadFacts
  <2>3. m \in Message /\ HonestPacket(m) /\ ~IsStart(m) /\ m.index = i
    BY <2>1, <2>2 DEF FileDataChunk, Message, HonestPacket, IsStart
  <2>4. SentOK(s, Append(sent, m))
    BY <2>1, <2>3, SendOne
  <2>5. /\ sender' \in Sender /\ sender'.status = "Transferring"
        /\ sender'.cur = i /\ sender'.reader = ReadNextChunk(r)
    <3> DEFINE x == ReadNextChunk(r)
    <3>1. x \in Reader
      BY <2>2 DEF ReaderOn
    <3>2. sender' = [s EXCEPT !.reader = x, !.fileSent = s.fileSent + 1,
                              !.total = s.total + 1]
      BY <1>4
    <3> HIDE DEF x
    <3>3. s.fileSent + 1 \in Nat /\ s.total + 1 \in Nat
      BY DEF Sender
    <3>4. /\ sender' \in Sender /\ sender'.status = s.status
          /\ sender'.cur = s.cur /\ sender'.reader = x
      BY <3>1, <3>2, <3>3 DEF Sender
    <3>5. QED BY <2>1, <3>4 DEF x
  <2>6. ReaderOK(sender')
    BY <2>2, <2>5 DEF ReaderOK, ReadsCurrent, MustRead, Opening, ReaderOn
  <2>7. QED BY <1>4, <2>1, <2>4, <2>5, <2>6, SendReaches
<1>5. CASE /\ MaySend(s) /\ ~IsAtEnd(r)
           /\ \E x \in {r, ReadNextChunk(r)} :
                 ChunkFails(s, x) /\ sender' = [WithStatus(s, "Failed") EXCEPT !.reader = x]
           /\ SendToReceiver(sent)
  <2>1. ReaderOn(r, i) /\ i \in Files /\ ReaderOn(ReadNextChunk(r), i) /\ r.open
    BY <1>2, <1>5, ReadFacts DEF ReaderOn
  <2>2. PICK x \in {r, ReadNextChunk(r)} :
               sender' = [WithStatus(s, "Failed") EXCEPT !.reader = x]
    BY <1>5
  <2>3. ReaderOn(x, i) /\ x \in Reader
    BY <2>1, <2>2 DEF ReaderOn
  <2>4. /\ WithStatus(s, "Failed") \in Sender /\ WithStatus(s, "Failed").cur = i
        /\ WithStatus(s, "Failed").status = "Failed"
        /\ ~WithStatus(s, "Failed").button
    BY WithStatusSender DEF Statuses, Final
  <2>5. /\ sender' \in Sender /\ sender'.status = "Failed" /\ ~sender'.button
        /\ sender'.cur = i /\ sender'.reader = x
    BY <2>2, <2>3, <2>4 DEF Sender
  <2>6. ReaderOK(sender')
    BY <2>3, <2>5 DEF ReaderOK, ReadsCurrent, MustRead, Opening, ReaderOn
  <2>7. QED BY <1>5, <2>1, <2>5, <2>6, SendReaches DEF Opening
<1>6. QED BY <1>1, <1>3, <1>4, <1>5 DEF SendNextChunk

LEMMA StartSendingFileOK ==
    ASSUME NEW s \in Sender, s.status \notin Opening,
           ~s.reader.open \/ (Linked => AnnouncedOK(toRecv, s, receiver)),
           ReadsCurrent(s),
           NEW i \in Nat \ {0}, NEW off \in Nat,
           QueueOK(toRecv, receiver), StartSendingFile(s, i, off)
    PROVE  SenderSide(sender', toRecv')
<1>1. toRecv \in Seq(Message)
  BY DEF QueueOK
<1>2. CASE /\ i > NumFiles
           /\ sender' = [WithStatus(s, "Completed") EXCEPT
                            !.total = TotalSize, !.fileSent = ManifestSize[s.cur]]
           /\ SendToReceiver(<<Signal("TransferComplete")>>)
  <2> DEFINE m == Signal("TransferComplete")
  <2>1. /\ WithStatus(s, "Completed") \in Sender
        /\ WithStatus(s, "Completed").status = "Completed"
        /\ WithStatus(s, "Completed").cur = s.cur
        /\ WithStatus(s, "Completed").reader = s.reader
        /\ ~WithStatus(s, "Completed").button
    BY WithStatusSender DEF Statuses, Final
  <2>2. ManifestSize[s.cur] \in Nat /\ TotalSize \in Nat
    BY SizesAssumption, SessionAssumption DEF Sender
  <2>3. /\ sender' \in Sender /\ sender'.status = "Completed" /\ ~sender'.button
        /\ sender'.cur = s.cur /\ sender'.reader = s.reader
    BY <1>2, <2>1, <2>2 DEF Sender
  <2>4. ReaderOK(sender')
    BY <2>3 DEF ReaderOK, ReadsCurrent, MustRead, Opening, Sender
  <2>5. m \in Message /\ HonestPacket(m) /\ ~IsStart(m) /\ ~IsData(m)
    BY DEF Signal, Message, Signals, HonestPacket, IsStart, IsData
  <2>6. toRecv \o <<m>> = Append(toRecv, m)
    BY <1>1, <2>5, ConcatOne
  <2>7. QueueOK(Append(toRecv, m), receiver)
    BY <2>5, QueueAppend
  <2>8. ASSUME Linked PROVE AnnouncedOK(Append(toRecv, m), sender', receiver)
    <3>1. AnnouncedOK(toRecv, sender', receiver)
      BY <2>3, <2>8 DEF AnnouncedOK
    <3>2. QED BY <1>1, <2>5, <3>1, AnnouncedAfterOther
  <2>9. QED BY <1>2, <2>3, <2>4, <2>6, <2>7, <2>8 DEF SenderSide, SendToReceiver, Opening
<1>3. CASE /\ i <= NumFiles
           /\ SendNextChunk([s EXCEPT !.cur = i, !.fileSent = off, !.waiting = FALSE,
                                      !.reader = OpenReader(i, off)],
                            <<FileStart(i)>>)
  <2> DEFINE t == [s EXCEPT !.cur = i, !.fileSent = off, !.waiting = FALSE,
                            !.reader = OpenReader(i, off)]
             m == FileStart(i)
  <2>1. i \in Files
    BY <1>3, SizesAssumption DEF Files
  <2>2. ReaderOn(OpenReader(i, off), i)
    BY <2>1, OpenReaderFacts
  <2>3. /\ t \in Sender /\ t.status \notin Opening /\ t.cur = i
        /\ t.reader = OpenReader(i, off)
    BY <2>1, <2>2 DEF Sender, ReaderOn
  <2>4. ReaderOK(t)
    BY <2>2, <2>3 DEF ReaderOK, ReadsCurrent, MustRead, Opening, ReaderOn
  <2>5. m \in Message /\ HonestPacket(m) /\ ~IsData(m)
    BY <2>1 DEF FileStart, Message, HonestPacket, IsData
  <2>6. /\ <<m>> \in Seq(Message)
        /\ toRecv \o <<m>> = Append(toRecv, m)
    BY <1>1, <2>5, ConcatOne
  <2>7. QueueOK(Append(toRecv, m), receiver)
    BY <2>5, QueueAppend
  <2>8. AnnouncedOK(Append(toRecv, m), t, receiver)
    BY <1>1, <2>1, <2>3, AnnouncedAfterStart
  <2>9. SentOK(t, <<m>>)
    BY <2>6, <2>7, <2>8 DEF SentOK
  <2>10. QED BY <1>3, <2>3, <2>4, <2>9, SendNextChunkOK
<1>4. CASE /\ i <= NumFiles
           /\ \E r \in OpenFailures(i, off) :
                 sender' = [WithStatus(s, "Failed") EXCEPT
                                !.cur = i, !.fileSent = off, !.reader = r]
           /\ SendToReceiver(<<>>)
  <2>1. i \in Files
    BY <1>4, SizesAssumption DEF Files
  <2>2. PICK r \in OpenFailures(i, off) :
               sender' = [WithStatus(s, "Failed") EXCEPT
                              !.cur = i, !.fileSent = off, !.reader = r]
    BY <1>4
  <2>3. r \in Reader /\ ~r.open
    BY <2>1, OpenFailureFacts
  <2>4. /\ WithStatus(s, "Failed") \in Sender
        /\ WithStatus(s, "Failed").status = "Failed" /\ ~WithStatus(s, "Failed").button
    BY WithStatusSender DEF Statuses, Final
  <2>5. /\ sender' \in Sender /\ sender'.status = "Failed"
        /\ ~sender'.button /\ sender'.reader = r
    BY <2>1, <2>2, <2>3, <2>4 DEF Sender
  <2>6. ReaderOK(sender')
    BY <2>3, <2>5 DEF ReaderOK, ReadsCurrent, MustRead, Opening
  <2>7. toRecv' = toRecv
    BY <1>1, <1>4, ConcatNone DEF SendToReceiver
  <2>8. QED BY <2>3, <2>5, <2>6, <2>7 DEF SenderSide, AnnouncedOK, Opening
<1>5. QED BY <1>2, <1>3, <1>4 DEF StartSendingFile

-----------------------------------------------------------------------------
(* Steps of the sending session.                                           *)

DiskType(d) ==
    /\ d = [final |-> d.final, partial |-> d.partial]
    /\ IsStore(d.final) /\ IsStore(d.partial)

\* A step of the sending side keeps the invariant if it leaves the session and
\* the queue in order.
LEMMA SenderStepOK ==
    ASSUME SessionInv,
           sender' \in Sender, sender'.status \notin Opening, ReaderOK(sender'),
           QueueOK(toRecv', receiver),
           Linked' => AnnouncedOK(toRecv', sender', receiver),
           toSend' \in Seq(Message), pauses' \in Nat,
           sock' \in [Sides -> SockStates],
           sock'["send"] \notin {"none", "connecting"},
           UNCHANGED <<receiver, cut, disk>>
    PROVE  SessionInv'
<1>1. TypeOK'
  BY DEF SessionInv, TypeOK, QueueOK
<1>2. EarlyOK'
  BY DEF EarlyOK, Early, Opening
<1>3. WriterOK(receiver.writer, receiver.recvIndex, disk)' /\ HoldsCopies(disk)'
  BY DEF SessionInv
<1>4. StreamOK(toRecv, receiver)' /\ PayloadOK(toRecv)'
  BY DEF QueueOK
<1>5. (Linked => AnnouncedOK(toRecv, sender, receiver))'
  OBVIOUS
<1>6. HandshakeFirst'
  BY DEF HandshakeFirst
<1>7. QED BY <1>1, <1>2, <1>3, <1>4, <1>5, <1>6 DEF SessionInv

LEMMA SenderSideOK ==
    ASSUME SessionInv, SenderSide(sender', toRecv'),
           toSend' \in Seq(Message), pauses' \in Nat, ~Early,
           UNCHANGED <<receiver, sock, cut, disk>>
    PROVE  SessionInv'
<1>1. Linked' = Linked
  BY DEF Linked
<1>2. sock' \in [Sides -> SockStates] /\ sock'["send"] \notin {"none", "connecting"}
  BY DEF SessionInv, TypeOK, Early
<1>3. QED BY <1>1, <1>2, SenderStepOK DEF SenderSide

\* What the invariant says to a step of the sending side.
LEMMA SenderKnows ==
    ASSUME SessionInv
    PROVE  /\ sender \in Sender /\ ReaderOK(sender) /\ QueueOK(toRecv, receiver)
           /\ toRecv \in Seq(Message) /\ toSend \in Seq(Message) /\ pauses \in Nat
           /\ Linked => AnnouncedOK(toRecv, sender, receiver)
           /\ sock \in [Sides -> SockStates]
           /\ toSend # <<>> \/ sender.status \notin {"Idle", "Connecting"} =>
                 ~Early /\ sender.status # "Idle"
BY DEF SessionInv, TypeOK, QueueOK, EarlyOK

\* A session that keeps its reader and its file is in order if it may not
\* stream, or the reader is open.
LEMMA ReaderKept ==
    ASSUME NEW s \in Sender, NEW t \in Sender, ReaderOK(s),
           t.reader = s.reader, t.cur = s.cur,
           t.status = "Transferring" \/ t.button => s.reader.open
    PROVE  ReaderOK(t)
BY DEF ReaderOK, ReadsCurrent, MustRead

\* A handler that changes nothing but the session, to a status with no stream.
LEMMA SenderOnly ==
    ASSUME SessionInv, sender' \in Sender, sender'.status \notin Opening,
           ReaderOK(sender'),
           sender'.reader.open => sender.reader.open /\ sender'.cur = sender.cur,
           toRecv' = toRecv, toSend' \in Seq(Message), pauses' \in Nat,
           sock' \in [Sides -> SockStates],
           sock'["send"] \notin {"none", "connecting"}, Linked' => Linked,
           UNCHANGED <<receiver, cut, disk>>
    PROVE  SessionInv'
<1>1. QueueOK(toRecv', receiver)
  BY SenderKnows
<1>2. Linked' => AnnouncedOK(toRecv', sender', receiver)
  BY SenderKnows DEF AnnouncedOK
<1>3. QED BY <1>1, <1>2, SenderStepOK

\* What the invariant says to a handler of the sending session.
LEMMA SenderTakes ==
    ASSUME SessionInv, NEW type, SenderHandles(type)
    PROVE  /\ Head(toSend) \in Message /\ Head(toSend).type = type
           /\ toSend' \in Seq(Message) /\ pauses' \in Nat
           /\ ~Early /\ sender.status # "Idle"
           /\ type \notin {"HandshakeResp", "TransferCancel"} =>
                 sender.status \notin Opening
           /\ UNCHANGED <<receiver, sock, cut, disk>> /\ Linked' = Linked
<1>1. toSend \in Seq(Message) /\ toSend # <<>> /\ Head(toSend).type = type
  BY SenderKnows DEF SenderHandles, SenderGets
<1>2. Tail(toSend) \in Seq(Message) /\ Head(toSend) \in Message
      /\ Head(toSend) = toSend[1] /\ 1 \in 1..Len(toSend)
  BY <1>1, TailFacts
<1>3. type \notin {"HandshakeResp", "TransferCancel"} => sender.status \notin Opening
  BY <1>1, <1>2 DEF SessionInv, HandshakeFirst
<1>4. ~Early /\ sender.status # "Idle"
  BY <1>1, SenderKnows
<1>5. UNCHANGED <<receiver, sock, cut, disk>> /\ Linked' = Linked
  BY DEF SenderHandles, Linked
<1>6. toSend' \in Seq(Message) /\ pauses' \in Nat
  BY <1>2, SenderKnows DEF SenderHandles
<1>7. QED BY <1>1, <1>2, <1>3, <1>4, <1>5, <1>6

\* The index and offset a packet names.
LEMMA IndexedPacket ==
    ASSUME NEW m \in Message, m.type \in {"TransferAccept", "TransferResume"}
    PROVE  m.index \in Files /\ m.index \in Nat \ {0} /\ m.offset \in Nat
<1>1. m.index \in Files /\ m.offset \in Nat
  BY DEF Message, Signals
<1>2. QED BY <1>1, SizesAssumption DEF Files

LEMMA HandshakeRespOK ==
    ASSUME SessionInv, OnHandshakeResp PROVE SessionInv'
<1> DEFINE m == Signal("TransferOffer")
<1>1. SenderHandles("HandshakeResp")
  BY DEF OnHandshakeResp
<1>2. /\ toSend' \in Seq(Message) /\ pauses' \in Nat /\ ~Early
      /\ UNCHANGED <<receiver, sock, cut, disk>>
  BY <1>1, SenderTakes
<1>3. /\ sender \in Sender /\ ReaderOK(sender) /\ QueueOK(toRecv, receiver)
      /\ toRecv \in Seq(Message)
      /\ Linked => AnnouncedOK(toRecv, sender, receiver)
  BY SenderKnows
<1>4. /\ sender' \in Sender /\ sender'.status = "WaitingApproval" /\ ~sender'.button
      /\ sender'.cur = sender.cur /\ sender'.reader = sender.reader
  BY <1>3, WithStatusSender DEF OnHandshakeResp, Statuses
<1>5. ReaderOK(sender')
  BY <1>3, <1>4, ReaderKept
<1>6. m \in Message /\ HonestPacket(m) /\ ~IsStart(m) /\ ~IsData(m)
  BY DEF Signal, Message, Signals, HonestPacket, IsStart, IsData
<1>7. toRecv \o <<>> = toRecv /\ <<>> \in Seq(Message)
  BY <1>3, ConcatNone
<1>8. SentOK(sender, <<>>)
  BY <1>3, <1>7 DEF SentOK
<1>9. SentOK(sender, Append(<<>>, m))
  BY <1>3, <1>6, <1>8, SendOne
<1>10. SendToReceiver(Append(<<>>, m))
  BY DEF OnHandshakeResp
<1>11. SenderSide(sender', toRecv')
  BY <1>3, <1>4, <1>5, <1>9, <1>10, SendReaches DEF Opening
<1>12. QED BY <1>2, <1>11, SenderSideOK

\* TransferAccept and TransferResume both start a file at an offset.
LEMMA StartingOK ==
    ASSUME SessionInv, NEW type \in {"TransferAccept", "TransferResume"},
           SenderHandles(type),
           StartSendingFile(WithStatus(sender, "Transferring"),
                            Head(toSend).index, Head(toSend).offset)
    PROVE  SessionInv'
<1> DEFINE s == WithStatus(sender, "Transferring")
<1>1. /\ toSend' \in Seq(Message) /\ pauses' \in Nat /\ ~Early
      /\ UNCHANGED <<receiver, sock, cut, disk>>
      /\ Head(toSend) \in Message /\ Head(toSend).type = type
  BY SenderTakes
<1>2. Head(toSend).index \in Nat \ {0} /\ Head(toSend).offset \in Nat
  BY <1>1, IndexedPacket
<1>3. /\ sender \in Sender /\ ReaderOK(sender) /\ QueueOK(toRecv, receiver)
      /\ Linked => AnnouncedOK(toRecv, sender, receiver)
  BY SenderKnows
<1>4. /\ s \in Sender /\ s.status = "Transferring"
      /\ s.cur = sender.cur /\ s.reader = sender.reader
  BY <1>3, WithStatusSender DEF Statuses
<1> HIDE DEF s
<1>5. ReadsCurrent(s)
  BY <1>3, <1>4 DEF ReaderOK, ReadsCurrent
<1>6. Linked => AnnouncedOK(toRecv, s, receiver)
  BY <1>3, <1>4 DEF AnnouncedOK
<1>7. s.status \notin Opening
  BY <1>4 DEF Opening
<1>8. StartSendingFile(s, Head(toSend).index, Head(toSend).offset)
  BY DEF s
<1>9. SenderSide(sender', toRecv')
  BY <1>2, <1>3, <1>4, <1>5, <1>6, <1>7, <1>8, StartSendingFileOK
<1>10. QED BY <1>1, <1>9, SenderSideOK

\* A handler that only sets the status, and perhaps closes the reader.
LEMMA SenderEndsOK ==
    ASSUME SessionInv, NEW type, SenderHandles(type), UNCHANGED toRecv,
           sender' \in Sender, sender'.status \notin Opening, ReaderOK(sender'),
           sender'.reader.open => sender.reader.open /\ sender'.cur = sender.cur
    PROVE  SessionInv'
<1>1. /\ toSend' \in Seq(Message) /\ pauses' \in Nat /\ ~Early
      /\ UNCHANGED <<receiver, sock, cut, disk>> /\ Linked' = Linked
  BY SenderTakes
<1>2. sock' \in [Sides -> SockStates] /\ sock'["send"] \notin {"none", "connecting"}
  BY <1>1, SenderKnows DEF Early
<1>3. QED BY <1>1, <1>2, SenderOnly

\* An end, with the reader as it was.
LEMMA SenderEndFacts ==
    ASSUME SessionInv, NEW st \in Final \cup {"Paused"},
           sender' = WithStatus(sender, st),
           st = "Paused" => sender.status \notin Opening
    PROVE  /\ sender' \in Sender /\ sender'.status \notin Opening
           /\ ReaderOK(sender')
           /\ sender'.reader = sender.reader /\ sender'.cur = sender.cur
<1>1. sender \in Sender /\ ReaderOK(sender)
  BY SenderKnows
<1>2. /\ sender' \in Sender /\ sender'.status = st
      /\ sender'.cur = sender.cur /\ sender'.reader = sender.reader
      /\ st \in Final => ~sender'.button
      /\ st = "Paused" => sender'.button = sender.button
  BY <1>1, WithStatusSender DEF Statuses, Final
<1>3. sender'.status # "Transferring" /\ sender'.status \notin Opening
  BY <1>2 DEF Final, Opening
<1>4. sender'.button => sender.reader.open
  BY <1>1, <1>2 DEF ReaderOK, MustRead, Final
<1>5. QED BY <1>1, <1>2, <1>3, <1>4, ReaderKept

LEMMA FileAckOK ==
    ASSUME SessionInv, OnFileAck PROVE SessionInv'
<1> DEFINE s == [sender EXCEPT !.reader = CloseReader(@)]
<1>1. SenderHandles("FileAck")
  BY DEF OnFileAck
<1>2. /\ toSend' \in Seq(Message) /\ pauses' \in Nat /\ ~Early
      /\ UNCHANGED <<receiver, sock, cut, disk>>
      /\ sender.status \notin Opening
  BY <1>1, SenderTakes
<1>3. /\ sender \in Sender /\ ReaderOK(sender) /\ QueueOK(toRecv, receiver)
  BY SenderKnows
<1>4. CASE StartSendingFile(s, sender.cur + 1, 0)
  <2>1. CloseReader(sender.reader) \in Reader /\ ~CloseReader(sender.reader).open
    BY <1>3, CloseReaderFacts DEF Sender
  <2>2. s \in Sender /\ s.status = sender.status /\ ~s.reader.open
    BY <1>3, <2>1 DEF Sender
  <2>3. ReadsCurrent(s)
    BY <2>2 DEF ReadsCurrent
  <2>4. sender.cur + 1 \in Nat \ {0} /\ 0 \in Nat
    BY <1>3, SizesAssumption DEF Sender, Files
  <2> HIDE DEF s
  <2>5. SenderSide(sender', toRecv')
    BY <1>2, <1>3, <1>4, <2>2, <2>3, <2>4, StartSendingFileOK
  <2>6. QED BY <1>2, <2>5, SenderSideOK
<1>5. CASE sender' = WithStatus(sender, "Failed") /\ UNCHANGED toRecv
  BY <1>1, <1>5, SenderEndFacts, SenderEndsOK DEF Final
<1>6. QED BY <1>4, <1>5 DEF OnFileAck

LEMMA ClosingReader ==
    ASSUME SessionInv,
           sender' = [WithStatus(sender, "Cancelled") EXCEPT !.reader = CloseReader(@)]
    PROVE  /\ sender' \in Sender /\ sender'.status \notin Opening
           /\ ReaderOK(sender') /\ ~sender'.reader.open
<1>1. sender \in Sender
  BY SenderKnows
<1>2. /\ WithStatus(sender, "Cancelled") \in Sender
      /\ WithStatus(sender, "Cancelled").status = "Cancelled"
      /\ WithStatus(sender, "Cancelled").reader = sender.reader
      /\ ~WithStatus(sender, "Cancelled").button
  BY <1>1, WithStatusSender DEF Statuses, Final
<1>3. CloseReader(sender.reader) \in Reader /\ ~CloseReader(sender.reader).open
  BY <1>1, CloseReaderFacts DEF Sender
<1>4. /\ sender' \in Sender /\ sender'.status = "Cancelled"
      /\ ~sender'.button /\ ~sender'.reader.open
  BY <1>2, <1>3 DEF Sender
<1>5. QED BY <1>4 DEF ReaderOK, ReadsCurrent, MustRead, Opening

\* Every packet handler of the sending session keeps the invariant.
LEMMA SenderStepKeeps ==
    ASSUME SessionInv, SenderStep PROVE SessionInv'
<1>1. CASE OnHandshakeResp
  BY <1>1, HandshakeRespOK
<1>2. CASE OnTransferAccept
  BY <1>2, StartingOK DEF OnTransferAccept
<1>3. CASE OnTransferReject
  BY <1>3, SenderEndFacts, SenderEndsOK DEF OnTransferReject, Final
<1>4. CASE OnFileAck
  BY <1>4, FileAckOK
<1>5. CASE OnSenderPause
  <2>1. SenderHandles("TransferPause") /\ UNCHANGED toRecv
    BY <1>5 DEF OnSenderPause
  <2>2. sender.status \notin Opening
    BY <2>1, SenderTakes
  <2>3. QED BY <1>5, <2>1, <2>2, SenderEndFacts, SenderEndsOK DEF OnSenderPause
<1>6. CASE OnSenderResume
  BY <1>6, StartingOK DEF OnSenderResume
<1>7. CASE OnSenderCancel
  BY <1>7, ClosingReader, SenderEndsOK DEF OnSenderCancel
<1>8. QED BY <1>1, <1>2, <1>3, <1>4, <1>5, <1>6, <1>7 DEF SenderStep

LEMMA ChunkLoopKeeps ==
    ASSUME SessionInv, ChunkLoop PROVE SessionInv'
<1>1. /\ sender \in Sender /\ ReaderOK(sender) /\ QueueOK(toRecv, receiver)
      /\ toRecv \in Seq(Message) /\ toSend \in Seq(Message) /\ pauses \in Nat
      /\ Linked => AnnouncedOK(toRecv, sender, receiver)
  BY SenderKnows
<1>2. sender.status = "Transferring"
  BY DEF ChunkLoop, MaySend
<1>3. sender.status \notin Opening /\ ~Early
  BY <1>2, SenderKnows DEF Opening
<1>4. toRecv \o <<>> = toRecv /\ <<>> \in Seq(Message)
  BY <1>1, ConcatNone
<1>5. SentOK(sender, <<>>)
  BY <1>1, <1>4 DEF SentOK
<1>6. SenderSide(sender', toRecv')
  BY <1>1, <1>3, <1>5, SendNextChunkOK DEF ChunkLoop
<1>7. /\ toSend' \in Seq(Message) /\ pauses' \in Nat
      /\ UNCHANGED <<receiver, sock, cut, disk>>
  BY <1>1 DEF ChunkLoop
<1>8. QED BY <1>3, <1>6, <1>7, SenderSideOK

-----------------------------------------------------------------------------
(* The sending user.                                                       *)

LEMMA StartSendKeeps ==
    ASSUME SessionInv, StartSend PROVE SessionInv'
<1>1. /\ sender \in Sender /\ toRecv \in Seq(Message) /\ sock \in [Sides -> SockStates]
      /\ sender.status = "Idle"
  BY SenderKnows DEF StartSend
<1>2. Early /\ toSend = <<>> /\ ~sender.reader.open
  BY <1>1 DEF SessionInv, EarlyOK
<1>3. /\ sender' \in Sender /\ sender'.status = "Connecting"
      /\ sender'.reader = sender.reader
  BY <1>1, WithStatusSender DEF StartSend, Statuses
<1>4. /\ sock' \in [Sides -> SockStates] /\ sock'["send"] = "connecting"
      /\ UNCHANGED <<receiver, toRecv, toSend, cut, disk, pauses>>
  BY <1>1 DEF StartSend, Sides, SockStates
<1>5. TypeOK'
  BY <1>3, <1>4 DEF SessionInv, TypeOK
<1>6. EarlyOK'
  BY <1>2, <1>3, <1>4 DEF EarlyOK, Early
<1>7. HandshakeFirst'
  BY <1>1, <1>4 DEF SessionInv, HandshakeFirst, Opening
<1>8. ReaderOK(sender)'
  BY <1>2, <1>3 DEF ReaderOK, ReadsCurrent, MustRead, Opening
<1>9. (Linked => AnnouncedOK(toRecv, sender, receiver))'
  BY <1>4 DEF Linked
<1>10. /\ StreamOK(toRecv, receiver)' /\ PayloadOK(toRecv)'
       /\ WriterOK(receiver.writer, receiver.recvIndex, disk)' /\ HoldsCopies(disk)'
  BY <1>4 DEF SessionInv
<1>11. QED BY <1>5, <1>6, <1>7, <1>8, <1>9, <1>10 DEF SessionInv

LEMMA PauseSenderKeeps ==
    ASSUME SessionInv, PauseSender PROVE SessionInv'
<1> DEFINE m == Signal("TransferPause")
<1>1. /\ sender \in Sender /\ ReaderOK(sender) /\ QueueOK(toRecv, receiver)
      /\ toRecv \in Seq(Message) /\ toSend \in Seq(Message) /\ pauses \in Nat
      /\ Linked => AnnouncedOK(toRecv, sender, receiver)
  BY SenderKnows
<1>2. sender.status = "Transferring" /\ sender' = WithStatus(sender, "Paused")
  BY DEF PauseSender
<1>3. sender.status \notin Opening /\ ~Early
  BY <1>2, SenderKnows DEF Opening
<1>4. /\ sender' \in Sender /\ sender'.status \notin Opening /\ ReaderOK(sender')
      /\ sender'.reader = sender.reader /\ sender'.cur = sender.cur
  BY <1>2, <1>3, SenderEndFacts
<1>5. m \in Message /\ HonestPacket(m) /\ ~IsStart(m) /\ ~IsData(m)
  BY DEF Signal, Message, Signals, HonestPacket, IsStart, IsData
<1>6. toRecv \o <<>> = toRecv /\ <<>> \in Seq(Message)
  BY <1>1, ConcatNone
<1>7. SentOK(sender, <<>>)
  BY <1>1, <1>6 DEF SentOK
<1>8. SentOK(sender, Append(<<>>, m))
  BY <1>1, <1>5, <1>7, SendOne
<1>9. SendToReceiver(Append(<<>>, m))
  BY DEF PauseSender
<1>10. SenderSide(sender', toRecv')
  BY <1>1, <1>4, <1>8, <1>9, SendReaches
<1>11. /\ toSend' \in Seq(Message) /\ pauses' \in Nat
       /\ UNCHANGED <<receiver, sock, cut, disk>>
  BY <1>1 DEF PauseSender
<1>12. QED BY <1>3, <1>10, <1>11, SenderSideOK

\* The button is on, so the reader is open: the API alone would let a session
\* stream a closed file.
LEMMA ResumeSenderKeeps ==
    ASSUME ByButton = TRUE, SessionInv, ResumeSender PROVE SessionInv'
<1> DEFINE s == WithStatus(sender, "Transferring")
           m == TransferResume(sender.cur, sender.fileSent)
<1>1. /\ sender \in Sender /\ ReaderOK(sender) /\ QueueOK(toRecv, receiver)
      /\ toRecv \in Seq(Message) /\ toSend \in Seq(Message) /\ pauses \in Nat
      /\ Linked => AnnouncedOK(toRecv, sender, receiver)
  BY SenderKnows
<1>2. sender.status = "Paused" /\ sender.button /\ SendNextChunk(s, <<m>>)
  BY DEF ResumeSender
<1>3. sender.status \notin Opening /\ ~Early
  BY <1>2, SenderKnows DEF Opening
<1>4. sender.reader.open
  BY <1>1, <1>2, <1>3 DEF ReaderOK, MustRead
<1>5. /\ s \in Sender /\ s.status = "Transferring"
      /\ s.reader = sender.reader /\ s.cur = sender.cur
  BY <1>1, WithStatusSender DEF Statuses
<1> HIDE DEF s
<1>6. ReaderOK(s) /\ s.status \notin Opening
  BY <1>1, <1>4, <1>5, ReaderKept DEF Opening
<1>7. m \in Message /\ HonestPacket(m) /\ ~IsStart(m) /\ ~IsData(m)
  BY <1>1 DEF TransferResume, Message, Sender, HonestPacket, IsStart, IsData
<1>8. toRecv \o <<>> = toRecv /\ <<>> \in Seq(Message)
  BY <1>1, ConcatNone
<1>9. Linked => AnnouncedOK(toRecv, s, receiver)
  BY <1>1, <1>5 DEF AnnouncedOK
<1>10. SentOK(s, <<>>)
  BY <1>1, <1>8, <1>9 DEF SentOK
<1>11. SentOK(s, Append(<<>>, m))
  BY <1>1, <1>7, <1>10, SendOne
<1>12. SentOK(s, <<m>>)
  BY <1>11
<1>13. SenderSide(sender', toRecv')
  BY <1>1, <1>2, <1>5, <1>6, <1>12, SendNextChunkOK
<1>14. /\ toSend' \in Seq(Message) /\ pauses' \in Nat
       /\ UNCHANGED <<receiver, sock, cut, disk>>
  BY <1>1 DEF ResumeSender
<1>15. QED BY <1>3, <1>13, <1>14, SenderSideOK

LEMMA CancelSenderKeeps ==
    ASSUME SessionInv, CancelSender PROVE SessionInv'
<1> DEFINE m == Signal("TransferCancel")
<1>1. /\ QueueOK(toRecv, receiver) /\ toRecv \in Seq(Message)
      /\ sock \in [Sides -> SockStates] /\ pauses \in Nat
  BY SenderKnows
<1>2. /\ sender' \in Sender /\ sender'.status \notin Opening
      /\ ReaderOK(sender') /\ ~sender'.reader.open
  BY ClosingReader DEF CancelSender
<1>3. m \in Message /\ HonestPacket(m) /\ ~IsData(m)
  BY DEF Signal, Message, Signals, HonestPacket, IsData
<1>4. toRecv \o <<m>> = Append(toRecv, m)
  BY <1>1, <1>3, ConcatOne
<1>5. QueueOK(Append(toRecv, m), receiver)
  BY <1>1, <1>3, QueueAppend
<1>6. QueueOK(toRecv', receiver)
  BY <1>1, <1>4, <1>5 DEF CancelSender, SendToReceiver
<1>7. /\ sock' \in [Sides -> SockStates] /\ sock'["send"] = "closed"
      /\ UNCHANGED <<receiver, cut, disk, pauses>> /\ toSend' = <<>>
  BY <1>1 DEF CancelSender, Close, Sides, SockStates
<1>8. ~Linked' /\ toSend' \in Seq(Message) /\ pauses' \in Nat
  BY <1>1, <1>7 DEF Linked
<1>9. QED BY <1>2, <1>6, <1>7, <1>8, SenderStepOK

-----------------------------------------------------------------------------
(* The network.                                                            *)

LEMMA WithStatusReceiver ==
    ASSUME NEW r \in Receiver, NEW st \in Statuses
    PROVE  /\ WithStatus(r, st) \in Receiver /\ WithStatus(r, st).status = st
           /\ WithStatus(r, st).writer = r.writer
           /\ WithStatus(r, st).recvIndex = r.recvIndex
           /\ WithStatus(r, st).asking = r.asking
BY DEF WithStatus, Receiver

LEMMA SocketConnectedKeeps ==
    ASSUME SessionInv, SocketConnected PROVE SessionInv'
<1> DEFINE m == Signal("HandshakeReq")
<1>1. /\ sender \in Sender /\ receiver \in Receiver /\ sock \in [Sides -> SockStates]
      /\ sock["send"] = "connecting"
  BY DEF SocketConnected, SessionInv, TypeOK
<1>2. toSend = <<>> /\ ~sender.reader.open
  BY <1>1 DEF SessionInv, EarlyOK, Early
<1>3. sender.status \in {"Idle", "Connecting"}
  BY <1>1 DEF SessionInv, EarlyOK, Early
<1>4. ~receiver.asking
  BY <1>3 DEF SessionInv, HandshakeFirst, Opening
<1>5. /\ sender' \in Sender /\ sender'.status = "Handshaking"
      /\ sender'.reader = sender.reader
  BY <1>1, WithStatusSender DEF SocketConnected, Statuses
<1>6. /\ receiver' \in Receiver /\ receiver'.status = "Handshaking"
      /\ receiver'.writer = receiver.writer /\ receiver'.asking = receiver.asking
      /\ receiver'.recvIndex = receiver.recvIndex
  BY <1>1, WithStatusReceiver DEF SocketConnected, Statuses
<1>7. m \in Message /\ m.type = "HandshakeReq"
  BY DEF Signal, Message, Signals
<1>8. /\ <<m>> \in Seq(Message) /\ Len(<<m>>) = 1 /\ <<m>>[1] = m
      /\ toRecv' = <<m>>
  BY <1>7 DEF SocketConnected
<1>9. sock' \in [Sides -> SockStates] /\ sock'["send"] = "open"
  BY DEF SocketConnected, Sides, SockStates
<1>10. UNCHANGED <<toSend, cut, disk, pauses>>
  BY DEF SocketConnected
<1>11. TypeOK'
  BY <1>5, <1>6, <1>8, <1>9, <1>10 DEF SessionInv, TypeOK
<1>12. EarlyOK'
  BY <1>5, <1>9 DEF EarlyOK, Early
<1>13. HandshakeFirst'
  BY <1>2, <1>4, <1>6, <1>7, <1>8, <1>10 DEF HandshakeFirst
<1>14. ReaderOK(sender)' /\ (Linked => AnnouncedOK(toRecv, sender, receiver))'
  BY <1>2, <1>5 DEF ReaderOK, ReadsCurrent, MustRead, Opening, AnnouncedOK
<1>15. StreamOK(toRecv, receiver)' /\ PayloadOK(toRecv)'
  BY <1>7, <1>8 DEF StreamOK, PayloadOK, IsData, HonestPacket
<1>16. WriterOK(receiver.writer, receiver.recvIndex, disk)' /\ HoldsCopies(disk)'
  BY <1>6, <1>10 DEF SessionInv
<1>17. QED BY <1>11, <1>12, <1>13, <1>14, <1>15, <1>16 DEF SessionInv

LEMMA ConnectFailsKeeps ==
    ASSUME SessionInv, ConnectFails PROVE SessionInv'
<1>1. sock \in [Sides -> SockStates] /\ toSend \in Seq(Message) /\ pauses \in Nat
  BY SenderKnows
<1>2. /\ sender' \in Sender /\ sender'.status \notin Opening
      /\ ReaderOK(sender')
      /\ sender'.reader = sender.reader /\ sender'.cur = sender.cur
  BY SenderEndFacts DEF ConnectFails, Final
<1>3. /\ sock' \in [Sides -> SockStates] /\ sock'["send"] = "closed"
      /\ UNCHANGED <<receiver, toRecv, toSend, cut, disk, pauses>>
  BY <1>1 DEF ConnectFails, Close, Sides, SockStates
<1>4. ~Linked'
  BY <1>3 DEF Linked
<1>5. QED BY <1>1, <1>2, <1>3, <1>4, SenderOnly

LEMMA SenderLosesSocketKeeps ==
    ASSUME SessionInv, SenderLosesSocket PROVE SessionInv'
<1>1. /\ sender \in Sender /\ ReaderOK(sender) /\ sock \in [Sides -> SockStates]
      /\ toSend \in Seq(Message) /\ pauses \in Nat
      /\ toRecv \in Seq(Message) /\ QueueOK(toRecv, receiver)
  BY SenderKnows
<1>2. /\ sock' \in [Sides -> SockStates] /\ sock'["send"] = "closed"
      /\ sock["send"] = "open"
      /\ UNCHANGED <<receiver, toRecv, toSend, cut, disk, pauses>>
  BY <1>1 DEF SenderLosesSocket, Close, Sides, SockStates
<1>3. ~Linked'
  BY <1>2 DEF Linked
<1>4. CASE sender.status = "Transferring" /\ sender' = WithStatus(sender, "Failed")
  <2>1. /\ sender' \in Sender /\ sender'.status \notin Opening
        /\ ReaderOK(sender')
        /\ sender'.reader = sender.reader /\ sender'.cur = sender.cur
    BY <1>4, SenderEndFacts DEF Final
  <2>2. QED BY <1>1, <1>2, <1>3, <2>1, SenderOnly
<1>5. CASE sender.status # "Transferring" /\ sender' = sender
  <2>1. ~Early /\ sender.status # "Idle"
    BY <1>2 DEF SessionInv, EarlyOK, Early
  <2>2. TypeOK'
    BY <1>2, <1>5 DEF SessionInv, TypeOK
  <2>3. EarlyOK'
    BY <1>2, <1>5, <2>1 DEF EarlyOK, Early
  <2>4. HandshakeFirst'
    BY <1>2, <1>5 DEF SessionInv, HandshakeFirst
  <2>5. /\ ReaderOK(sender)' /\ StreamOK(toRecv, receiver)' /\ PayloadOK(toRecv)'
        /\ WriterOK(receiver.writer, receiver.recvIndex, disk)' /\ HoldsCopies(disk)'
    BY <1>2, <1>5 DEF SessionInv
  <2>6. QED BY <1>3, <2>2, <2>3, <2>4, <2>5 DEF SessionInv
<1>6. QED BY <1>4, <1>5 DEF SenderLosesSocket, LossFails

LEMMA CableCutKeeps ==
    ASSUME SessionInv, CableCut PROVE SessionInv'
<1>1. /\ toSend \in Seq(Message) /\ toRecv \in Seq(Message)
      /\ QueueOK(toRecv, receiver)
  BY SenderKnows
<1>2. PICK k \in 0..Len(toRecv) : toRecv' = SubSeq(toRecv, 1, k)
  BY DEF CableCut
<1>3. PICK j \in 0..Len(toSend) : toSend' = SubSeq(toSend, 1, j)
  BY DEF CableCut
<1>4. /\ toRecv' \in Seq(Message) /\ Len(toRecv') = k
      /\ \A p \in 1..k : toRecv'[p] = toRecv[p]
  BY <1>1, <1>2, PrefixFacts
<1>5. /\ toSend' \in Seq(Message) /\ Len(toSend') = j
      /\ \A p \in 1..j : toSend'[p] = toSend[p]
  BY <1>1, <1>3, PrefixFacts
<1>6. cut' = TRUE /\ UNCHANGED <<sender, receiver, sock, disk, pauses>>
  BY DEF CableCut
<1>7. TypeOK'
  BY <1>4, <1>5, <1>6 DEF SessionInv, TypeOK
<1>8. EarlyOK'
  <2>1. toSend = <<>> => toSend' = <<>>
    BY <1>1, <1>5
  <2>2. QED BY <1>6, <2>1 DEF SessionInv, EarlyOK, Early
<1>9. HandshakeFirst'
  <2>1. 1..k \subseteq 1..Len(toRecv) /\ 1..j \subseteq 1..Len(toSend)
    BY <1>1
  <2>2. QED BY <1>4, <1>5, <1>6, <2>1 DEF SessionInv, HandshakeFirst
<1>10. QueueOK(toRecv', receiver)
  BY <1>1, <1>2, QueuePrefix
<1>11. StreamOK(toRecv, receiver)' /\ PayloadOK(toRecv)'
  BY <1>6, <1>10 DEF QueueOK
<1>12. ~Linked'
  BY <1>6 DEF Linked
<1>13. /\ ReaderOK(sender)' /\ HoldsCopies(disk)'
       /\ WriterOK(receiver.writer, receiver.recvIndex, disk)'
  BY <1>6 DEF SessionInv
<1>14. QED BY <1>7, <1>8, <1>9, <1>11, <1>12, <1>13 DEF SessionInv

-----------------------------------------------------------------------------
(* The receiving disk.                                                     *)

Content == Seq(Block \cup {Hole})

LEMMA PutFacts ==
    ASSUME NEW f, IsStore(f), NEW n \in Name, NEW c \in Content
    PROVE  /\ IsStore(Put(f, n, c)) /\ DOMAIN Put(f, n, c) = DOMAIN f \cup {n}
           /\ Put(f, n, c)[n] = c
           /\ \A m \in DOMAIN f : m # n => Put(f, n, c)[m] = f[m]
BY DEF IsStore, Put, Content

LEMMA DropFacts ==
    ASSUME NEW f, IsStore(f), NEW gone
    PROVE  /\ IsStore(Drop(f, gone)) /\ DOMAIN Drop(f, gone) = DOMAIN f \ gone
           /\ \A m \in DOMAIN f \ gone : Drop(f, gone)[m] = f[m]
BY DEF IsStore, Drop

LEMMA NoNameIsNoFile == NoName \notin Name
BY DEF NoName, Name

\* A name of path p: the path itself or one of its copies.
LEMMA TargetFacts ==
    ASSUME NEW d, NEW i \in Files, NEW policy, NEW t \in Targets(d, i, policy)
    PROVE  t \in Name /\ t[1] = RelPath[i]
<1>1. RelPath[i] \in Paths
  BY DEF Paths
<1>2. \A n \in Nat : <<RelPath[i], n>> \in Name /\ <<RelPath[i], n>>[1] = RelPath[i]
  BY <1>1 DEF Name
<1>3. CASE t = <<RelPath[i], 0>>
  BY <1>2, <1>3
<1>4. CASE t \in UniqueNames(d, RelPath[i])
  <2>1. PICK n \in 1..MaxCopies : t = <<RelPath[i], n>>
    BY <1>4 DEF UniqueNames
  <2>2. n \in Nat
    BY SizesAssumption
  <2>3. QED BY <1>2, <2>1, <2>2
<1>5. QED BY <1>3, <1>4 DEF Targets

LEMMA PreallocatedFacts ==
    ASSUME NoTrailingHole, NEW i \in Files, NEW c \in Preallocations(i)
    PROVE  c \in Content /\ Len(c) <= SourceSize[i]
<1>1. PICK n \in {0} \cup {m \in {ManifestSize[i]} : PreallocExtends} :
             c = [k \in 1..n |-> Hole]
  BY DEF Preallocations
<1>2. n \in Nat /\ n <= SourceSize[i]
  BY SizesAssumption DEF NoTrailingHole
<1>3. c \in [1..n -> Block \cup {Hole}]
  BY <1>1
<1>4. QED BY <1>2, <1>3 DEF Content

LEMMA WrittenFacts ==
    ASSUME NEW c \in Content, NEW off \in Nat, NEW b \in Block
    PROVE  /\ Written(c, off, b) \in Content
           /\ Len(Written(c, off, b)) = IF off < Len(c) THEN Len(c) ELSE off + 1
           /\ Written(c, off, b)[off + 1] = b
           /\ \A k \in 1..Len(c) : k # off + 1 => Written(c, off, b)[k] = c[k]
<1> DEFINE n == IF off < Len(c) THEN Len(c) ELSE off + 1
           v(k) == IF k = off + 1 THEN b ELSE IF k <= Len(c) THEN c[k] ELSE Hole
<1>1. Len(c) \in Nat /\ n \in Nat /\ \A k \in 1..Len(c) : c[k] \in Block \cup {Hole}
  BY DEF Content
<1>2. \A k \in 1..n : v(k) \in Block \cup {Hole}
  BY <1>1
<1>3. Written(c, off, b) = [k \in 1..n |-> v(k)]
  BY DEF Written
<1> HIDE DEF v
<1>4. /\ Written(c, off, b) \in Seq(Block \cup {Hole})
      /\ Len(Written(c, off, b)) = n
      /\ \A k \in 1..n : Written(c, off, b)[k] = v(k)
  <2>1. n \in Nat
    BY <1>1
  <2> HIDE DEF n
  <2>2. Written(c, off, b) \in [1..n -> Block \cup {Hole}]
    BY <1>2, <1>3
  <2>3. QED BY <1>3, <2>1, <2>2
<1>5. off + 1 \in 1..n /\ 1..Len(c) \subseteq 1..n
  BY <1>1
<1>6. v(off + 1) = b /\ \A k \in 1..Len(c) : k # off + 1 => v(k) = c[k]
  BY <1>1 DEF v
<1>7. QED BY <1>4, <1>5, <1>6 DEF Content

\* What the disk's two maps hold after each of the writer's steps.
LEMMA ClearedFacts ==
    ASSUME NEW d, DiskType(d), HoldsCopies(d), NEW t
    PROVE  /\ DiskType(Cleared(d, t)) /\ HoldsCopies(Cleared(d, t))
           /\ t \notin DOMAIN Cleared(d, t).partial
<1> DEFINE F == {t} \cup FinalsAt(t)
           P == {t} \cup PartialsAt(t)
           e == Cleared(d, t)
<1>1. /\ e.final = Drop(d.final, F) /\ e.partial = Drop(d.partial, P)
      /\ e = [final |-> e.final, partial |-> e.partial]
  BY DEF Cleared
<1>2. t \in P
  OBVIOUS
<1> HIDE DEF e, F, P
<1>3. /\ IsStore(Drop(d.final, F)) /\ DOMAIN Drop(d.final, F) = DOMAIN d.final \ F
      /\ \A m \in DOMAIN d.final \ F : Drop(d.final, F)[m] = d.final[m]
  BY DropFacts DEF DiskType
<1>4. IsStore(Drop(d.partial, P)) /\ DOMAIN Drop(d.partial, P) = DOMAIN d.partial \ P
  BY DropFacts DEF DiskType
<1>5. HoldsCopies(e)
  BY <1>1, <1>3 DEF HoldsCopies
<1>6. DiskType(e)
  BY <1>1, <1>3, <1>4 DEF DiskType
<1>7. t \notin DOMAIN e.partial
  BY <1>1, <1>2, <1>4
<1>8. QED BY <1>5, <1>6, <1>7 DEF e

LEMMA OpenedFacts ==
    ASSUME NoTrailingHole, NEW d, DiskType(d), HoldsCopies(d), NEW i \in Files,
           NEW policy, NEW t \in Targets(d, i, policy), NEW p \in Preallocations(i)
    PROVE  /\ DiskType(OpenedDisk(d, t, p)) /\ HoldsCopies(OpenedDisk(d, t, p))
           /\ WriterOK(OpenedWriter(t), i, OpenedDisk(d, t, p))
           /\ OpenedWriter(t) \in Writer
<1> DEFINE e == Cleared(d, t)
           o == OpenedDisk(d, t, p)
<1>1. DiskType(e) /\ HoldsCopies(e)
  BY ClearedFacts
<1>2. t \in Name /\ t[1] = RelPath[i]
  BY TargetFacts
<1>3. p \in Content /\ Len(p) <= SourceSize[i]
  BY PreallocatedFacts
<1>4. o = [e EXCEPT !.partial = Put(@, t, p)]
  BY DEF OpenedDisk
<1> HIDE DEF e, o
<1>5. o.final = e.final /\ o.partial = Put(e.partial, t, p)
      /\ o = [final |-> o.final, partial |-> o.partial]
  BY <1>1, <1>4 DEF DiskType
<1>6. IsStore(o.partial) /\ t \in DOMAIN o.partial /\ o.partial[t] = p
  <2>1. IsStore(e.partial)
    BY <1>1 DEF DiskType
  <2>2. /\ IsStore(Put(e.partial, t, p)) /\ Put(e.partial, t, p)[t] = p
        /\ DOMAIN Put(e.partial, t, p) = DOMAIN e.partial \cup {t}
    <3>1. t \in Name /\ p \in Content
      BY <1>2, <1>3
    <3>2. QED BY <2>1, <3>1, PutFacts
  <2>3. QED BY <1>5, <2>2
<1>7. DiskType(o)
  BY <1>1, <1>5, <1>6 DEF DiskType
<1>8. HoldsCopies(o)
  BY <1>1, <1>5 DEF HoldsCopies
<1>9. WriterOK(OpenedWriter(t), i, o)
  BY <1>2, <1>3, <1>6 DEF WriterOK, OpenedWriter
<1>10. OpenedWriter(t) \in Writer
  BY <1>2 DEF OpenedWriter, Writer
<1>11. QED BY <1>7, <1>8, <1>9, <1>10 DEF o

\* A chunk of the current file written at its offset: the .partial file keeps
\* what it had and has the block where it belongs, whether the chunk has been
\* hashed (w.hashed grown) or not.
LEMMA WriteFacts ==
    ASSUME NEW d, DiskType(d), HoldsCopies(d), NEW i \in Files,
           NEW w \in Writer, w.open, w.has, WriterOK(w, i, d),
           NEW off \in Nat, off < SourceSize[i]
    PROVE  LET e == WriteToDisk(d, w, off, <<i, off + 1>>)
               v == [w EXCEPT !.hashed = Append(@, <<i, off + 1>>)]
           IN  /\ DiskType(e) /\ HoldsCopies(e)
               /\ WriterOK(w, i, e)
               /\ v \in Writer /\ WriterOK(v, i, e)
<1> DEFINE b == <<i, off + 1>>
           n == w.partial
           e == WriteToDisk(d, w, off, b)
           c == d.partial[n]
           x == Written(c, off, b)
           v == [w EXCEPT !.hashed = Append(@, b)]
<1>1. n \in DOMAIN d.partial /\ n \in Name /\ c \in Content
  BY DEF WriterOK, DiskType, IsStore, Content
<1>2. /\ w.target = n /\ n[1] = RelPath[i] /\ Len(c) <= SourceSize[i]
      /\ \A j \in 1..Len(w.hashed) :
            \E k \in 1..Len(c) : w.hashed[j] = <<i, k>> /\ c[k] = <<i, k>>
  BY <1>1 DEF WriterOK, TailLost
<1>3. b \in Block
  BY DEF Block
<1>4. /\ x \in Content
      /\ Len(x) = IF off < Len(c) THEN Len(c) ELSE off + 1
      /\ x[off + 1] = b
      /\ \A k \in 1..Len(c) : k # off + 1 => x[k] = c[k]
  BY <1>1, <1>3, WrittenFacts
<1>5. e = [d EXCEPT !.partial = Put(@, n, x)]
  BY DEF WriteToDisk
<1>6. w.hashed \in Seq(Block)
  BY DEF Writer
<1>7. /\ Append(w.hashed, b) \in Seq(Block)
      /\ Len(Append(w.hashed, b)) = Len(w.hashed) + 1
      /\ \A j \in 1..Len(w.hashed) : Append(w.hashed, b)[j] = w.hashed[j]
      /\ Append(w.hashed, b)[Len(w.hashed) + 1] = b
      /\ Len(w.hashed) \in Nat
  BY <1>3, <1>6, AppendFacts
<1>8. /\ v \in Writer /\ v.open = w.open /\ v.has = w.has /\ v.partial = n
      /\ v.target = w.target /\ v.hashed = Append(w.hashed, b)
  BY <1>7 DEF Writer
<1>9. SourceSize[i] \in Nat /\ Len(c) \in Nat
  BY <1>1, SizesAssumption DEF Content
<1> HIDE DEF e, x, v, c, n
<1>10. e.final = d.final /\ e.partial = Put(d.partial, n, x)
       /\ e = [final |-> e.final, partial |-> e.partial]
  BY <1>5 DEF DiskType
<1>11. IsStore(e.partial) /\ n \in DOMAIN e.partial /\ e.partial[n] = x
  <2>1. IsStore(d.partial)
    BY DEF DiskType
  <2>2. /\ IsStore(Put(d.partial, n, x)) /\ Put(d.partial, n, x)[n] = x
        /\ DOMAIN Put(d.partial, n, x) = DOMAIN d.partial \cup {n}
    <3> DEFINE f == d.partial
    <3>1. n \in Name /\ x \in Content
      BY <1>1, <1>4
    <3>2. IsStore(f)
      BY <2>1
    <3> HIDE DEF f, b
    <3>3. IsStore(Put(f, n, x))
      BY <3>1, <3>2, PutFacts
    <3>4. Put(f, n, x)[n] = x /\ DOMAIN Put(f, n, x) = DOMAIN f \cup {n}
      BY DEF Put
    <3>5. QED BY <3>3, <3>4 DEF f
  <2>3. QED BY <1>10, <2>2
<1>12. DiskType(e)
  BY <1>10, <1>11 DEF DiskType
<1>13. HoldsCopies(e)
  BY <1>10 DEF HoldsCopies
<1>14. Len(x) <= SourceSize[i] /\ 1..Len(c) \subseteq 1..Len(x) /\ off + 1 \in 1..Len(x)
  BY <1>2, <1>4, <1>9
<1>15. ASSUME NEW j \in 1..Len(w.hashed)
       PROVE  \E k \in 1..Len(x) : w.hashed[j] = <<i, k>> /\ x[k] = <<i, k>>
  <2>1. PICK k \in 1..Len(c) : w.hashed[j] = <<i, k>> /\ c[k] = <<i, k>>
    BY <1>2
  <2>2. k \in 1..Len(x) /\ x[k] = <<i, k>>
    BY <1>4, <1>14, <2>1
  <2>3. QED BY <2>1, <2>2
<1>16. WriterOK(w, i, e)
  BY <1>2, <1>11, <1>14, <1>15 DEF WriterOK, n
<1>17. ASSUME NEW j \in 1..Len(v.hashed)
       PROVE  \E k \in 1..Len(x) : v.hashed[j] = <<i, k>> /\ x[k] = <<i, k>>
  <2>1. CASE j \in 1..Len(w.hashed)
    <3>1. v.hashed[j] = w.hashed[j]
      BY <1>7, <1>8, <2>1
    <3>2. QED BY <1>15, <2>1, <3>1
  <2>2. CASE j = Len(w.hashed) + 1
    <3>1. v.hashed[j] = b
      BY <1>7, <1>8, <2>2
    <3>2. off + 1 \in 1..Len(x) /\ x[off + 1] = b /\ b = <<i, off + 1>>
      BY <1>4, <1>14
    <3> HIDE DEF b
    <3>3. QED BY <3>1, <3>2
  <2>3. j \in 1..Len(w.hashed) \/ j = Len(w.hashed) + 1
    BY <1>7, <1>8
  <2>4. QED BY <2>1, <2>2, <2>3
<1>18. WriterOK(v, i, e)
  <2>1. /\ v.has /\ v.partial = n /\ v.target = n /\ n[1] = RelPath[i]
        /\ n \in DOMAIN e.partial /\ e.partial[n] = x
    BY <1>2, <1>8, <1>11
  <2>2. Len(x) <= SourceSize[i]
    BY <1>14
  <2>3. QED BY <1>17, <2>1, <2>2 DEF WriterOK
<1>19. QED BY <1>8, <1>12, <1>13, <1>16, <1>18 DEF e, v

LEMMA CloseWriterFacts ==
    ASSUME NEW w \in Writer
    PROVE  /\ CloseWriter(w) \in Writer /\ ~CloseWriter(w).open
           /\ CloseWriter(w).has = w.has /\ CloseWriter(w).target = w.target
           /\ CloseWriter(w).partial = w.partial /\ CloseWriter(w).hashed = w.hashed
BY DEF CloseWriter, Writer

\* Of a closed writer's disk, WriterOK reads its own .partial file only.
LEMMA ClosedNeedsPartial ==
    ASSUME NEW w, NEW i, NEW d, NEW e, WriterOK(w, i, d), ~w.open,
           w.partial \in DOMAIN e.partial =>
               /\ w.partial \in DOMAIN d.partial
               /\ e.partial[w.partial] = d.partial[w.partial]
    PROVE  WriterOK(w, i, e)
<1> DEFINE OK(c) ==
             /\ w.target = w.partial /\ w.partial[1] = RelPath[i]
             /\ Len(c) <= SourceSize[i]
             /\ \A j \in 1..Len(w.hashed) :
                   \/ \E k \in 1..Len(c) : w.hashed[j] = <<i, k>> /\ c[k] = <<i, k>>
                   \/ w.hashed[j] = <<i, SourceSize[i]>> /\ TailLost(w, i, c)
<1>1. w.has /\ w.partial \in DOMAIN d.partial => OK(d.partial[w.partial])
  BY DEF WriterOK
<1>2. ~w.has => w.hashed = <<>>
  BY DEF WriterOK
<1> HIDE DEF OK
<1>3. w.has /\ w.partial \in DOMAIN e.partial => OK(e.partial[w.partial])
  BY <1>1
<1>4. QED BY <1>2, <1>3 DEF OK, WriterOK

\* Closing keeps the .partial file as it is.
LEMMA CloseKeepsWriterOK ==
    ASSUME NEW w \in Writer, NEW i, NEW d, WriterOK(w, i, d)
    PROVE  WriterOK(CloseWriter(w), i, d)
<1> DEFINE v == CloseWriter(w)
           c == d.partial[w.partial]
<1>1. /\ ~v.open /\ v.has = w.has /\ v.target = w.target
      /\ v.partial = w.partial /\ v.hashed = w.hashed
  BY CloseWriterFacts
<1>2. w.has /\ w.partial \in DOMAIN d.partial =>
         /\ w.target = w.partial /\ w.partial[1] = RelPath[i]
         /\ Len(c) <= SourceSize[i]
         /\ \A j \in 1..Len(w.hashed) :
               \/ \E k \in 1..Len(c) : w.hashed[j] = <<i, k>> /\ c[k] = <<i, k>>
               \/ w.hashed[j] = <<i, SourceSize[i]>> /\ TailLost(w, i, c)
  BY DEF WriterOK
<1>3. ~w.has => w.hashed = <<>>
  BY DEF WriterOK
<1>4. c = d.partial[v.partial]
  BY <1>1
<1>5. TailLost(w, i, c) => TailLost(v, i, c)
  BY <1>1 DEF TailLost
<1> HIDE DEF v, c
<1>6. v.has /\ v.partial \in DOMAIN d.partial =>
         /\ v.target = v.partial /\ v.partial[1] = RelPath[i]
         /\ Len(c) <= SourceSize[i]
         /\ \A j \in 1..Len(v.hashed) :
               \/ \E k \in 1..Len(c) : v.hashed[j] = <<i, k>> /\ c[k] = <<i, k>>
               \/ v.hashed[j] = <<i, SourceSize[i]>> /\ TailLost(v, i, c)
  BY <1>1, <1>2, <1>5
<1>7. WriterOK(v, i, d)
  BY <1>1, <1>3, <1>4, <1>6 DEF WriterOK
<1>8. QED BY <1>7 DEF v

\* A content without one of its blocks.
LEMMA WithoutFacts ==
    ASSUME NEW c \in Content, NEW s \in 1..Len(c), NEW x \in Without(c, s)
    PROVE  /\ x \in Content /\ Len(x) <= Len(c)
           /\ Len(x) < s \/ x[s] = Hole
           /\ Len(x) < s => s = Len(c) /\ x = SubSeq(c, 1, s - 1)
           /\ Len(x) >= s => x = [c EXCEPT ![s] = Hole]
           /\ \A k \in 1..Len(c) : k # s => k \in 1..Len(x) /\ x[k] = c[k]
<1>1. c \in Seq(Block \cup {Hole}) /\ Len(c) \in Nat /\ s \in Nat /\ 1 <= s /\ s <= Len(c)
  BY DEF Content
<1>2. CASE x = [c EXCEPT ![s] = Hole]
  <2>1. /\ x \in Seq(Block \cup {Hole}) /\ Len(x) = Len(c) /\ x[s] = Hole
        /\ \A k \in 1..Len(c) : k # s => x[k] = c[k]
    BY <1>1, <1>2
  <2>2. QED BY <1>1, <1>2, <2>1 DEF Content
<1>3. CASE s = Len(c) /\ x = SubSeq(c, 1, s - 1)
  <2>1. /\ x \in Seq(Block \cup {Hole}) /\ Len(x) = s - 1
        /\ \A k \in 1..(s - 1) : x[k] = c[k]
    BY <1>1, <1>3
  <2>2. \A k \in 1..Len(c) : k # s => k \in 1..(s - 1)
    BY <1>1, <1>3
  <2>3. QED BY <1>1, <1>3, <2>1, <2>2 DEF Content
<1>4. QED BY <1>2, <1>3 DEF Without

\* The block in the buffer is the last one of the file.
LEMMA BufferedFacts ==
    ASSUME NEW d, DiskType(d), NEW i \in Files, NEW w \in Writer,
           WriterOK(w, i, d), HasBuffered(w)
    PROVE  /\ w.open /\ i \in SmallTail
           /\ w.partial \in DOMAIN d.partial /\ w.partial \in Name
           /\ d.partial[w.partial] \in Content
           /\ Len(d.partial[w.partial]) = SourceSize[i] /\ SourceSize[i] \in Nat \ {0}
           /\ LastHashed(w) = <<i, SourceSize[i]>>
<1> DEFINE n == w.partial
           c == d.partial[n]
           l == Len(w.hashed)
<1>1. w.open /\ w.has /\ w.hashed # <<>> /\ Buffered(w.hashed[l])
  BY DEF HasBuffered, LastHashed, WriterOK
<1>2. w.hashed \in Seq(Block) /\ l \in Nat /\ l \in 1..l
  <2>1. w.hashed \in Seq(Block)
    BY DEF Writer
  <2>2. QED BY <1>1, <2>1
<1>3. n \in DOMAIN d.partial /\ n \in Name /\ c \in Content
  BY <1>1 DEF WriterOK, DiskType, IsStore, Content
<1>4. /\ Len(c) <= SourceSize[i]
      /\ \E k \in 1..Len(c) : w.hashed[l] = <<i, k>> /\ c[k] = <<i, k>>
  BY <1>1, <1>2, <1>3 DEF WriterOK, TailLost
<1>5. Len(c) \in Nat /\ SourceSize[i] \in Nat
  BY <1>3, SizesAssumption DEF Content
<1>6. PICK k \in 1..Len(c) : w.hashed[l] = <<i, k>>
  BY <1>4
<1>7. i \in SmallTail /\ k = SourceSize[i]
  BY <1>1, <1>6 DEF Buffered
<1>8. QED BY <1>1, <1>3, <1>4, <1>5, <1>6, <1>7 DEF LastHashed

\* A buffer that is lost takes the last block of the .partial file with it.
LEMMA UnflushedFacts ==
    ASSUME NEW d, DiskType(d), HoldsCopies(d), NEW i \in Files, NEW w \in Writer,
           WriterOK(w, i, d), NEW e \in Unflushed(d, w)
    PROVE  /\ HasBuffered(w) /\ DiskType(e) /\ HoldsCopies(e) /\ e.final = d.final
           /\ DOMAIN e.partial = DOMAIN d.partial
           /\ \A m \in DOMAIN d.partial : m # w.partial => e.partial[m] = d.partial[m]
           /\ e.partial[w.partial] \in Without(d.partial[w.partial], SourceSize[i])
<1> DEFINE n == w.partial
           c == d.partial[n]
           s == SourceSize[i]
<1>1. HasBuffered(w)
  BY DEF Unflushed
<1>2. /\ n \in DOMAIN d.partial /\ n \in Name /\ c \in Content
      /\ s \in 1..Len(c) /\ LastHashed(w)[2] = s
  BY <1>1, BufferedFacts
<1>3. PICK x \in Without(c, LastHashed(w)[2]) : e = [d EXCEPT !.partial = Put(@, n, x)]
  BY <1>1 DEF Unflushed
<1>4. x \in Without(c, s) /\ x \in Content
  BY <1>2, <1>3, WithoutFacts
<1> HIDE DEF n, c, s
<1>5. /\ e.final = d.final /\ e.partial = Put(d.partial, n, x)
      /\ e = [final |-> e.final, partial |-> e.partial] /\ IsStore(d.partial)
      /\ IsStore(d.final)
  BY <1>3 DEF DiskType
<1>6. /\ IsStore(e.partial) /\ DOMAIN e.partial = DOMAIN d.partial \cup {n}
      /\ e.partial[n] = x
      /\ \A m \in DOMAIN d.partial : m # n => e.partial[m] = d.partial[m]
  <2>1. n \in Name /\ x \in Content /\ IsStore(d.partial)
    BY <1>2, <1>4, <1>5
  <2>2. /\ IsStore(Put(d.partial, n, x))
        /\ DOMAIN Put(d.partial, n, x) = DOMAIN d.partial \cup {n}
        /\ Put(d.partial, n, x)[n] = x
        /\ \A m \in DOMAIN d.partial : m # n => Put(d.partial, n, x)[m] = d.partial[m]
    BY <2>1, PutFacts
  <2>3. QED BY <1>5, <2>2
<1>7. DiskType(e) /\ HoldsCopies(e)
  BY <1>5, <1>6 DEF DiskType, HoldsCopies
<1>8. QED BY <1>1, <1>2, <1>4, <1>5, <1>6, <1>7 DEF n, c, s

\* What closing a writer leaves on the disk is in order for the closed writer.
LEMMA ClosingFacts ==
    ASSUME NEW d, DiskType(d), HoldsCopies(d), NEW i \in Files, NEW w \in Writer,
           WriterOK(w, i, d), NEW e \in Closed(d, w)
    PROVE  DiskType(e) /\ HoldsCopies(e) /\ WriterOK(CloseWriter(w), i, e)
<1> DEFINE v == CloseWriter(w)
           n == w.partial
           c == d.partial[n]
           x == e.partial[n]
           s == SourceSize[i]
<1>1. WriterOK(v, i, d)
  BY CloseKeepsWriterOK
<1>2. CASE e = d
  BY <1>1, <1>2
<1>3. CASE e \in Unflushed(d, w) /\ "flush" \in Faults
  <2>1. /\ HasBuffered(w) /\ DiskType(e) /\ HoldsCopies(e)
        /\ DOMAIN e.partial = DOMAIN d.partial /\ x \in Without(c, s)
    BY <1>3, UnflushedFacts
  <2>2. /\ i \in SmallTail /\ n \in DOMAIN d.partial /\ c \in Content
        /\ Len(c) = s /\ s \in 1..Len(c)
    BY <2>1, BufferedFacts
  <2>3. /\ ~v.open /\ v.has = w.has /\ v.target = w.target
        /\ v.partial = n /\ v.hashed = w.hashed
    BY CloseWriterFacts
  <2> HIDE DEF v, c, x, n
  <2>4. /\ Len(x) <= Len(c) /\ (Len(x) < s \/ x[s] = Hole)
        /\ \A k \in 1..Len(c) : k # s => k \in 1..Len(x) /\ x[k] = c[k]
    BY <2>1, <2>2, WithoutFacts
  <2>5. TailLost(v, i, x)
    BY <1>3, <2>2, <2>3, <2>4 DEF TailLost
  <2>6. v.has =>
           /\ v.target = n /\ n[1] = RelPath[i]
           /\ \A j \in 1..Len(v.hashed) :
                 \/ \E k \in 1..Len(c) : v.hashed[j] = <<i, k>> /\ c[k] = <<i, k>>
                 \/ v.hashed[j] = <<i, s>>
    BY <1>1, <2>2, <2>3 DEF WriterOK, c
  <2>7. ASSUME v.has, NEW j \in 1..Len(v.hashed)
        PROVE  \/ \E k \in 1..Len(x) : v.hashed[j] = <<i, k>> /\ x[k] = <<i, k>>
               \/ v.hashed[j] = <<i, s>>
    <3>1. CASE v.hashed[j] = <<i, s>>
      BY <3>1
    <3>2. CASE \E k \in 1..Len(c) : v.hashed[j] = <<i, k>> /\ c[k] = <<i, k>>
      <4>1. PICK k \in 1..Len(c) : v.hashed[j] = <<i, k>> /\ c[k] = <<i, k>>
        BY <3>2
      <4>2. CASE k = s
        BY <4>1, <4>2
      <4>3. CASE k # s
        BY <2>4, <4>1, <4>3
      <4>4. QED BY <4>2, <4>3
    <3>3. QED BY <2>6, <2>7, <3>1, <3>2
  <2>8. ~v.has => v.hashed = <<>>
    BY <1>1 DEF WriterOK
  <2>9. WriterOK(v, i, e)
    BY <2>2, <2>3, <2>4, <2>5, <2>6, <2>7, <2>8 DEF WriterOK, x
  <2>10. QED BY <2>1, <2>9 DEF v
<1>4. QED BY <1>2, <1>3 DEF Closed

\* Closing takes no file away.
LEMMA ClosingRenames ==
    ASSUME NEW d, DiskType(d), HoldsCopies(d), NEW i \in Files, NEW w \in Writer,
           WriterOK(w, i, d), NEW e \in Closed(d, w)
    PROVE  e.final = d.final /\ DOMAIN e.partial = DOMAIN d.partial
                             /\ (Renamable(d, w) => Renamable(e, w))
<1>1. e.final = d.final /\ DOMAIN e.partial = DOMAIN d.partial
  BY UnflushedFacts DEF Closed
<1>2. QED BY <1>1 DEF Renamable

\* A .partial file whose blocks are all hashed and verified is the source file,
\* but for a tail that was lost.
LEMMA VerifiedIsCopy ==
    ASSUME NEW d, DiskType(d), NEW i \in Files, NEW w \in Writer, w.has,
           WriterOK(w, i, d), Renamable(d, w), Verified(w, Source(i))
    PROVE  d.partial[w.partial] \in Copies(i)
<1> DEFINE n == w.partial
           c == d.partial[n]
           s == SourceSize[i]
<1>1. n \in DOMAIN d.partial /\ c \in Content
  BY DEF Renamable, DiskType, IsStore, Content
<1>2. /\ Len(c) <= s
      /\ \A j \in 1..Len(w.hashed) :
            \/ \E k \in 1..Len(c) : w.hashed[j] = <<i, k>> /\ c[k] = <<i, k>>
            \/ w.hashed[j] = <<i, s>> /\ TailLost(w, i, c)
  BY <1>1 DEF WriterOK
<1>3. /\ w.hashed = Source(i) /\ Source(i) \in Seq(Block)
      /\ Len(Source(i)) = s /\ s \in Nat
      /\ \A k \in 1..s : Source(i)[k] = <<i, k>>
  BY SourceFacts DEF Verified
<1>4. Len(c) \in Nat /\ c \in Seq(Block \cup {Hole})
  BY <1>1 DEF Content
<1> HIDE DEF c, n, s
<1>5. ASSUME NEW j \in 1..s, ~(j = s /\ TailLost(w, i, c))
      PROVE  j \in 1..Len(c) /\ c[j] = <<i, j>>
  <2>1. w.hashed[j] = <<i, j>> /\ j \in 1..Len(w.hashed)
    BY <1>3
  <2>2. CASE w.hashed[j] = <<i, s>> /\ TailLost(w, i, c)
    <3>1. j = s
      BY <2>1, <2>2
    <3>2. QED BY <1>5, <2>2, <3>1
  <2>3. CASE \E k \in 1..Len(c) : w.hashed[j] = <<i, k>> /\ c[k] = <<i, k>>
    <3>1. PICK k \in 1..Len(c) : w.hashed[j] = <<i, k>> /\ c[k] = <<i, k>>
      BY <2>3
    <3>2. k = j
      BY <2>1, <3>1
    <3>3. QED BY <3>1, <3>2
  <2>4. QED BY <1>2, <2>1, <2>2, <2>3
<1>6. CASE ~TailLost(w, i, c)
  <2>1. \A j \in 1..s : j \in 1..Len(c) /\ c[j] = Source(i)[j]
    BY <1>3, <1>5, <1>6
  <2>2. Len(c) = s
    BY <1>2, <1>3, <1>4, <2>1
  <2>3. Source(i) \in Seq(Block \cup {Hole})
    BY <1>3
  <2>4. c = Source(i)
    BY <1>3, <1>4, <2>1, <2>2, <2>3, SeqEqual
  <2>5. QED BY <2>4 DEF Copies, c, n
<1>7. CASE TailLost(w, i, c)
  <2>1. "flush" \in Faults /\ i \in SmallTail /\ (Len(c) < s \/ c[s] = Hole) /\ s \in 1..s
    BY <1>3, <1>7, SizesAssumption DEF TailLost, s
  <2>2. \A j \in 1..(s - 1) : j \in 1..Len(c) /\ c[j] = Source(i)[j]
    <3>1. \A j \in 1..(s - 1) : j \in 1..s /\ j # s
      BY <1>3
    <3>2. QED BY <1>3, <1>5, <3>1
  <2>3. Len(c) >= s - 1
    <3>1. CASE s = 1
      BY <1>4, <3>1
    <3>2. CASE s # 1
      <4>1. s - 1 \in 1..(s - 1)
        BY <1>3, <2>1, <3>2
      <4>2. s - 1 \in 1..Len(c)
        BY <2>2, <4>1
      <4>3. QED BY <1>4, <4>2
    <3>3. QED BY <3>1, <3>2
  <2>4. CASE Len(c) < s
    <3> DEFINE x == SubSeq(Source(i), 1, s - 1)
    <3>1. Len(c) = s - 1
      BY <1>3, <1>4, <2>3, <2>4
    <3>2. s - 1 \in 0..Len(Source(i))
      BY <1>3, <2>1
    <3>3. /\ x \in Seq(Block) /\ Len(x) = s - 1
          /\ \A j \in 1..(s - 1) : x[j] = Source(i)[j]
      BY <1>3, <3>2
    <3>4. x \in Seq(Block \cup {Hole})
      BY <3>3
    <3> HIDE DEF x
    <3>5. c = x
      BY <1>4, <2>2, <3>1, <3>3, <3>4, SeqEqual
    <3>6. c \in Without(Source(i), s)
      BY <1>3, <3>5 DEF Without, x
    <3>7. QED BY <2>1, <3>6 DEF Copies, c, n, s
  <2>5. CASE Len(c) = s
    <3> DEFINE x == [Source(i) EXCEPT ![s] = Hole]
    <3>1. c[s] = Hole
      BY <1>3, <2>1, <2>5
    <3>2. /\ x \in Seq(Block \cup {Hole}) /\ Len(x) = s /\ x[s] = Hole
          /\ \A j \in 1..s : j # s => x[j] = Source(i)[j]
      <4>1. Source(i) \in Seq(Block \cup {Hole})
        BY <1>3
      <4>2. s \in 1..Len(Source(i))
        BY <1>3, <2>1
      <4>3. QED BY <1>3, <4>1, <4>2
    <3> HIDE DEF x
    <3>3. \A j \in 1..s : c[j] = x[j]
      <4>1. \A j \in 1..s : j # s => j \in 1..(s - 1)
        BY <1>3
      <4>2. QED BY <2>2, <3>1, <3>2, <4>1
    <3>4. c = x
      BY <1>4, <2>5, <3>2, <3>3, SeqEqual
    <3>5. c \in Without(Source(i), s)
      BY <3>4 DEF Without, x
    <3>6. QED BY <2>1, <3>5 DEF Copies, c, n, s
  <2>6. QED BY <1>2, <1>3, <1>4, <2>4, <2>5
<1>8. QED BY <1>6, <1>7

\* d is the disk that closing the writer w has left.
LEMMA CommitFacts ==
    ASSUME NEW d, DiskType(d), HoldsCopies(d), NEW i \in Files,
           NEW w \in Writer, w.has, WriterOK(CloseWriter(w), i, d),
           Renamable(d, w), Verified(w, Source(i))
    PROVE  /\ DiskType(Committed(d, w)) /\ HoldsCopies(Committed(d, w))
           /\ WriterOK(CloseWriter(w), i, Committed(d, w))
           /\ Committed(d, w).final = Put(d.final, w.target, d.partial[w.partial])
           /\ d.partial[w.partial] \in Copies(i)
           /\ w.target = w.partial /\ w.target[1] = RelPath[i] /\ w.target \in Name
<1> DEFINE n == w.partial
           c == d.partial[n]
           e == Committed(d, w)
           v == CloseWriter(w)
           gone == {n} \cup PartialsAt(n)
<1>1. n \in DOMAIN d.partial /\ n \in Name /\ c \in Content
  BY DEF Renamable, DiskType, IsStore, Content
<1>2. /\ v \in Writer /\ ~v.open /\ v.has /\ v.target = w.target
      /\ v.partial = n /\ v.hashed = w.hashed
  BY CloseWriterFacts
<1>3. w.target = n /\ n[1] = RelPath[i]
  BY <1>1, <1>2 DEF WriterOK
<1>4. c \in Copies(i)
  <2>1. Renamable(d, v) /\ Verified(v, Source(i))
    BY <1>2 DEF Renamable, Verified
  <2> HIDE DEF v
  <2>2. d.partial[v.partial] \in Copies(i)
    BY <1>2, <2>1, VerifiedIsCopy DEF v
  <2>3. QED BY <1>2, <2>2
<1>5. /\ e.final = Put(d.final, n, c) /\ e.partial = Drop(d.partial, gone)
      /\ e = [final |-> e.final, partial |-> e.partial] /\ n \in gone
  BY <1>3 DEF Committed
<1> HIDE DEF c, n, e, v, gone
<1>6. IsStore(d.final) /\ IsStore(d.partial)
  BY DEF DiskType
<1>7. /\ IsStore(e.final) /\ DOMAIN e.final = DOMAIN d.final \cup {n}
      /\ e.final[n] = c
      /\ \A m \in DOMAIN d.final : m # n => e.final[m] = d.final[m]
  BY <1>1, <1>5, <1>6, PutFacts
<1>8. IsStore(e.partial) /\ n \notin DOMAIN e.partial
  <2>1. /\ IsStore(Drop(d.partial, gone))
        /\ DOMAIN Drop(d.partial, gone) = DOMAIN d.partial \ gone
    BY <1>6, DropFacts
  <2>2. n \notin DOMAIN Drop(d.partial, gone)
    BY <1>5, <2>1
  <2>3. QED BY <1>5, <2>1, <2>2
<1>9. DiskType(e)
  BY <1>5, <1>7, <1>8 DEF DiskType
<1>10. HoldsCopies(e)
  BY <1>3, <1>4, <1>7 DEF HoldsCopies
<1>11. WriterOK(v, i, e)
  <2>1. ~v.has => v.hashed = <<>>
    BY <1>2
  <2>2. QED BY <1>2, <1>8, <2>1 DEF WriterOK
<1>12. QED BY <1>1, <1>3, <1>4, <1>5, <1>9, <1>10, <1>11 DEF e, n, c, v

LEMMA HalfCommitFacts ==
    ASSUME NEW d, DiskType(d), HoldsCopies(d), NEW i,
           NEW w \in Writer, WriterOK(CloseWriter(w), i, d)
    PROVE  /\ DiskType(HalfCommitted(d, w)) /\ HoldsCopies(HalfCommitted(d, w))
           /\ WriterOK(CloseWriter(w), i, HalfCommitted(d, w))
<1> DEFINE e == HalfCommitted(d, w)
           F == {w.target}
           P == PartialsAt(w.target)
           v == CloseWriter(w)
<1>1. /\ e.final = Drop(d.final, F) /\ e.partial = Drop(d.partial, P)
      /\ e = [final |-> e.final, partial |-> e.partial]
  BY DEF HalfCommitted
<1>2. ~v.open
  BY CloseWriterFacts
<1> HIDE DEF e, F, P, v
<1>3. /\ IsStore(e.final) /\ DOMAIN e.final = DOMAIN d.final \ F
      /\ \A m \in DOMAIN d.final \ F : e.final[m] = d.final[m]
  <2>1. IsStore(d.final)
    BY DEF DiskType
  <2>2. /\ IsStore(Drop(d.final, F)) /\ DOMAIN Drop(d.final, F) = DOMAIN d.final \ F
        /\ \A m \in DOMAIN d.final \ F : Drop(d.final, F)[m] = d.final[m]
    BY <2>1, DropFacts
  <2>3. QED BY <1>1, <2>2
<1>4. /\ IsStore(e.partial) /\ DOMAIN e.partial = DOMAIN d.partial \ P
      /\ \A m \in DOMAIN d.partial \ P : e.partial[m] = d.partial[m]
  <2>1. IsStore(d.partial)
    BY DEF DiskType
  <2>2. /\ IsStore(Drop(d.partial, P)) /\ DOMAIN Drop(d.partial, P) = DOMAIN d.partial \ P
        /\ \A m \in DOMAIN d.partial \ P : Drop(d.partial, P)[m] = d.partial[m]
    BY <2>1, DropFacts
  <2>3. QED BY <1>1, <2>2
<1>5. DiskType(e) /\ HoldsCopies(e)
  BY <1>1, <1>3, <1>4 DEF DiskType, HoldsCopies
<1>6. WriterOK(v, i, e)
  <2>1. v.partial \in DOMAIN e.partial =>
           /\ v.partial \in DOMAIN d.partial
           /\ e.partial[v.partial] = d.partial[v.partial]
    BY <1>4
  <2>2. WriterOK(v, i, d)
    BY DEF v
  <2>3. QED BY <1>2, <2>1, <2>2, ClosedNeedsPartial
<1>7. QED BY <1>5, <1>6 DEF e, v

-----------------------------------------------------------------------------
(* Steps of the receiving session.                                         *)

LEMMA ReceiverKnows ==
    ASSUME SessionInv
    PROVE  /\ receiver \in Receiver /\ QueueOK(toRecv, receiver)
           /\ toRecv \in Seq(Message) /\ toSend \in Seq(Message) /\ pauses \in Nat
           /\ Linked => AnnouncedOK(toRecv, sender, receiver)
           /\ sock \in [Sides -> SockStates]
           /\ DiskType(disk) /\ HoldsCopies(disk)
           /\ WriterOK(receiver.writer, receiver.recvIndex, disk)
           /\ Early => toSend = <<>>
           /\ Early => ~Linked
BY DEF SessionInv, TypeOK, QueueOK, EarlyOK, Early, Linked, DiskType

\* A step of the receiving side keeps the invariant if it leaves the queues,
\* the writer and the disk in order.
LEMMA ReceiverStepOK ==
    ASSUME SessionInv,
           receiver' \in Receiver, QueueOK(toRecv', receiver'),
           Linked' => AnnouncedOK(toRecv', sender, receiver'),
           toSend' \in Seq(Message), Early => toSend' = <<>>,
           HandshakeFirst', pauses' \in Nat,
           sock' \in [Sides -> SockStates], sock'["send"] = sock["send"],
           DiskType(disk'), HoldsCopies(disk'),
           WriterOK(receiver'.writer, receiver'.recvIndex, disk'),
           UNCHANGED <<sender, cut>>
    PROVE  SessionInv'
<1>1. TypeOK'
  BY DEF SessionInv, TypeOK, QueueOK, DiskType
<1>2. EarlyOK'
  BY DEF SessionInv, EarlyOK, Early
<1>3. ReaderOK(sender)'
  BY DEF SessionInv
<1>4. StreamOK(toRecv, receiver)' /\ PayloadOK(toRecv)'
  BY DEF QueueOK
<1>5. (Linked => AnnouncedOK(toRecv, sender, receiver))'
  OBVIOUS
<1>6. WriterOK(receiver.writer, receiver.recvIndex, disk)' /\ HoldsCopies(disk)'
  OBVIOUS
<1>7. QED BY <1>1, <1>2, <1>3, <1>4, <1>5, <1>6 DEF SessionInv

\* What the receiving side sends reaches the queue over a whole link only.
Answers == UNCHANGED toSend \/ \E m \in Message : SendToSender(<<m>>)

LEMMA AnswersOK ==
    ASSUME SessionInv, Answers
    PROVE  toSend' \in Seq(Message) /\ (Early => toSend' = <<>>)
<1>1. /\ toSend \in Seq(Message) /\ (Early => toSend = <<>>)
      /\ Early => ~Linked
  BY ReceiverKnows
<1>2. CASE UNCHANGED toSend
  BY <1>1, <1>2
<1>3. CASE \E m \in Message : SendToSender(<<m>>)
  <2>1. PICK m \in Message : SendToSender(<<m>>)
    BY <1>3
  <2>2. toSend \o <<m>> = Append(toSend, m) /\ Append(toSend, m) \in Seq(Message)
    BY <1>1, ConcatOne, AppendFacts
  <2>3. QED BY <1>1, <2>1, <2>2 DEF SendToSender
<1>4. QED BY <1>2, <1>3 DEF Answers

\* What the invariant says to a handler of the receiving session.
LEMMA ReceiverTakes ==
    ASSUME SessionInv, NEW type, ReceiverHandles(type)
    PROVE  /\ toRecv # <<>> /\ Head(toRecv) \in Message /\ Head(toRecv).type = type
           /\ Head(toRecv) = toRecv[1] /\ HonestPacket(Head(toRecv))
           /\ UNCHANGED <<sender, cut, pauses>> /\ ~receiver.asking
           /\ type # "HandshakeReq" => HandshakeFirst'
<1>1. /\ toRecv \in Seq(Message) /\ toRecv # <<>> /\ Head(toRecv).type = type
      /\ UNCHANGED <<sender, cut, pauses>> /\ ~receiver.asking
      /\ QueueOK(toRecv, receiver)
  BY ReceiverKnows DEF ReceiverHandles, ReceiverGets
<1>2. Head(toRecv) \in Message /\ Head(toRecv) = toRecv[1] /\ 1 \in 1..Len(toRecv)
  BY <1>1, TailFacts
<1>3. HonestPacket(Head(toRecv))
  BY <1>1, <1>2 DEF QueueOK, PayloadOK
<1>4. ASSUME type # "HandshakeReq" PROVE HandshakeFirst'
  <2>1. sender.status \notin Opening
    BY <1>1, <1>2, <1>4 DEF SessionInv, HandshakeFirst
  <2>2. QED BY <1>1, <2>1 DEF HandshakeFirst
<1>5. QED BY <1>1, <1>2, <1>3, <1>4

\* The queue after a handler, whether or not it has closed the socket.
LEMMA QueueAfterHandler ==
    ASSUME SessionInv, NEW type, ReceiverHandles(type),
           ConsumeOnly \/ CloseInHandler, Took(toRecv, receiver, receiver')
    PROVE  /\ QueueOK(toRecv', receiver')
           /\ Linked' => AnnouncedOK(toRecv', sender, receiver')
           /\ sock' \in [Sides -> SockStates] /\ sock'["send"] = sock["send"]
<1>1. /\ QueueOK(toRecv, receiver) /\ toRecv \in Seq(Message) /\ toRecv # <<>>
      /\ sock \in [Sides -> SockStates] /\ cut' = cut
      /\ Linked => AnnouncedOK(toRecv, sender, receiver)
  BY ReceiverKnows, ReceiverTakes
<1>2. QueueOK(Tail(toRecv), receiver')
  BY <1>1, QueueTail
<1>3. CASE ConsumeOnly
  <2>1. toRecv' = Tail(toRecv) /\ sock' = sock
    BY <1>3 DEF ConsumeOnly
  <2>2. Linked' = Linked
    BY <1>1, <2>1 DEF Linked
  <2>3. Linked => AnnouncedOK(Tail(toRecv), sender, receiver')
    BY <1>1, AnnouncedTail
  <2>4. QED BY <1>1, <1>2, <2>1, <2>2, <2>3
<1>4. CASE CloseInHandler
  <2>1. PICK k \in 0..(Len(toRecv) - 1) : toRecv' = SubSeq(Tail(toRecv), 1, k)
    BY <1>4 DEF CloseInHandler
  <2>2. k \in 0..Len(Tail(toRecv))
    BY <1>1, <2>1, TailFacts
  <2>3. QueueOK(toRecv', receiver')
    BY <1>2, <2>1, <2>2, QueuePrefix
  <2>4. /\ sock' \in [Sides -> SockStates] /\ sock'["send"] = sock["send"]
        /\ sock'["recv"] = "closed"
    BY <1>1, <1>4 DEF CloseInHandler, Close, Sides, SockStates
  <2>5. ~Linked'
    BY <2>4 DEF Linked
  <2>6. QED BY <2>3, <2>4, <2>5
<1>5. QED BY <1>3, <1>4

LEMMA ReceiverHandlerOK ==
    ASSUME SessionInv, NEW type, ReceiverHandles(type),
           ConsumeOnly \/ CloseInHandler, Answers,
           receiver' \in Receiver, Took(toRecv, receiver, receiver'),
           DiskType(disk'), HoldsCopies(disk'), HandshakeFirst',
           WriterOK(receiver'.writer, receiver'.recvIndex, disk')
    PROVE  SessionInv'
<1>1. /\ QueueOK(toRecv', receiver')
      /\ Linked' => AnnouncedOK(toRecv', sender, receiver')
      /\ sock' \in [Sides -> SockStates] /\ sock'["send"] = sock["send"]
  BY QueueAfterHandler
<1>2. toSend' \in Seq(Message) /\ (Early => toSend' = <<>>)
  BY AnswersOK
<1>3. UNCHANGED <<sender, cut>> /\ pauses' \in Nat
  BY ReceiverTakes, ReceiverKnows
<1>4. QED BY <1>1, <1>2, <1>3, ReceiverStepOK

\* The disk and the writer are left alone, but for closing it.
WriterLeft ==
    \/ receiver'.writer = receiver.writer /\ UNCHANGED disk
    \/ /\ receiver'.writer = CloseWriter(receiver.writer)
       /\ disk' \in Closed(disk, receiver.writer)

LEMMA WriterLeftOK ==
    ASSUME SessionInv, WriterLeft, receiver'.recvIndex = receiver.recvIndex
    PROVE  /\ DiskType(disk') /\ HoldsCopies(disk')
           /\ WriterOK(receiver'.writer, receiver'.recvIndex, disk')
           /\ receiver'.writer.has = receiver.writer.has
<1> DEFINE w == receiver.writer
           i == receiver.recvIndex
<1>1. /\ receiver \in Receiver /\ DiskType(disk) /\ HoldsCopies(disk)
      /\ WriterOK(w, i, disk)
  BY ReceiverKnows
<1>2. w \in Writer /\ i \in Files
  BY <1>1 DEF Receiver
<1>3. CASE receiver'.writer = w /\ UNCHANGED disk
  BY <1>1, <1>3
<1>4. CASE receiver'.writer = CloseWriter(w) /\ disk' \in Closed(disk, w)
  <2>1. CloseWriter(w).has = w.has
    BY <1>2, CloseWriterFacts
  <2>2. DiskType(disk') /\ HoldsCopies(disk') /\ WriterOK(CloseWriter(w), i, disk')
    BY <1>1, <1>2, <1>4, ClosingFacts
  <2>3. QED BY <1>4, <2>1, <2>2
<1>5. QED BY <1>3, <1>4 DEF WriterLeft

LEMMA WriterKept ==
    ASSUME SessionInv, NEW type, ReceiverHandles(type), type # "FileStart",
           ConsumeOnly \/ CloseInHandler, Answers, WriterLeft,
           receiver' \in Receiver, receiver'.recvIndex = receiver.recvIndex,
           HandshakeFirst'
    PROVE  SessionInv'
<1>1. /\ DiskType(disk') /\ HoldsCopies(disk')
      /\ WriterOK(receiver'.writer, receiver'.recvIndex, disk')
      /\ receiver'.writer.has = receiver.writer.has
  BY WriterLeftOK
<1>2. Took(toRecv, receiver, receiver')
  <2>1. ~IsStart(Head(toRecv))
    BY ReceiverTakes DEF IsStart
  <2>2. QED BY <1>1, <2>1 DEF Took
<1>3. QED BY <1>1, <1>2, ReceiverHandlerOK

LEMMA HandshakeReqOK ==
    ASSUME SessionInv, OnHandshakeReq PROVE SessionInv'
<1> DEFINE m == Signal("HandshakeResp")
<1>1. ReceiverHandles("HandshakeReq") /\ ConsumeOnly /\ SendToSender(<<m>>)
  BY DEF OnHandshakeReq
<1>2. m \in Message /\ m.type = "HandshakeResp"
  BY DEF Signal, Message, Signals
<1>3. Answers
  BY <1>1, <1>2 DEF Answers
<1>4. /\ receiver \in Receiver /\ toRecv \in Seq(Message) /\ toSend \in Seq(Message)
      /\ toRecv # <<>> /\ ~receiver.asking /\ sender' = sender
  BY <1>1, ReceiverKnows, ReceiverTakes
<1>5. /\ receiver' \in Receiver /\ receiver'.status = "Offering"
      /\ receiver'.writer = receiver.writer /\ receiver'.asking = receiver.asking
      /\ receiver'.recvIndex = receiver.recvIndex
  BY <1>4, WithStatusReceiver DEF OnHandshakeReq, Statuses
<1>6. HandshakeFirst'
  <2>1. SUFFICES ASSUME sender.status \in Opening
                 PROVE  /\ \A k \in 1..Len(toRecv') : toRecv'[k].type = "HandshakeReq"
                        /\ \A k \in 1..Len(toSend') :
                              toSend'[k].type \in {"HandshakeResp", "TransferCancel"}
    BY <1>4, <1>5 DEF HandshakeFirst
  <2>2. /\ \A k \in 1..Len(toRecv) : toRecv[k].type = "HandshakeReq"
        /\ \A k \in 1..Len(toSend) :
              toSend[k].type \in {"HandshakeResp", "TransferCancel"}
    BY <2>1 DEF SessionInv, HandshakeFirst
  <2>3. \A k \in 1..Len(toRecv') : toRecv'[k].type = "HandshakeReq"
    <3>1. /\ toRecv' = Tail(toRecv) /\ Len(Tail(toRecv)) = Len(toRecv) - 1
          /\ Len(toRecv) \in Nat
          /\ \A p \in 1..Len(Tail(toRecv)) : Tail(toRecv)[p] = toRecv[p + 1]
      BY <1>1, <1>4, TailFacts DEF ConsumeOnly
    <3>2. \A k \in 1..Len(toRecv') : k + 1 \in 1..Len(toRecv)
      BY <3>1
    <3>3. QED BY <2>2, <3>1, <3>2
  <2>4. toSend' = toSend \/ toSend' = Append(toSend, m)
    BY <1>1, <1>2, <1>4, ConcatOne DEF SendToSender
  <2>5. /\ Len(Append(toSend, m)) = Len(toSend) + 1 /\ Len(toSend) \in Nat
        /\ \A p \in 1..Len(toSend) : Append(toSend, m)[p] = toSend[p]
        /\ Append(toSend, m)[Len(toSend) + 1] = m
    BY <1>2, <1>4, AppendFacts
  <2>6. ASSUME NEW k \in 1..Len(toSend')
        PROVE  toSend'[k].type \in {"HandshakeResp", "TransferCancel"}
    <3>1. CASE toSend' = toSend
      BY <2>2, <3>1
    <3>2. CASE toSend' = Append(toSend, m) /\ k = Len(toSend) + 1
      BY <1>2, <2>5, <3>2
    <3>3. CASE toSend' = Append(toSend, m) /\ k # Len(toSend) + 1
      <4>1. k \in 1..Len(toSend) /\ toSend'[k] = toSend[k]
        BY <2>5, <3>3
      <4>2. QED BY <2>2, <4>1
    <3>4. QED BY <2>4, <3>1, <3>2, <3>3
  <2>7. QED BY <2>3, <2>6
<1>7. UNCHANGED disk
  BY DEF OnHandshakeReq
<1>8. QED BY <1>1, <1>3, <1>5, <1>6, <1>7, WriterKept DEF WriterLeft

LEMMA AcceptFacts ==
    ASSUME NEW r \in Receiver, AcceptTransfer(r)
    PROVE  /\ receiver' \in Receiver /\ receiver'.writer = r.writer
           /\ receiver'.recvIndex = r.recvIndex /\ Answers
<1> DEFINE m == TransferAccept(1, 0)
<1>1. /\ WithStatus(r, "Transferring") \in Receiver
      /\ WithStatus(r, "Transferring").writer = r.writer
      /\ WithStatus(r, "Transferring").recvIndex = r.recvIndex
  BY WithStatusReceiver DEF Statuses
<1>2. /\ receiver' \in Receiver /\ receiver'.writer = r.writer
      /\ receiver'.recvIndex = r.recvIndex
  BY <1>1 DEF AcceptTransfer, Receiver
<1>3. 1 \in Files
  BY SizesAssumption DEF Files
<1>4. m \in Message
  BY <1>3 DEF TransferAccept, Message
<1>5. Answers
  BY <1>4 DEF AcceptTransfer, Answers
<1>6. QED BY <1>2, <1>5

LEMMA TransferOfferOK ==
    ASSUME SessionInv, OnTransferOffer PROVE SessionInv'
<1>1. /\ ReceiverHandles("TransferOffer") /\ ConsumeOnly /\ UNCHANGED disk
      /\ HandshakeFirst' /\ receiver \in Receiver
  BY ReceiverTakes, ReceiverKnows DEF OnTransferOffer
<1>2. CASE AcceptTransfer(receiver)
  BY <1>1, <1>2, AcceptFacts, WriterKept DEF WriterLeft
<1>3. CASE /\ receiver' = [WithStatus(receiver, "WaitingApproval") EXCEPT !.asking = TRUE]
           /\ UNCHANGED toSend
  <2>1. /\ WithStatus(receiver, "WaitingApproval") \in Receiver
        /\ WithStatus(receiver, "WaitingApproval").writer = receiver.writer
        /\ WithStatus(receiver, "WaitingApproval").recvIndex = receiver.recvIndex
    BY <1>1, WithStatusReceiver DEF Statuses
  <2>2. /\ receiver' \in Receiver /\ receiver'.writer = receiver.writer
        /\ receiver'.recvIndex = receiver.recvIndex
    BY <1>3, <2>1 DEF Receiver
  <2>3. QED BY <1>1, <1>3, <2>2, WriterKept DEF Answers, WriterLeft
<1>4. QED BY <1>2, <1>3 DEF OnTransferOffer

\* Pause, resume, cancel and completion only touch the status, the writer's
\* being open and the counters.
LEMMA ReceiverSignalsOK ==
    ASSUME SessionInv,
           \/ OnReceiverPause \/ OnReceiverResume
           \/ OnReceiverCancel \/ OnTransferComplete
    PROVE  SessionInv'
<1>1. receiver \in Receiver /\ receiver.writer \in Writer
  BY ReceiverKnows DEF Receiver
<1>2. ASSUME NEW st \in Statuses
      PROVE  /\ WithStatus(receiver, st) \in Receiver
             /\ WithStatus(receiver, st).writer = receiver.writer
             /\ WithStatus(receiver, st).recvIndex = receiver.recvIndex
  BY <1>1, WithStatusReceiver
<1>3. CASE OnReceiverPause
  <2>1. /\ ReceiverHandles("TransferPause") /\ ConsumeOnly /\ UNCHANGED disk
        /\ Answers /\ receiver' = WithStatus(receiver, "Paused")
    BY <1>3 DEF OnReceiverPause, Answers
  <2>2. HandshakeFirst'
    BY <2>1, ReceiverTakes
  <2>3. QED BY <1>2, <2>1, <2>2, WriterKept DEF Statuses, WriterLeft
<1>4. CASE OnReceiverResume
  <2>1. /\ ReceiverHandles("TransferResume") /\ ConsumeOnly /\ UNCHANGED disk
        /\ Answers /\ receiver' = WithStatus(receiver, "Transferring")
    BY <1>4 DEF OnReceiverResume, Answers
  <2>2. HandshakeFirst'
    BY <2>1, ReceiverTakes
  <2>3. QED BY <1>2, <2>1, <2>2, WriterKept DEF Statuses, WriterLeft
<1>5. CASE OnReceiverCancel
  <2>1. /\ ReceiverHandles("TransferCancel") /\ ConsumeOnly /\ Answers
        /\ disk' \in Closed(disk, receiver.writer)
        /\ receiver' = [WithStatus(receiver, "Cancelled") EXCEPT !.writer = CloseWriter(@)]
    BY <1>5 DEF OnReceiverCancel, Answers
  <2>2. HandshakeFirst'
    BY <2>1, ReceiverTakes
  <2>3. /\ receiver' \in Receiver /\ receiver'.writer = CloseWriter(receiver.writer)
        /\ receiver'.recvIndex = receiver.recvIndex
    <3>1. CloseWriter(receiver.writer) \in Writer
      BY <1>1, CloseWriterFacts
    <3>2. /\ WithStatus(receiver, "Cancelled") \in Receiver
          /\ WithStatus(receiver, "Cancelled").writer = receiver.writer
          /\ WithStatus(receiver, "Cancelled").recvIndex = receiver.recvIndex
      BY <1>2 DEF Statuses
    <3>3. QED BY <2>1, <3>1, <3>2 DEF Receiver
  <2>4. QED BY <2>1, <2>2, <2>3, WriterKept DEF WriterLeft
<1>6. CASE OnTransferComplete
  <2>1. /\ ReceiverHandles("TransferComplete") /\ ConsumeOnly /\ UNCHANGED disk
        /\ Answers
        /\ receiver' = [WithStatus(receiver, "Completed") EXCEPT
                           !.total = TotalSize,
                           !.fileGot = ManifestSize[receiver.recvIndex]]
    BY <1>6 DEF OnTransferComplete, Answers
  <2>2. HandshakeFirst'
    BY <2>1, ReceiverTakes
  <2>3. /\ receiver' \in Receiver /\ receiver'.writer = receiver.writer
        /\ receiver'.recvIndex = receiver.recvIndex
    <3>1. ManifestSize[receiver.recvIndex] \in Nat /\ TotalSize \in Nat
      BY <1>1, SizesAssumption, SessionAssumption DEF Receiver
    <3>2. /\ WithStatus(receiver, "Completed") \in Receiver
          /\ WithStatus(receiver, "Completed").writer = receiver.writer
          /\ WithStatus(receiver, "Completed").recvIndex = receiver.recvIndex
      BY <1>2 DEF Statuses
    <3>3. QED BY <2>1, <3>1, <3>2 DEF Receiver
  <2>4. QED BY <2>1, <2>2, <2>3, WriterKept DEF WriterLeft
<1>7. QED BY <1>3, <1>4, <1>5, <1>6

-----------------------------------------------------------------------------
(* The handlers that write.                                                *)

LEMMA FileAckMessage ==
    ASSUME NEW i \in Files, NEW ok \in BOOLEAN PROVE FileAck(i, ok) \in Message
BY DEF FileAck, Message

\* A writer whose open() failed: it is closed and has no .partial file.
LEMMA OpenFailsOK ==
    ASSUME SessionInv, ReceiverHandles("FileStart"),
           NEW w \in Writer, NEW d, ~w.open, w.hashed = <<>>,
           DiskType(d), HoldsCopies(d), w.partial \notin DOMAIN d.partial,
           OpenFails([receiver EXCEPT !.recvIndex = Head(toRecv).index,
                                      !.fileGot = 0], w, d)
    PROVE  SessionInv'
<1> DEFINE i == Head(toRecv).index
           r == [receiver EXCEPT !.recvIndex = i, !.fileGot = 0]
<1>1. /\ receiver \in Receiver /\ Head(toRecv) \in Message
      /\ Head(toRecv).type = "FileStart" /\ HandshakeFirst'
  BY ReceiverKnows, ReceiverTakes
<1>2. i \in Files
  BY <1>1 DEF Message, Signals
<1>3. r \in Receiver /\ r.recvIndex = i
  BY <1>1, <1>2 DEF Receiver
<1> HIDE DEF r
<1>4. /\ receiver' = [WithStatus(r, "Failed") EXCEPT !.writer = w]
      /\ disk' = d /\ SendToSender(<<FileAck(i, FALSE)>>) /\ CloseInHandler
  BY <1>3 DEF OpenFails, r
<1>5. /\ WithStatus(r, "Failed") \in Receiver
      /\ WithStatus(r, "Failed").recvIndex = i
  BY <1>3, WithStatusReceiver DEF Statuses
<1>6. receiver' \in Receiver /\ receiver'.writer = w /\ receiver'.recvIndex = i
  BY <1>4, <1>5 DEF Receiver
<1>7. Took(toRecv, receiver, receiver')
  BY <1>1, <1>6 DEF Took, IsStart
<1>8. Answers
  BY <1>2, <1>4, FileAckMessage DEF Answers
<1>9. WriterOK(receiver'.writer, receiver'.recvIndex, disk')
  BY <1>4, <1>6 DEF WriterOK
<1>10. QED BY <1>1, <1>4, <1>6, <1>7, <1>8, <1>9, ReceiverHandlerOK

LEMMA FileStartOK ==
    ASSUME NoTrailingHole, SessionInv, OnFileStart PROVE SessionInv'
<1> DEFINE i == Head(toRecv).index
           r == [receiver EXCEPT !.recvIndex = i, !.fileGot = 0]
<1>0. ReceiverHandles("FileStart")
  BY DEF OnFileStart
<1>1. /\ receiver \in Receiver /\ Head(toRecv) \in Message
      /\ Head(toRecv).type = "FileStart" /\ HandshakeFirst'
      /\ receiver.writer \in Writer /\ receiver.recvIndex \in Files
      /\ DiskType(disk) /\ HoldsCopies(disk) /\ ReceiverHandles("FileStart")
      /\ WriterOK(receiver.writer, receiver.recvIndex, disk)
  BY <1>0, ReceiverKnows, ReceiverTakes DEF Receiver
<1>2. i \in Files
  BY <1>1 DEF Message, Signals
<1>3. r \in Receiver /\ r.recvIndex = i
  BY <1>1, <1>2 DEF Receiver
<1>4. /\ NewWriter \in Writer /\ ~NewWriter.open /\ NewWriter.hashed = <<>>
      /\ NewWriter.partial = NoName
  <2>1. /\ NoWriter \in Writer /\ ~NoWriter.open /\ NoWriter.hashed = <<>>
        /\ NoWriter.partial = NoName
    BY DEF NoWriter, Writer
  <2>2. QED BY <2>1 DEF NewWriter, Writer
<1>5. ASSUME NEW d \in Closed(disk, receiver.writer)
      PROVE  DiskType(d) /\ HoldsCopies(d) /\ NoName \notin DOMAIN d.partial
  <2>1. DiskType(d) /\ HoldsCopies(d)
    BY <1>1, ClosingFacts
  <2>2. QED BY <2>1, NoNameIsNoFile DEF DiskType, IsStore
<1> DEFINE Opens(d) ==
             /\ \E t \in Targets(d, i, Policy), c \in Preallocations(i) :
                   /\ receiver' = [r EXCEPT !.writer = OpenedWriter(t)]
                   /\ disk' = OpenedDisk(d, t, c)
             /\ ConsumeOnly /\ UNCHANGED toSend
           Fails(d) ==
             \/ OpenFails(r, NewWriter, d)
             \/ OpenFails(r, [NewWriter EXCEPT !.target = <<RelPath[i], 0>>], d)
             \/ \E t \in Targets(d, i, Policy) :
                   OpenFails(r, CloseWriter(OpenedWriter(t)), Cleared(d, t))
<1>6. PICK d \in Closed(disk, receiver.writer) : Opens(d) \/ Fails(d)
  BY DEF OnFileStart
<1>7. DiskType(d) /\ HoldsCopies(d) /\ NoName \notin DOMAIN d.partial
  BY <1>5
<1>8. CASE Opens(d)
  <2>1. PICK t \in Targets(d, i, Policy), c \in Preallocations(i) :
               /\ receiver' = [r EXCEPT !.writer = OpenedWriter(t)]
               /\ disk' = OpenedDisk(d, t, c)
    BY <1>8
  <2>2. /\ DiskType(disk') /\ HoldsCopies(disk')
        /\ WriterOK(OpenedWriter(t), i, disk') /\ OpenedWriter(t) \in Writer
    BY <1>2, <1>7, <2>1, OpenedFacts
  <2>3. /\ receiver' \in Receiver /\ receiver'.writer = OpenedWriter(t)
        /\ receiver'.recvIndex = i
    <3> HIDE DEF r
    <3>1. QED BY <1>3, <2>1, <2>2 DEF Receiver
  <2>4. Took(toRecv, receiver, receiver')
    BY <1>1, <2>3 DEF Took, IsStart
  <2>5. ConsumeOnly /\ Answers
    BY <1>8 DEF Answers
  <2>6. QED BY <1>1, <2>2, <2>3, <2>4, <2>5, ReceiverHandlerOK
<1>9. CASE OpenFails(r, NewWriter, d)
  BY <1>1, <1>4, <1>7, <1>9, OpenFailsOK
<1>10. CASE OpenFails(r, [NewWriter EXCEPT !.target = <<RelPath[i], 0>>], d)
  <2> DEFINE w == [NewWriter EXCEPT !.target = <<RelPath[i], 0>>]
  <2>1. <<RelPath[i], 0>> \in Name
    BY <1>2 DEF Name, Paths
  <2>2. w \in Writer /\ ~w.open /\ w.hashed = <<>> /\ w.partial = NoName
    BY <1>4, <2>1 DEF Writer
  <2> HIDE DEF w
  <2>3. OpenFails(r, w, d)
    BY <1>10 DEF w
  <2>4. QED BY <1>1, <1>7, <2>2, <2>3, OpenFailsOK
<1>11. CASE \E t \in Targets(d, i, Policy) :
              OpenFails(r, CloseWriter(OpenedWriter(t)), Cleared(d, t))
  <2>1. PICK t \in Targets(d, i, Policy) :
               OpenFails(r, CloseWriter(OpenedWriter(t)), Cleared(d, t))
    BY <1>11
  <2> DEFINE w == CloseWriter(OpenedWriter(t))
             e == Cleared(d, t)
  <2>2. /\ OpenedWriter(t) \in Writer /\ OpenedWriter(t).partial = t
        /\ OpenedWriter(t).hashed = <<>>
    BY <1>2, TargetFacts DEF OpenedWriter, Writer
  <2>3. w \in Writer /\ ~w.open /\ w.hashed = <<>> /\ w.partial = t
    BY <2>2, CloseWriterFacts
  <2>4. DiskType(e) /\ HoldsCopies(e) /\ t \notin DOMAIN e.partial
    BY <1>7, ClearedFacts
  <2> HIDE DEF w, e
  <2>5. OpenFails(r, w, e)
    BY <2>1 DEF w, e
  <2>6. QED BY <1>1, <2>3, <2>4, <2>5, OpenFailsOK
<1>12. QED BY <1>6, <1>8, <1>9, <1>10, <1>11

LEMMA FileDataChunkOK ==
    ASSUME SessionInv, OnFileDataChunk PROVE SessionInv'
<1> DEFINE m == Head(toRecv)
           w == receiver.writer
           i == receiver.recvIndex
           e == WriteToDisk(disk, w, m.offset, m.data)
           v == [w EXCEPT !.hashed = Append(@, m.data)]
<1>1. /\ receiver \in Receiver /\ m \in Message /\ toRecv # <<>>
      /\ m.type = "FileDataChunk" /\ HandshakeFirst' /\ HonestPacket(m)
      /\ DiskType(disk) /\ HoldsCopies(disk) /\ WriterOK(w, i, disk)
      /\ QueueOK(toRecv, receiver)
      /\ ReceiverHandles("FileDataChunk")
  BY ReceiverKnows, ReceiverTakes DEF OnFileDataChunk
<1>2. w \in Writer /\ i \in Files
  BY <1>1 DEF Receiver
<1>3. Answers
  BY DEF OnFileDataChunk, Answers
<1>4. ~IsStart(m) /\ IsData(m)
  BY <1>1 DEF IsStart, IsData
<1>5. /\ m.index \in Files /\ m.offset \in Nat /\ m.data = <<m.index, m.offset + 1>>
      /\ m.offset < SourceSize[m.index]
  BY <1>1 DEF Message, Signals, HonestPacket
<1>6. w.has => m.index = i
  BY <1>1, <1>4, HeadIsOwned
<1>7. ASSUME w.has, w.open
      PROVE  /\ DiskType(e) /\ HoldsCopies(e) /\ WriterOK(w, i, e)
             /\ v \in Writer /\ WriterOK(v, i, e)
  <2>1. m.data = <<i, m.offset + 1>> /\ m.offset < SourceSize[i]
    BY <1>5, <1>6, <1>7
  <2>2. QED BY <1>1, <1>2, <1>5, <1>7, <2>1, WriteFacts
<1>8. CASE ConsumeOnly /\ UNCHANGED <<receiver, disk>>
  BY <1>1, <1>3, <1>8, WriterKept DEF WriterLeft
<1>9. CASE /\ w.has /\ w.open
           /\ receiver' = [receiver EXCEPT !.writer.hashed = Append(@, m.data),
                                           !.fileGot = @ + 1, !.total = @ + 1]
           /\ disk' = e /\ ConsumeOnly
  <2>1. receiver.fileGot + 1 \in Nat /\ receiver.total + 1 \in Nat
    BY <1>1 DEF Receiver
  <2>2. receiver' = [receiver EXCEPT !.writer = v,
                        !.fileGot = receiver.fileGot + 1, !.total = receiver.total + 1]
    BY <1>9
  <2>3. v \in Writer /\ WriterOK(v, i, e) /\ DiskType(e) /\ HoldsCopies(e) /\ v.has = w.has
    BY <1>2, <1>7, <1>9 DEF Writer
  <2> HIDE DEF v, e
  <2>4. receiver' \in Receiver /\ receiver'.writer = v /\ receiver'.recvIndex = i
    BY <1>1, <2>1, <2>2, <2>3 DEF Receiver
  <2>5. Took(toRecv, receiver, receiver')
    BY <1>4, <1>9, <2>4 DEF Took
  <2>6. QED BY <1>1, <1>3, <1>9, <2>3, <2>4, <2>5, ReceiverHandlerOK
<1>10. CASE /\ w.has /\ disk' \in {disk, e} /\ (disk' = e => disk' = disk \/ w.open)
            /\ receiver' = WithStatus(receiver, "Failed") /\ CloseInHandler
  <2>1. /\ receiver' \in Receiver /\ receiver'.writer = w
        /\ receiver'.recvIndex = i
    BY <1>1, <1>10, WithStatusReceiver DEF Statuses
  <2>2. DiskType(disk') /\ HoldsCopies(disk') /\ WriterOK(w, i, disk')
    BY <1>1, <1>7, <1>10
  <2>3. Took(toRecv, receiver, receiver')
    BY <1>4, <2>1 DEF Took
  <2>4. QED BY <1>1, <1>3, <1>10, <2>1, <2>2, <2>3, ReceiverHandlerOK
<1>11. QED BY <1>8, <1>9, <1>10 DEF OnFileDataChunk

LEMMA FileEndOK ==
    ASSUME SessionInv, OnFileEnd PROVE SessionInv'
<1> DEFINE m == Head(toRecv)
           w == receiver.writer
           i == receiver.recvIndex
<1>1. /\ receiver \in Receiver /\ m \in Message /\ toRecv # <<>>
      /\ m.type = "FileEnd" /\ HandshakeFirst' /\ HonestPacket(m)
      /\ DiskType(disk) /\ HoldsCopies(disk) /\ WriterOK(w, i, disk)
      /\ QueueOK(toRecv, receiver)
      /\ ReceiverHandles("FileEnd") /\ ConsumeOnly
  BY ReceiverKnows, ReceiverTakes DEF OnFileEnd
<1>2. w \in Writer /\ i \in Files
  BY <1>1 DEF Receiver
<1>3. ~IsStart(m) /\ IsData(m)
  BY <1>1 DEF IsStart, IsData
<1>4. m.index \in Files /\ m.hash = Source(m.index)
  BY <1>1 DEF Message, Signals, HonestPacket
<1>5. w.has => m.index = i
  BY <1>1, <1>3, HeadIsOwned
<1>6. CASE UNCHANGED <<receiver, toSend, disk>>
  BY <1>1, <1>6, WriterKept DEF Answers, WriterLeft
<1>7. ASSUME NEW ok \in BOOLEAN,
             receiver' = [receiver EXCEPT !.writer = CloseWriter(@)],
             SendToSender(<<FileAck(m.index, ok)>>),
             DiskType(disk'), HoldsCopies(disk'), WriterOK(CloseWriter(w), i, disk')
      PROVE  SessionInv'
  <2>1. CloseWriter(w) \in Writer /\ CloseWriter(w).has = w.has
    BY <1>2, CloseWriterFacts
  <2>2. /\ receiver' \in Receiver /\ receiver'.writer = CloseWriter(w)
        /\ receiver'.recvIndex = i
    BY <1>1, <1>7, <2>1 DEF Receiver
  <2>3. Took(toRecv, receiver, receiver')
    BY <1>3, <2>1, <2>2 DEF Took
  <2>4. Answers
    BY <1>4, <1>7, FileAckMessage DEF Answers
  <2>5. QED BY <1>1, <1>7, <2>2, <2>3, <2>4, ReceiverHandlerOK
<1>8. CASE /\ ~Verified(w, m.hash) /\ disk' \in Closed(disk, w)
           /\ receiver' = [receiver EXCEPT !.writer = CloseWriter(@)]
           /\ SendToSender(<<FileAck(m.index, FALSE)>>)
  <2>1. DiskType(disk') /\ HoldsCopies(disk') /\ WriterOK(CloseWriter(w), i, disk')
    BY <1>1, <1>2, <1>8, ClosingFacts
  <2>2. QED BY <1>7, <1>8, <2>1
<1>9. CASE /\ w.has /\ Verified(w, m.hash) /\ Renamable(disk, w)
           /\ \E d \in Closed(disk, w) : disk' = Committed(d, w)
           /\ receiver' = [receiver EXCEPT !.writer = CloseWriter(@)]
           /\ SendToSender(<<FileAck(m.index, TRUE)>>)
  <2>1. Verified(w, Source(i))
    BY <1>4, <1>5, <1>9
  <2>2. PICK d \in Closed(disk, w) : disk' = Committed(d, w)
    BY <1>9
  <2>3. DiskType(d) /\ HoldsCopies(d) /\ WriterOK(CloseWriter(w), i, d) /\ Renamable(d, w)
    BY <1>1, <1>2, <1>9, ClosingFacts, ClosingRenames
  <2>4. DiskType(disk') /\ HoldsCopies(disk') /\ WriterOK(CloseWriter(w), i, disk')
    BY <1>2, <1>9, <2>1, <2>2, <2>3, CommitFacts
  <2>5. QED BY <1>7, <1>9, <2>4
<1>10. CASE /\ w.has /\ Verified(w, m.hash)
            /\ \E d \in Closed(disk, w) : disk' = HalfCommitted(d, w)
            /\ receiver' = [receiver EXCEPT !.writer = CloseWriter(@)]
            /\ SendToSender(<<FileAck(m.index, FALSE)>>)
  <2>1. PICK d \in Closed(disk, w) : disk' = HalfCommitted(d, w)
    BY <1>10
  <2>2. DiskType(d) /\ HoldsCopies(d) /\ WriterOK(CloseWriter(w), i, d)
    BY <1>1, <1>2, ClosingFacts
  <2>3. DiskType(disk') /\ HoldsCopies(disk') /\ WriterOK(CloseWriter(w), i, disk')
    BY <1>2, <2>1, <2>2, HalfCommitFacts
  <2>4. QED BY <1>7, <1>10, <2>3
<1>11. QED BY <1>6, <1>8, <1>9, <1>10 DEF OnFileEnd

\* Every packet handler of the receiving session keeps the invariant.
LEMMA ReceiverStepKeeps ==
    ASSUME NoTrailingHole, SessionInv, ReceiverStep PROVE SessionInv'
BY HandshakeReqOK, TransferOfferOK, FileStartOK, FileDataChunkOK, FileEndOK,
   ReceiverSignalsOK DEF ReceiverStep

-----------------------------------------------------------------------------
(* The receiving user, and the loss of the receiver's socket.              *)

\* A step of the receiving side outside its handlers: the writer may be
\* closed, the queue may be shortened together with the socket.
LEMMA ReceiverUserOK ==
    ASSUME SessionInv, Answers, HandshakeFirst',
           receiver' \in Receiver, receiver'.recvIndex = receiver.recvIndex,
           WriterLeft,
           \/ UNCHANGED <<toRecv, sock>>
           \/ /\ Close("recv")
              /\ \E k \in 0..Len(toRecv) : toRecv' = SubSeq(toRecv, 1, k),
           UNCHANGED <<sender, cut>>, pauses' \in Nat
    PROVE  SessionInv'
<1> DEFINE w == receiver.writer
<1>1. /\ receiver \in Receiver /\ QueueOK(toRecv, receiver)
      /\ toRecv \in Seq(Message) /\ sock \in [Sides -> SockStates]
      /\ Linked => AnnouncedOK(toRecv, sender, receiver)
  BY ReceiverKnows
<1>4. /\ DiskType(disk') /\ HoldsCopies(disk')
      /\ WriterOK(receiver'.writer, receiver'.recvIndex, disk')
  BY WriterLeftOK
<1>5. receiver'.writer.has = w.has
  BY WriterLeftOK
<1>6. ASSUME NEW q, NEW p, NEW j, Owner(q, p, j, receiver)
      PROVE  Owner(q, p, j, receiver')
  BY <1>5, <1>6 DEF Owner
<1>7. QueueOK(toRecv, receiver')
  BY <1>1, <1>6 DEF QueueOK, StreamOK
<1>8. Linked => AnnouncedOK(toRecv, sender, receiver')
  BY <1>1, <1>6 DEF AnnouncedOK
<1>9. /\ QueueOK(toRecv', receiver')
      /\ Linked' => AnnouncedOK(toRecv', sender, receiver')
      /\ sock' \in [Sides -> SockStates] /\ sock'["send"] = sock["send"]
  <2>1. CASE UNCHANGED <<toRecv, sock>>
    <3>1. Linked' = Linked
      BY <2>1 DEF Linked
    <3>2. QED BY <1>1, <1>7, <1>8, <2>1, <3>1
  <2>2. CASE /\ Close("recv")
             /\ \E k \in 0..Len(toRecv) : toRecv' = SubSeq(toRecv, 1, k)
    <3>1. PICK k \in 0..Len(toRecv) : toRecv' = SubSeq(toRecv, 1, k)
      BY <2>2
    <3>2. QueueOK(toRecv', receiver')
      BY <1>7, <3>1, QueuePrefix
    <3>3. /\ sock' \in [Sides -> SockStates] /\ sock'["send"] = sock["send"]
          /\ sock'["recv"] = "closed"
      BY <1>1, <2>2 DEF Close, Sides, SockStates
    <3>4. ~Linked'
      BY <3>3 DEF Linked
    <3>5. QED BY <3>2, <3>3, <3>4
  <2>3. QED BY <2>1, <2>2
<1>10. toSend' \in Seq(Message) /\ (Early => toSend' = <<>>)
  BY AnswersOK
<1>11. QED BY <1>4, <1>9, <1>10, ReceiverStepOK

\* Once the sender is past its handshake there is nothing left to show.
LEMMA PastHandshake ==
    ASSUME SessionInv, UNCHANGED sender,
           receiver.asking \/ receiver.status \in {"Transferring", "Paused"}
    PROVE  HandshakeFirst'
<1>1. sender.status \notin Opening
  BY DEF SessionInv, HandshakeFirst
<1>2. QED BY <1>1 DEF HandshakeFirst

LEMMA DialogKeeps ==
    ASSUME SessionInv, UserAccepts \/ UserRejects PROVE SessionInv'
<1>1. /\ receiver.asking /\ receiver \in Receiver /\ pauses \in Nat
      /\ UNCHANGED <<sender, cut, disk, pauses>>
  BY ReceiverKnows DEF UserAccepts, UserRejects
<1>2. HandshakeFirst'
  BY <1>1, PastHandshake
<1>3. CASE UserAccepts
  <2>1. AcceptTransfer(receiver) /\ UNCHANGED <<toRecv, sock>>
    BY <1>3 DEF UserAccepts
  <2>2. QED BY <1>1, <1>2, <2>1, AcceptFacts, ReceiverUserOK DEF WriterLeft
<1>4. CASE UserRejects
  <2> DEFINE m == Signal("TransferReject")
  <2>1. /\ WithStatus(receiver, "Cancelled") \in Receiver
        /\ WithStatus(receiver, "Cancelled").writer = receiver.writer
        /\ WithStatus(receiver, "Cancelled").recvIndex = receiver.recvIndex
    BY <1>1, WithStatusReceiver DEF Statuses
  <2>2. /\ receiver' = [WithStatus(receiver, "Cancelled") EXCEPT !.asking = FALSE]
        /\ SendToSender(<<m>>) /\ Close("recv")
        /\ \E k \in 0..Len(toRecv) : toRecv' = SubSeq(toRecv, 1, k)
    BY <1>4 DEF UserRejects
  <2>3. /\ receiver' \in Receiver /\ receiver'.writer = receiver.writer
        /\ receiver'.recvIndex = receiver.recvIndex
    BY <2>1, <2>2 DEF Receiver
  <2>4. m \in Message
    BY DEF Signal, Message, Signals
  <2>5. Answers
    BY <2>2, <2>4 DEF Answers
  <2>6. QED BY <1>1, <1>2, <2>2, <2>3, <2>5, ReceiverUserOK DEF WriterLeft
<1>5. QED BY <1>3, <1>4

LEMMA PauseReceiverKeeps ==
    ASSUME SessionInv, PauseReceiver \/ ResumeReceiver PROVE SessionInv'
<1>1. /\ receiver \in Receiver /\ pauses \in Nat
      /\ receiver.status \in {"Transferring", "Paused"}
      /\ UNCHANGED <<sender, toRecv, sock, cut, disk>>
  BY ReceiverKnows DEF PauseReceiver, ResumeReceiver
<1>2. HandshakeFirst'
  BY <1>1, PastHandshake
<1>3. ASSUME NEW st \in {"Transferring", "Paused"}
      PROVE  /\ WithStatus(receiver, st) \in Receiver
             /\ WithStatus(receiver, st).writer = receiver.writer
             /\ WithStatus(receiver, st).recvIndex = receiver.recvIndex
  BY <1>1, WithStatusReceiver DEF Statuses
<1>4. CASE PauseReceiver
  <2>1. Signal("TransferPause") \in Message
    BY DEF Signal, Message, Signals
  <2>2. Answers /\ receiver' = WithStatus(receiver, "Paused") /\ pauses' = pauses + 1
    BY <1>4, <2>1 DEF PauseReceiver, Answers
  <2>3. QED BY <1>1, <1>2, <1>3, <2>2, ReceiverUserOK DEF WriterLeft
<1>5. CASE ResumeReceiver
  <2>1. TransferResume(1, receiver.fileGot) \in Message
    BY <1>1, SizesAssumption DEF TransferResume, Message, Receiver, Files
  <2>2. Answers /\ receiver' = WithStatus(receiver, "Transferring") /\ pauses' = pauses
    BY <1>5, <2>1 DEF ResumeReceiver, Answers
  <2>3. QED BY <1>1, <1>2, <1>3, <2>2, ReceiverUserOK DEF WriterLeft
<1>6. QED BY <1>4, <1>5

LEMMA CancelReceiverKeeps ==
    ASSUME SessionInv, CancelReceiver PROVE SessionInv'
<1> DEFINE m == Signal("TransferCancel")
<1>1. /\ receiver \in Receiver /\ toSend \in Seq(Message) /\ toRecv \in Seq(Message)
      /\ pauses' \in Nat /\ ~receiver.asking
      /\ UNCHANGED <<sender, cut>> /\ Close("recv")
      /\ disk' \in Closed(disk, receiver.writer)
      /\ toRecv' = <<>> /\ SendToSender(<<m>>)
  BY ReceiverKnows DEF CancelReceiver, AtUser
<1>2. CloseWriter(receiver.writer) \in Writer
  BY <1>1, CloseWriterFacts DEF Receiver
<1>3. /\ WithStatus(receiver, "Cancelled") \in Receiver
      /\ WithStatus(receiver, "Cancelled").status = "Cancelled"
      /\ WithStatus(receiver, "Cancelled").writer = receiver.writer
      /\ WithStatus(receiver, "Cancelled").recvIndex = receiver.recvIndex
      /\ WithStatus(receiver, "Cancelled").asking = receiver.asking
  BY <1>1, WithStatusReceiver DEF Statuses
<1>4. receiver' = [WithStatus(receiver, "Cancelled") EXCEPT !.writer = CloseWriter(@)]
  BY DEF CancelReceiver
<1>5. /\ receiver' \in Receiver /\ receiver'.writer = CloseWriter(receiver.writer)
      /\ receiver'.recvIndex = receiver.recvIndex
      /\ receiver'.status = "Cancelled" /\ ~receiver'.asking
  BY <1>1, <1>2, <1>3, <1>4 DEF Receiver
<1>6. m \in Message /\ m.type = "TransferCancel"
  BY DEF Signal, Message, Signals
<1>7. Answers
  BY <1>1, <1>6 DEF Answers
<1>8. \E k \in 0..Len(toRecv) : toRecv' = SubSeq(toRecv, 1, k)
  <2>1. 0 \in 0..Len(toRecv) /\ SubSeq(toRecv, 1, 0) = <<>>
    BY <1>1
  <2>2. QED BY <1>1, <2>1
<1>9. HandshakeFirst'
  <2>1. SUFFICES ASSUME sender.status \in Opening, NEW k \in 1..Len(toSend')
                 PROVE  toSend'[k].type \in {"HandshakeResp", "TransferCancel"}
    BY <1>1, <1>5 DEF HandshakeFirst
  <2>2. \A j \in 1..Len(toSend) :
              toSend[j].type \in {"HandshakeResp", "TransferCancel"}
    BY <2>1 DEF SessionInv, HandshakeFirst
  <2>3. toSend' = toSend \/ toSend' = Append(toSend, m)
    BY <1>1, <1>6, ConcatOne DEF SendToSender
  <2>4. /\ Len(Append(toSend, m)) = Len(toSend) + 1 /\ Len(toSend) \in Nat
        /\ \A p \in 1..Len(toSend) : Append(toSend, m)[p] = toSend[p]
        /\ Append(toSend, m)[Len(toSend) + 1] = m
    BY <1>1, <1>6, AppendFacts
  <2>5. CASE toSend' = toSend
    BY <2>2, <2>5
  <2>6. CASE toSend' = Append(toSend, m) /\ k = Len(toSend) + 1
    BY <1>6, <2>4, <2>6
  <2>7. CASE toSend' = Append(toSend, m) /\ k # Len(toSend) + 1
    <3>1. k \in 1..Len(toSend) /\ toSend'[k] = toSend[k]
      BY <2>1, <2>4, <2>7
    <3>2. QED BY <2>2, <3>1
  <2>8. QED BY <2>3, <2>5, <2>6, <2>7
<1>10. QED BY <1>1, <1>5, <1>7, <1>8, <1>9, ReceiverUserOK DEF WriterLeft

LEMMA ReceiverLosesSocketKeeps ==
    ASSUME SessionInv, ReceiverLosesSocket PROVE SessionInv'
<1>1. /\ receiver \in Receiver /\ toSend \in Seq(Message) /\ toRecv \in Seq(Message)
      /\ pauses' \in Nat /\ UNCHANGED <<sender, toSend, cut, disk>> /\ Close("recv")
  BY ReceiverKnows DEF ReceiverLosesSocket
<1>2. \E k \in 0..Len(toRecv) : toRecv' = SubSeq(toRecv, 1, k)
  <2>1. CASE receiver.asking
    BY <2>1 DEF ReceiverLosesSocket
  <2>2. CASE ~receiver.asking
    <3>1. toRecv = <<>> /\ toRecv' = toRecv
      BY <2>2 DEF ReceiverLosesSocket
    <3>2. 0 \in 0..Len(toRecv) /\ SubSeq(toRecv, 1, 0) = <<>>
      BY <1>1
    <3>3. QED BY <3>1, <3>2
  <2>3. QED BY <2>1, <2>2
<1>3. /\ receiver' \in Receiver /\ receiver'.writer = receiver.writer
      /\ receiver'.recvIndex = receiver.recvIndex
      /\ receiver'.asking = receiver.asking
      /\ receiver.status # "Transferring" => receiver' = receiver
  BY <1>1, WithStatusReceiver DEF ReceiverLosesSocket, LossFails, Statuses
<1>4. Answers
  BY <1>1 DEF Answers
<1>5. HandshakeFirst'
  <2>1. SUFFICES ASSUME sender.status \in Opening
                 PROVE  /\ \A k \in 1..Len(toRecv') : toRecv'[k].type = "HandshakeReq"
                        /\ receiver'.status \in
                              {"Idle", "Handshaking", "Offering", "Cancelled"}
                        /\ ~receiver'.asking
                        /\ \A k \in 1..Len(toSend) :
                              toSend[k].type \in {"HandshakeResp", "TransferCancel"}
    BY <1>1 DEF HandshakeFirst
  <2>2. /\ \A k \in 1..Len(toRecv) : toRecv[k].type = "HandshakeReq"
        /\ \A k \in 1..Len(toSend) :
              toSend[k].type \in {"HandshakeResp", "TransferCancel"}
        /\ receiver.status \in {"Idle", "Handshaking", "Offering", "Cancelled"}
        /\ ~receiver.asking
    BY <2>1 DEF SessionInv, HandshakeFirst
  <2>3. receiver' = receiver
    BY <1>3, <2>2
  <2>4. PICK k \in 0..Len(toRecv) : toRecv' = SubSeq(toRecv, 1, k)
    BY <1>2
  <2>5. Len(toRecv') = k /\ \A p \in 1..k : toRecv'[p] = toRecv[p]
    BY <1>1, <2>4, PrefixFacts
  <2>6. 1..k \subseteq 1..Len(toRecv)
    BY <1>1, <2>4
  <2>7. QED BY <2>2, <2>3, <2>5, <2>6
<1>6. QED BY <1>1, <1>2, <1>3, <1>4, <1>5, ReceiverUserOK DEF WriterLeft

LEMMA NewReceiverFacts ==
    /\ NewReceiver \in Receiver /\ NewReceiver.writer = NoWriter
    /\ NewReceiver.status = "Idle" /\ ~NewReceiver.asking
    /\ NoWriter \in Writer /\ ~NoWriter.open /\ ~NoWriter.has
    /\ NoWriter.hashed = <<>> /\ NoWriter.partial = NoName
<1>1. 1 \in Files
  BY SizesAssumption DEF Files
<1>2. /\ NoWriter \in Writer /\ ~NoWriter.open /\ ~NoWriter.has
      /\ NoWriter.hashed = <<>> /\ NoWriter.partial = NoName
  BY DEF NoWriter, Writer
<1>3. QED BY <1>1, <1>2 DEF NewReceiver, Receiver, Statuses

\* Which names are taken, and so where a file goes, does not depend on contents.
LEMMA ClosingTargets ==
    ASSUME NEW d, DiskType(d), HoldsCopies(d), NEW i \in Files, NEW w \in Writer,
           WriterOK(w, i, d), NEW e \in Closed(d, w), NEW j, NEW policy
    PROVE  Targets(e, j, policy) = Targets(d, j, policy)
<1>1. e.final = d.final /\ DOMAIN e.partial = DOMAIN d.partial
  BY ClosingRenames
<1>2. /\ \A n : Exists(e, n) = Exists(d, n)
      /\ \A n : PartialExists(e, n) = PartialExists(d, n)
  BY <1>1 DEF Exists, PartialExists
<1>3. UniqueNames(e, RelPath[j]) = UniqueNames(d, RelPath[j])
  BY <1>2 DEF UniqueNames
<1>4. QED BY <1>2, <1>3 DEF Targets

\* What a handler that is cut short leaves on the disk is in order as well.
LEMMA DiskInsideOK ==
    ASSUME NoTrailingHole, SessionInv, toRecv # <<>>,
           NEW e \in DiskInside(Head(toRecv))
    PROVE  DiskType(e) /\ HoldsCopies(e)
<1> DEFINE m == Head(toRecv)
           w == receiver.writer
           i == receiver.recvIndex
<1>1. /\ receiver \in Receiver /\ toRecv \in Seq(Message) /\ QueueOK(toRecv, receiver)
      /\ DiskType(disk) /\ HoldsCopies(disk) /\ WriterOK(w, i, disk)
  BY ReceiverKnows
<1>2. w \in Writer /\ i \in Files
  BY <1>1 DEF Receiver
<1>3. m = toRecv[1] /\ m \in Message /\ HonestPacket(m)
  BY <1>1 DEF QueueOK, PayloadOK
<1>4. (w.has /\ IsData(m)) => m.index = i
  BY <1>1, HeadIsOwned
<1>6. CASE m.type = "FileStart"
  <2>1. PICK d \in Closed(disk, w), t \in Targets(disk, m.index, Policy),
             c \in Preallocations(m.index) :
               e \in {Cleared(d, t), OpenedDisk(d, t, c)}
    <3>1. 0 \in {0} \cup {n \in {ManifestSize[m.index]} : PreallocExtends}
      OBVIOUS
    <3>2. [k \in 1..0 |-> Hole] \in Preallocations(m.index)
      BY <3>1 DEF Preallocations
    <3>3. QED BY <1>6, <3>2 DEF DiskInside
  <2>2. m.index \in Files
    BY <1>3, <1>6 DEF Message, Signals
  <2>3. DiskType(d) /\ HoldsCopies(d)
    BY <1>1, <1>2, ClosingFacts
  <2>4. DiskType(Cleared(d, t)) /\ HoldsCopies(Cleared(d, t))
    BY <2>3, ClearedFacts
  <2>5. t \in Targets(d, m.index, Policy)
    BY <1>1, <1>2, ClosingTargets
  <2>6. DiskType(OpenedDisk(d, t, c)) /\ HoldsCopies(OpenedDisk(d, t, c))
    BY <2>2, <2>3, <2>5, OpenedFacts
  <2>7. QED BY <2>1, <2>4, <2>6
<1>7. CASE m.type = "FileDataChunk"
  <2>1. w.has /\ w.open /\ e = WriteToDisk(disk, w, m.offset, m.data)
    BY <1>7 DEF DiskInside
  <2>2. /\ m.index = i /\ m.offset \in Nat /\ m.data = <<i, m.offset + 1>>
        /\ m.offset < SourceSize[i]
    BY <1>3, <1>4, <1>7, <2>1 DEF Message, Signals, HonestPacket, IsData
  <2>3. QED BY <1>1, <1>2, <2>1, <2>2, WriteFacts
<1>8. CASE m.type = "FileEnd"
  <2>1. PICK d \in Closed(disk, w) :
           /\ w.has /\ Verified(w, m.hash) /\ Renamable(disk, w)
           /\ e \in {HalfCommitted(d, w), Committed(d, w)}
    BY <1>8 DEF DiskInside
  <2>2. m.index = i /\ m.hash = Source(i)
    BY <1>3, <1>4, <1>8, <2>1 DEF HonestPacket, IsData
  <2>3. DiskType(d) /\ HoldsCopies(d) /\ WriterOK(CloseWriter(w), i, d) /\ Renamable(d, w)
    BY <1>1, <1>2, <2>1, ClosingFacts, ClosingRenames
  <2>4. DiskType(HalfCommitted(d, w)) /\ HoldsCopies(HalfCommitted(d, w))
    BY <1>2, <2>3, HalfCommitFacts
  <2>5. DiskType(Committed(d, w)) /\ HoldsCopies(Committed(d, w))
    BY <1>2, <2>1, <2>2, <2>3, CommitFacts
  <2>6. QED BY <2>1, <2>4, <2>5
<1>9. m.type \in {"FileStart", "FileDataChunk", "FileEnd"}
  BY DEF DiskInside
<1>10. QED BY <1>6, <1>7, <1>8, <1>9

LEMMA ReceiverCrashesKeeps ==
    ASSUME NoTrailingHole, SessionInv, ReceiverCrashes PROVE SessionInv'
<1>1. /\ receiver \in Receiver /\ toSend \in Seq(Message) /\ pauses \in Nat
      /\ sock \in [Sides -> SockStates] /\ DiskType(disk) /\ HoldsCopies(disk)
      /\ Early => toSend = <<>>
  BY ReceiverKnows
<1>2. /\ receiver' = NewReceiver /\ toRecv' = <<>> /\ Close("recv")
      /\ UNCHANGED <<sender, cut, pauses>>
  BY DEF ReceiverCrashes
<1>3. PICK k \in 0..Len(toSend) : toSend' = SubSeq(toSend, 1, k)
  BY DEF ReceiverCrashes
<1>4. /\ toSend' \in Seq(Message) /\ Len(toSend') = k
      /\ \A p \in 1..k : toSend'[p] = toSend[p]
  BY <1>1, <1>3, PrefixFacts
<1>5. Early => toSend' = <<>>
  BY <1>1, <1>3, <1>4
<1>6. DiskType(disk') /\ HoldsCopies(disk')
  <2>1. CASE UNCHANGED disk
    BY <1>1, <2>1
  <2>2. CASE disk' \in Unflushed(disk, receiver.writer)
    <3>1. /\ receiver.writer \in Writer /\ receiver.recvIndex \in Files
          /\ WriterOK(receiver.writer, receiver.recvIndex, disk)
      BY ReceiverKnows DEF Receiver
    <3>2. QED BY <1>1, <2>2, <3>1, UnflushedFacts
  <2>3. CASE toRecv # <<>> /\ disk' \in DiskInside(Head(toRecv))
    BY <2>3, DiskInsideOK
  <2>4. QED BY <2>1, <2>2, <2>3 DEF ReceiverCrashes
<1>7. /\ receiver' \in Receiver /\ receiver'.writer = NoWriter
      /\ receiver'.status = "Idle" /\ ~receiver'.asking
  BY <1>2, NewReceiverFacts
<1>8. sock' \in [Sides -> SockStates] /\ sock'["send"] = sock["send"] /\ sock'["recv"] = "closed"
  BY <1>1, <1>2 DEF Close, Sides, SockStates
<1>9. ~Linked'
  BY <1>8 DEF Linked
<1>10. QueueOK(toRecv', receiver')
  BY <1>2, QueueEmpty
<1>11. WriterOK(receiver'.writer, receiver'.recvIndex, disk')
  BY <1>6, <1>7, NewReceiverFacts, NoNameIsNoFile DEF WriterOK, DiskType, IsStore
<1>12. HandshakeFirst'
  <2>1. SUFFICES ASSUME sender.status \in Opening
                 PROVE  \A p \in 1..Len(toSend') :
                           toSend'[p].type \in {"HandshakeResp", "TransferCancel"}
    BY <1>2, <1>7 DEF HandshakeFirst
  <2>2. \A p \in 1..Len(toSend) : toSend[p].type \in {"HandshakeResp", "TransferCancel"}
    BY <2>1 DEF SessionInv, HandshakeFirst
  <2>3. 1..k \subseteq 1..Len(toSend)
    BY <1>1, <1>3
  <2>4. QED BY <1>4, <2>2, <2>3
<1>13. QED BY <1>1, <1>2, <1>4, <1>5, <1>6, <1>7, <1>8, <1>9, <1>10, <1>11, <1>12,
              ReceiverStepOK

-----------------------------------------------------------------------------
(* The invariant.                                                          *)

LEMMA InitKeeps == ASSUME Init PROVE SessionInv
<1>1. 1 \in Files
  BY SizesAssumption DEF Files
<1>2. NoReader \in Reader /\ ~NoReader.open
  BY <1>1 DEF NoReader, Reader
<1>3. /\ NoWriter \in Writer /\ ~NoWriter.open /\ ~NoWriter.has
      /\ NoWriter.hashed = <<>> /\ NoWriter.partial = NoName
  BY NewReceiverFacts
<1>4. /\ sender \in Sender /\ sender.status = "Idle" /\ sender.reader = NoReader
  BY <1>1, <1>2 DEF Init, Sender, Statuses
<1>5. /\ receiver \in Receiver /\ receiver.writer = NoWriter
      /\ receiver.status = "Idle" /\ ~receiver.asking
  BY NewReceiverFacts DEF Init
<1>6. /\ DiskType(disk) /\ HoldsCopies(disk) /\ DOMAIN disk.partial = {}
  <2>1. /\ disk = [final |-> disk.final, partial |-> disk.partial]
        /\ disk.final = [n \in {} |-> <<>>] /\ disk.partial = [n \in {} |-> <<>>]
    BY DEF Init, EmptyDisk
  <2>2. QED BY <2>1 DEF DiskType, IsStore, HoldsCopies
<1>7. /\ toRecv = <<>> /\ toSend = <<>> /\ sock = [p \in Sides |-> "none"]
      /\ cut = FALSE /\ pauses = 0
  BY DEF Init
<1>8. TypeOK
  <2>1. toRecv \in Seq(Message) /\ toSend \in Seq(Message)
    BY <1>7
  <2>2. sock \in [Sides -> SockStates]
    BY <1>7 DEF SockStates
  <2>3. cut \in BOOLEAN /\ pauses \in Nat
    BY <1>7
  <2>4. QED BY <1>4, <1>5, <1>6, <2>1, <2>2, <2>3 DEF TypeOK, DiskType
<1>9. sock["send"] = "none"
  BY <1>7 DEF Sides
<1>10. EarlyOK /\ HandshakeFirst
  BY <1>2, <1>4, <1>5, <1>7, <1>9 DEF EarlyOK, Early, HandshakeFirst
<1>11. ReaderOK(sender)
  BY <1>2, <1>4 DEF ReaderOK, ReadsCurrent, MustRead, Opening
<1>12. StreamOK(toRecv, receiver) /\ PayloadOK(toRecv)
  BY <1>7 DEF StreamOK, PayloadOK
<1>13. ~Linked
  BY <1>9 DEF Linked
<1>14. WriterOK(receiver.writer, receiver.recvIndex, disk)
  BY <1>3, <1>5, <1>6 DEF WriterOK
<1>15. QED BY <1>6, <1>8, <1>10, <1>11, <1>12, <1>13, <1>14 DEF SessionInv

LEMMA StutterKeeps == ASSUME SessionInv, UNCHANGED vars PROVE SessionInv'
<1>1. UNCHANGED <<sender, receiver, toRecv, toSend, sock, cut, disk, pauses>>
  BY DEF vars
<1>2. TypeOK' /\ EarlyOK' /\ HandshakeFirst'
  BY <1>1 DEF SessionInv, TypeOK, EarlyOK, Early, HandshakeFirst
<1>3. (Linked => AnnouncedOK(toRecv, sender, receiver))'
  BY <1>1 DEF SessionInv, Linked
<1>4. QED BY <1>1, <1>2, <1>3 DEF SessionInv

LEMMA NextKeeps ==
    ASSUME NoTrailingHole, ByButton = TRUE, SessionInv, [Next]_vars
    PROVE  SessionInv'
<1>1. CASE SenderStep
  BY <1>1, SenderStepKeeps
<1>2. CASE ChunkLoop
  BY <1>2, ChunkLoopKeeps
<1>3. CASE ReceiverStep
  BY <1>3, ReceiverStepKeeps
<1>4. CASE UserStep
  BY <1>4, StartSendKeeps, DialogKeeps, PauseSenderKeeps, PauseReceiverKeeps,
     ResumeSenderKeeps, CancelSenderKeeps, CancelReceiverKeeps DEF UserStep
<1>5. CASE NetworkStep
  BY <1>5, SocketConnectedKeeps, ConnectFailsKeeps, CableCutKeeps,
     SenderLosesSocketKeeps, ReceiverLosesSocketKeeps, ReceiverCrashesKeeps DEF NetworkStep
<1>6. CASE UNCHANGED vars
  BY <1>6, StutterKeeps
<1>7. QED BY <1>1, <1>2, <1>3, <1>4, <1>5, <1>6 DEF Next

\* The inductive invariant holds in every behaviour in which pauses end by the
\* button and no source file shrinks under an extending pre-allocation:
\* TransferSession.cpp's packet handlers together keep the stream, the reader
\* and the .partial file in step.
THEOREM SessionInvHolds ==
    ASSUME NoTrailingHole, ByButton = TRUE
    PROVE  Spec => []SessionInv
<1>1. Init => SessionInv
  BY InitKeeps
<1>2. SessionInv /\ [Next]_vars => SessionInv'
  BY NextKeeps
<1>3. QED BY <1>1, <1>2, PTL DEF Spec

\* Every variable keeps its type, whatever the two machines, the users, the
\* network and the disks do.
THEOREM TypesHold ==
    ASSUME NoTrailingHole, ByButton = TRUE
    PROVE  Spec => []TypeOK
<1>1. SessionInv => TypeOK
  BY DEF SessionInv
<1>2. QED BY <1>1, SessionInvHolds, PTL

\* What stands under a final name is the source file of that path, but for a
\* small last block that a failed flush() or close() has lost
\* (FileWriter.cpp:152-179): of each fault, this is all that reaches a final name.
THEOREM CommitsAreCopies ==
    ASSUME NoTrailingHole, ByButton = TRUE
    PROVE  Spec => []CommittedButTail
<1>1. SessionInv => CommittedButTail
  BY DEF SessionInv, HoldsCopies, CommittedButTail
<1>2. QED BY <1>1, SessionInvHolds, PTL

LEMMA TailsMakeCopiesExact ==
    ASSUME TailsReachDisk, NEW i PROVE Copies(i) = {Source(i)}
BY DEF TailsReachDisk, Copies

\* As long as flush() and close() succeed it is the source file, block for block:
\* the digest is not the only thing finalizeAndCommit relies on, the blocks are
\* where they belong.
THEOREM CommitsAreExact ==
    ASSUME NoTrailingHole, TailsReachDisk, ByButton = TRUE
    PROVE  Spec => []CommittedExact
<1>1. CommittedButTail => CommittedExact
  BY TailsMakeCopiesExact DEF CommittedButTail, CommittedExact
<1>2. QED BY <1>1, CommitsAreCopies, PTL
=============================================================================
