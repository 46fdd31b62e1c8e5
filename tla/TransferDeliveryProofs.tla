----------------------- MODULE TransferDeliveryProofs -----------------------
(***************************************************************************)
(* Proofs about what a transfer delivers, for every manifest, window and   *)
(* set of faults: that it implements Publication, that nothing delivered   *)
(* is touched again, that a good acknowledgement is for the file the       *)
(* sender waits for, that "Completed" means that every file is there, and  *)
(* that the transfer implements Delivery.                                  *)
(***************************************************************************)
EXTENDS TransferRefinement, TransferStepProofs

-----------------------------------------------------------------------------
(* Publication: every step of the two sessions, a crash in the middle of a *)
(* handler included, is a publication, a removal or nothing to who watches *)
(* the receiver's folder.                                                  *)

\* What a step may do to the committed files.
Dropped == \E gone : disk'.final = Drop(disk.final, gone)
Added == \E t, c : disk'.final = Put(disk.final, t, c)
FinalStep == UNCHANGED disk.final \/ Dropped \/ Added

\* What the steps of a writer do to the committed files.
LEMMA ClearedFinal ==
    ASSUME NEW d, NEW t, NEW e, e = Cleared(d, t) \/ \E c : e = OpenedDisk(d, t, c)
    PROVE  \E gone : gone = {t} \cup FinalsAt(t) /\ e.final = Drop(d.final, gone)
<1> DEFINE gone == {t} \cup FinalsAt(t)
<1>1. Cleared(d, t).final = Drop(d.final, gone)
  BY DEF Cleared
<1>2. \A c : OpenedDisk(d, t, c).final = Cleared(d, t).final
  BY DEF OpenedDisk, Cleared
<1>3. gone = {t} \cup FinalsAt(t)
  OBVIOUS
<1> HIDE DEF gone
<1>4. e.final = Drop(d.final, gone)
  BY <1>1, <1>2
<1>5. QED BY <1>3, <1>4

LEMMA HalfCommittedFinal ==
    ASSUME NEW d, NEW w, NEW e, e = HalfCommitted(d, w)
    PROVE  \E gone : gone = {w.target} /\ e.final = Drop(d.final, gone)
<1> DEFINE gone == {w.target}
<1>1. HalfCommitted(d, w).final = Drop(d.final, gone) /\ gone = {w.target}
  BY DEF HalfCommitted
<1> HIDE DEF gone
<1>2. QED BY <1>1

LEMMA CommittedFinal ==
    ASSUME NEW d, NEW w
    PROVE  Committed(d, w).final = Put(d.final, w.target, d.partial[w.partial])
BY DEF Committed

LEMMA WriteKeepsFinal ==
    ASSUME NEW d, DiskType(d), NEW w, NEW off, NEW blk
    PROVE  WriteToDisk(d, w, off, blk).final = d.final
BY DEF WriteToDisk, DiskType

\* A lost buffer is one of a .partial file.
LEMMA LossKeepsFinal ==
    ASSUME NEW d, DiskType(d), NEW w, NEW e, e \in Closed(d, w) \/ e \in Unflushed(d, w)
    PROVE  e.final = d.final
BY DEF DiskType, Closed, Unflushed

LEMMA FileStartFinal ==
    ASSUME DiskType(disk), OnFileStart PROVE FinalStep
<1> DEFINE i == Head(toRecv).index
<1>1. PICK d \in Closed(disk, receiver.writer) :
         \/ disk' = d
         \/ \E t : disk' = Cleared(d, t) \/ \E c : disk' = OpenedDisk(d, t, c)
  BY DEF OnFileStart, OpenFails
<1>2. d.final = disk.final
  BY LossKeepsFinal
<1>3. CASE \E t : disk' = Cleared(d, t) \/ \E c : disk' = OpenedDisk(d, t, c)
  BY <1>2, <1>3, ClearedFinal DEF FinalStep, Dropped
<1>4. QED BY <1>1, <1>2, <1>3 DEF FinalStep

LEMMA FileDataChunkFinal ==
    ASSUME DiskType(disk), OnFileDataChunk PROVE FinalStep
<1> DEFINE m == Head(toRecv)
<1>1. UNCHANGED disk \/ disk' = WriteToDisk(disk, receiver.writer, m.offset, m.data)
  BY DEF OnFileDataChunk
<1>2. QED BY <1>1, WriteKeepsFinal DEF FinalStep

LEMMA FileEndFinal ==
    ASSUME DiskType(disk), OnFileEnd PROVE FinalStep
<1> DEFINE w == receiver.writer
<1>1. \/ UNCHANGED disk
      \/ \E d \in Closed(disk, w) : disk' \in {d, Committed(d, w), HalfCommitted(d, w)}
  BY DEF OnFileEnd
<1>2. CASE UNCHANGED disk
  BY <1>2 DEF FinalStep
<1>3. CASE \E d \in Closed(disk, w) : disk' \in {d, Committed(d, w), HalfCommitted(d, w)}
  <2>1. PICK d \in Closed(disk, w) : disk' \in {d, Committed(d, w), HalfCommitted(d, w)}
    BY <1>3
  <2>2. d.final = disk.final
    BY LossKeepsFinal
  <2>3. QED BY <2>1, <2>2, HalfCommittedFinal, CommittedFinal DEF FinalStep, Dropped, Added
<1>4. QED BY <1>1, <1>2, <1>3

LEMMA CrashFinal ==
    ASSUME DiskType(disk), ReceiverCrashes PROVE FinalStep
<1> DEFINE m == Head(toRecv)
           w == receiver.writer
<1>1. CASE disk' \in {disk} \cup Unflushed(disk, w)
  BY <1>1, LossKeepsFinal DEF FinalStep
<1>2. CASE disk' \in DiskInside(m)
  <2>1. CASE m.type = "FileStart"
    <3>1. PICK d \in Closed(disk, w) :
             \E t : disk' = Cleared(d, t) \/ \E c : disk' = OpenedDisk(d, t, c)
      BY <1>2, <2>1 DEF DiskInside
    <3>2. d.final = disk.final
      BY LossKeepsFinal
    <3>3. QED BY <3>1, <3>2, ClearedFinal DEF FinalStep, Dropped
  <2>2. CASE m.type = "FileDataChunk"
    <3>1. disk' = WriteToDisk(disk, w, m.offset, m.data)
      BY <1>2, <2>2 DEF DiskInside
    <3>2. QED BY <3>1, WriteKeepsFinal DEF FinalStep
  <2>3. CASE m.type = "FileEnd"
    <3>1. PICK d \in Closed(disk, w) : disk' \in {HalfCommitted(d, w), Committed(d, w)}
      BY <1>2, <2>3 DEF DiskInside
    <3>2. d.final = disk.final
      BY LossKeepsFinal
    <3>3. QED BY <3>1, <3>2, HalfCommittedFinal, CommittedFinal DEF FinalStep, Dropped, Added
  <2>4. m.type \in {"FileStart", "FileDataChunk", "FileEnd"}
    BY <1>2 DEF DiskInside
  <2>5. QED BY <2>1, <2>2, <2>3, <2>4
<1>3. QED BY <1>1, <1>2 DEF ReceiverCrashes

LEMMA NextFinal ==
    ASSUME DiskType(disk), [Next]_vars PROVE FinalStep
<1>1. CASE SenderStep
  BY <1>1 DEF SenderStep, OnHandshakeResp, OnTransferAccept, OnTransferReject, OnFileAck,
     OnSenderPause, OnSenderResume, OnSenderCancel, SenderHandles, FinalStep
<1>2. CASE ChunkLoop \/ UNCHANGED vars
  BY <1>2 DEF ChunkLoop, vars, FinalStep
<1>3. CASE ReceiverStep
  <2>1. CASE OnFileStart \/ OnFileDataChunk \/ OnFileEnd
    BY <2>1, FileStartFinal, FileDataChunkFinal, FileEndFinal
  <2>2. CASE OnReceiverCancel
    BY <2>2, LossKeepsFinal DEF OnReceiverCancel, FinalStep
  <2>3. CASE OnHandshakeReq \/ OnTransferOffer \/ OnReceiverPause \/ OnReceiverResume
             \/ OnTransferComplete
    BY <2>3 DEF OnHandshakeReq, OnTransferOffer, OnReceiverPause, OnReceiverResume,
       OnTransferComplete, FinalStep
  <2>4. QED BY <1>3, <2>1, <2>2, <2>3 DEF ReceiverStep
<1>4. CASE UserStep
  <2>1. CASE CancelReceiver
    BY <2>1, LossKeepsFinal DEF CancelReceiver, FinalStep
  <2>2. CASE ~CancelReceiver
    BY <1>4, <2>2 DEF UserStep, StartSend, UserAccepts, UserRejects, PauseSender,
       PauseReceiver, ResumeSender, ResumeReceiver, CancelSender, FinalStep
  <2>3. QED BY <2>1, <2>2
<1>5. CASE NetworkStep
  <2>1. CASE ReceiverCrashes
    BY <2>1, CrashFinal
  <2>2. CASE ~ReceiverCrashes
    BY <1>5, <2>2 DEF NetworkStep, SocketConnected, ConnectFails, CableCut,
       SenderLosesSocket, ReceiverLosesSocket, FinalStep
  <2>3. QED BY <2>1, <2>2
<1>6. QED BY <1>1, <1>2, <1>3, <1>4, <1>5 DEF Next

\* The steps on the committed files are those of Publication: whatever is
\* added is a copy, for the disk holds copies only afterwards.
LEMMA FinalStepPublishes ==
    ASSUME DiskType(disk), DiskType(disk'), HoldsCopies(disk'), FinalStep
    PROVE  [PublicationOf!Next]_(disk.final)
<1>1. IsStore(disk.final) /\ IsStore(disk'.final)
  BY DEF DiskType
<1>2. CASE UNCHANGED disk.final
  BY <1>2
<1>3. CASE Dropped
  <2>1. PICK gone : disk'.final = Drop(disk.final, gone)
    BY <1>3 DEF Dropped
  <2> DEFINE S == gone \cap DOMAIN disk.final
  <2>2. DOMAIN disk.final \ gone = DOMAIN disk.final \ S
    OBVIOUS
  <2>3. S \in SUBSET DOMAIN disk.final
    OBVIOUS
  <2>4. disk'.final = [m \in DOMAIN disk.final \ S |-> disk.final[m]]
    BY <2>1, <2>2 DEF Drop
  <2> HIDE DEF S
  <2>5. PublicationOf!Remove(S)
    BY <2>4 DEF PublicationOf!Remove
  <2>6. QED BY <2>3, <2>5 DEF PublicationOf!Next
<1>4. CASE Added
  <2>1. PICK t, c : disk'.final = Put(disk.final, t, c)
    BY <1>4 DEF Added
  <2>2. t \in DOMAIN disk'.final /\ disk'.final[t] = c
    BY <2>1 DEF Put
  <2>3. t \in Name
    BY <1>1, <2>2 DEF IsStore
  <2>4. PICK i \in Files : t[1] = RelPath[i] /\ disk'.final[t] \in Copies(i)
    BY <2>2 DEF HoldsCopies
  <2>5. <<t, i>> \in NamesOf
    BY <2>3, <2>4 DEF NamesOf
  <2>6. c \in [k \in Files |-> Copies(k)][i]
    BY <2>2, <2>4
  <2>7. PublicationOf!Publish(i, t)
    BY <2>1, <2>5, <2>6 DEF Put, PublicationOf!Publish
  <2>8. QED BY <2>2, <2>7 DEF PublicationOf!Next
<1>5. QED BY <1>2, <1>3, <1>4 DEF FinalStep

\* Files appear under their names in one step and one at a time, each a copy of
\* its source (whole, but for a small last block that a failed flush() has lost,
\* FileWriter.cpp:152-179), whatever the two machines, the users, the network,
\* the disks and a crash do.
THEOREM PublicationHolds ==
    ASSUME NoTrailingHole, ByButton = TRUE
    PROVE  Spec => ImplementsPublication
<1>1. Init => PublicationOf!Init
  BY DEF Init, EmptyDisk, PublicationOf!Init
<1>2. ASSUME SessionInv, SessionInv', [Next]_vars
      PROVE  [PublicationOf!Next]_(disk.final)
  <2>1. DiskType(disk) /\ DiskType(disk') /\ HoldsCopies(disk')
    BY <1>2 DEF SessionInv, TypeOK, DiskType
  <2>2. QED BY <1>2, <2>1, NextFinal, FinalStepPublishes
<1>3. QED BY <1>1, <1>2, SessionInvHolds, PTL
  DEF Spec, ImplementsPublication, PublicationOf!Spec

-----------------------------------------------------------------------------
(* NeverReplaced.  Whether the target is free when the receiver gets to a  *)
(* position depends on the packets before it, the writer and the disk.     *)

\* A writer and a disk whose target is free if that of r and d is.
StaysFree(r, d, x, e) == FreeTarget(r.writer, d) => FreeTarget(x.writer, e)

LEMMA FreeAtPrefix ==
    ASSUME NEW q, NEW v, NEW p \in Nat, \A k \in 1..(p - 1) : v[k] = q[k],
           NEW r, NEW d, NEW x, NEW e, StaysFree(r, d, x, e), FreeAt(q, p, r, d)
    PROVE  FreeAt(v, p, x, e)
<1>1. CASE \E s \in 1..(p - 1) : IsStart(q[s]) /\ \A k \in (s + 1)..(p - 1) : ~IsEnd(q[k])
  <2>1. PICK s \in 1..(p - 1) : IsStart(q[s]) /\ \A k \in (s + 1)..(p - 1) : ~IsEnd(q[k])
    BY <1>1
  <2>2. (s + 1)..(p - 1) \subseteq 1..(p - 1)
    OBVIOUS
  <2>3. IsStart(v[s]) /\ \A k \in (s + 1)..(p - 1) : ~IsEnd(v[k])
    BY <2>1, <2>2
  <2>4. QED BY <2>3 DEF FreeAt
<1>2. CASE /\ \A k \in 1..(p - 1) : ~IsEnd(q[k])
           /\ FreeTarget(r.writer, d)
  BY <1>2 DEF FreeAt, StaysFree
<1>3. QED BY <1>1, <1>2 DEF FreeAt

LEMMA FreeAtAppend ==
    ASSUME NEW q \in Seq(Message), NEW m, ~IsEnd(m), NEW r, NEW d,
           IsStart(m) \/ FreeAt(q, Len(q) + 1, r, d)
    PROVE  FreeAt(Append(q, m), Len(q) + 2, r, d)
<1> DEFINE v == Append(q, m)
           n == Len(q)
<1>1. n \in Nat /\ v[n + 1] = m /\ \A k \in 1..n : v[k] = q[k]
  BY AppendAny
<1>0. SUFFICES FreeAt(v, n + 2, r, d)
  OBVIOUS
<1> HIDE DEF v, n
<1>2. /\ (n + 2) - 1 = n + 1 /\ (n + 1) - 1 = n /\ n + 1 \in 1..(n + 1)
      /\ ((n + 1) + 1)..(n + 1) = {}
      /\ \A k \in 1..(n + 1) : k = n + 1 \/ k \in 1..n
  BY <1>1
<1>3. CASE IsStart(m)
  BY <1>1, <1>2, <1>3 DEF FreeAt
<1>4. CASE \E s \in 1..n : IsStart(q[s]) /\ \A k \in (s + 1)..n : ~IsEnd(q[k])
  <2>1. PICK s \in 1..n : IsStart(q[s]) /\ \A k \in (s + 1)..n : ~IsEnd(q[k])
    BY <1>4
  <2>2. s \in 1..(n + 1) /\ IsStart(v[s])
    BY <1>1, <2>1
  <2>3. \A k \in (s + 1)..(n + 1) : k = n + 1 \/ (k \in (s + 1)..n /\ k \in 1..n)
    BY <1>1
  <2>4. \A k \in (s + 1)..(n + 1) : ~IsEnd(v[k])
    BY <1>1, <2>1, <2>3
  <2>5. QED BY <1>2, <2>2, <2>4 DEF FreeAt
<1>5. CASE (\A k \in 1..n : ~IsEnd(q[k])) /\ FreeTarget(r.writer, d)
  BY <1>1, <1>2, <1>5 DEF FreeAt
<1>6. QED BY <1>2, <1>3, <1>4, <1>5 DEF FreeAt, v, n

LEMMA FreeAtTail ==
    ASSUME NEW q \in Seq(Message), q # <<>>, NEW p \in 2..(Len(q) + 1),
           NEW r, NEW d, NEW x, NEW e, FreeAt(q, p, r, d),
           IsStart(Head(q)) => FreeTarget(x.writer, e),
           ~IsEnd(Head(q)) => StaysFree(r, d, x, e)
    PROVE  FreeAt(Tail(q), p - 1, x, e)
<1> DEFINE v == Tail(q)
<1>1. /\ Len(q) \in Nat /\ Head(q) = q[1]
      /\ \A k \in 1..(Len(q) - 1) : v[k] = q[k + 1]
  BY TailFacts
<1>0. SUFFICES FreeAt(v, p - 1, x, e)
  OBVIOUS
<1> HIDE DEF v
<1>2. CASE \E s \in 1..(p - 1) : IsStart(q[s]) /\ \A k \in (s + 1)..(p - 1) : ~IsEnd(q[k])
  <2>1. PICK s \in 1..(p - 1) : IsStart(q[s]) /\ \A k \in (s + 1)..(p - 1) : ~IsEnd(q[k])
    BY <1>2
  <2>2. \A k \in s..((p - 1) - 1) : k + 1 \in (s + 1)..(p - 1) /\ k \in 1..(Len(q) - 1)
    BY <1>1
  <2>3. \A k \in s..((p - 1) - 1) : ~IsEnd(v[k])
    BY <1>1, <2>1, <2>2
  <2>4. CASE s = 1
    BY <1>1, <2>1, <2>3, <2>4 DEF FreeAt
  <2>5. CASE s # 1
    <3>1. s - 1 \in 1..((p - 1) - 1) /\ s - 1 \in 1..(Len(q) - 1) /\ (s - 1) + 1 = s
      BY <1>1, <2>5
    <3>2. IsStart(v[s - 1]) /\ \A k \in ((s - 1) + 1)..((p - 1) - 1) : ~IsEnd(v[k])
      BY <1>1, <2>1, <2>3, <3>1
    <3>3. QED BY <3>1, <3>2 DEF FreeAt
  <2>6. QED BY <2>4, <2>5
<1>3. CASE (\A k \in 1..(p - 1) : ~IsEnd(q[k])) /\ FreeTarget(r.writer, d)
  <2>1. 1 \in 1..(p - 1)
    BY <1>1
  <2>2. FreeTarget(x.writer, e)
    BY <1>1, <1>3, <2>1 DEF StaysFree
  <2>3. \A k \in 1..((p - 1) - 1) : k + 1 \in 1..(p - 1) /\ k \in 1..(Len(q) - 1)
    BY <1>1
  <2>4. QED BY <1>1, <1>3, <2>2, <2>3 DEF FreeAt
<1>4. QED BY <1>2, <1>3 DEF FreeAt, v

\* The queue loses its last packets, or its first, or gets one more.
LEMMA FreeCut ==
    ASSUME NEW q \in Seq(Message), NEW v, Cut(q, v), NEW r, NEW d, NEW x, NEW e,
           StaysFree(r, d, x, e), EndsAreFree(q, r, d)
    PROVE  EndsAreFree(v, x, e)
<1>1. v \in Seq(Message) /\ Len(v) <= Len(q) /\ \A k \in 1..Len(v) : v[k] = q[k]
  BY CutFacts
<1>2. SUFFICES ASSUME NEW p \in 1..Len(v), IsEnd(v[p]) PROVE FreeAt(v, p, x, e)
  BY DEF EndsAreFree
<1>3. p \in 1..Len(q) /\ p \in Nat /\ 1..(p - 1) \subseteq 1..Len(v)
  BY <1>1
<1>4. FreeAt(q, p, r, d)
  BY <1>1, <1>2, <1>3 DEF EndsAreFree
<1>5. QED BY <1>1, <1>3, <1>4, FreeAtPrefix

LEMMA FreeTail ==
    ASSUME NEW q \in Seq(Message), q # <<>>, NEW r, NEW d, NEW x, NEW e,
           EndsAreFree(q, r, d),
           IsStart(Head(q)) => FreeTarget(x.writer, e),
           ~IsEnd(Head(q)) => StaysFree(r, d, x, e)
    PROVE  EndsAreFree(Tail(q), x, e)
<1>1. /\ Len(q) \in Nat \ {0} /\ Len(Tail(q)) = Len(q) - 1
      /\ \A k \in 1..Len(Tail(q)) : Tail(q)[k] = q[k + 1]
  BY TailFacts
<1>2. SUFFICES ASSUME NEW p \in 1..Len(Tail(q)), IsEnd(Tail(q)[p])
               PROVE  FreeAt(Tail(q), p, x, e)
  BY DEF EndsAreFree
<1>3. p + 1 \in 2..(Len(q) + 1) /\ p + 1 \in 1..Len(q) /\ (p + 1) - 1 = p
  BY <1>1
<1>4. FreeAt(q, p + 1, r, d)
  BY <1>1, <1>2, <1>3 DEF EndsAreFree
<1> DEFINE n == p + 1
<1> HIDE DEF n
<1>5. n \in 2..(Len(q) + 1) /\ FreeAt(q, n, r, d) /\ n - 1 = p
  BY <1>3, <1>4 DEF n
<1>6. QED BY <1>5, FreeAtTail

LEMMA FreeAppend ==
    ASSUME NEW q \in Seq(Message), NEW m, NEW r, NEW d,
           EndsAreFree(q, r, d), IsEnd(m) => FreeAt(q, Len(q) + 1, r, d)
    PROVE  EndsAreFree(Append(q, m), r, d)
<1> DEFINE v == Append(q, m)
<1>1. /\ Len(q) \in Nat /\ Len(v) = Len(q) + 1 /\ v[Len(q) + 1] = m
      /\ \A k \in 1..Len(q) : v[k] = q[k]
  BY AppendAny
<1> HIDE DEF v
<1>2. SUFFICES ASSUME NEW p \in 1..Len(v), IsEnd(v[p]) PROVE FreeAt(v, p, r, d)
  BY DEF EndsAreFree, v
<1>3. FreeAt(q, p, r, d)
  <2>1. CASE p = Len(q) + 1
    BY <1>1, <1>2, <2>1
  <2>2. CASE p # Len(q) + 1
    <3>1. p \in 1..Len(q)
      BY <1>1, <2>2
    <3>2. QED BY <1>1, <1>2, <3>1 DEF EndsAreFree
  <2>3. QED BY <2>1, <2>2
<1>4. p \in Nat /\ \A k \in 1..(p - 1) : v[k] = q[k]
  BY <1>1
<1>5. StaysFree(r, d, r, d)
  BY DEF StaysFree
<1>6. QED BY <1>3, <1>4, <1>5, FreeAtPrefix

\* The sender may go on: what FreeInv says of one of its sessions and the
\* queue behind it.
SendsFree(s, q, r, d) == EndsAreFree(q, r, d) /\ (Linked => MayEnd(s, q, r, d))

LEMMA FreeSay ==
    ASSUME NEW s, NEW t, NEW q \in Seq(Message), NEW r, NEW d, NEW m, ~IsEnd(m),
           EndsAreFree(q, r, d),
           IsStart(m) \/ /\ SendsFree(s, q, r, d)
                         /\ t.reader.open /\ ~t.waiting => s.reader.open /\ ~s.waiting
    PROVE  SendsFree(t, Say(q, m), r, d)
<1>1. EndsAreFree(Append(q, m), r, d)
  BY FreeAppend
<1>2. ASSUME Linked, t.reader.open /\ ~t.waiting
      PROVE  FreeAt(Append(q, m), Len(Append(q, m)) + 1, r, d)
  <2>1. IsStart(m) \/ FreeAt(q, Len(q) + 1, r, d)
    BY <1>2 DEF SendsFree, MayEnd
  <2>2. FreeAt(Append(q, m), Len(q) + 2, r, d)
    BY <2>1, FreeAtAppend
  <2>3. Len(Append(q, m)) + 1 = Len(q) + 2
    BY AppendAny
  <2>4. QED BY <2>2, <2>3
<1>3. QED BY <1>1, <1>2 DEF Say, SendsFree, MayEnd

LEMMA FreeLoop ==
    ASSUME NEW s, NEW t, NEW q \in Seq(Message), NEW v, NEW r, NEW d,
           SendsFree(s, q, r, d), LoopTurn(s, q, t, v)
    PROVE  SendsFree(t, v, r, d)
<1>1. CASE Kept(s, t) /\ v = q
  BY <1>1 DEF SendsFree, MayEnd, Kept
<1>2. CASE LoopEnds(s, q, t, v)
  <2> DEFINE m == FileEnd(s.cur, s.reader.hashed)
  <2>1. s.reader.open /\ ~s.waiting /\ t.waiting /\ v = Say(q, m)
    BY <1>2 DEF LoopEnds
  <2> HIDE DEF m
  <2>2. CASE Linked
    <3>1. FreeAt(q, Len(q) + 1, r, d)
      BY <2>1, <2>2 DEF SendsFree, MayEnd
    <3>2. EndsAreFree(Append(q, m), r, d)
      BY <3>1, FreeAppend DEF SendsFree
    <3>3. QED BY <2>1, <2>2, <3>2 DEF Say, SendsFree, MayEnd
  <2>3. CASE ~Linked
    BY <2>1, <2>3 DEF Say, SendsFree
  <2>4. QED BY <2>2, <2>3
<1>3. CASE LoopReads(s, q, t, v)
  <2> DEFINE m == FileDataChunk(s.cur, s.reader.off, NextBlock(s.reader))
  <2>1. s.reader.open /\ ~s.waiting /\ v = Say(q, m)
    BY <1>3 DEF LoopReads
  <2>2. ~IsEnd(m)
    BY DEF FileDataChunk, IsEnd
  <2>3. QED BY <2>1, <2>2, FreeSay DEF SendsFree
<1>4. QED BY <1>1, <1>2, <1>3 DEF LoopTurn

\* A quiet step leaves the committed files alone.
LEMMA QuietFinal ==
    ASSUME SessionInv, Quiet PROVE disk'.final = disk.final
<1>1. DiskType(disk)
  BY ReceiverKnows
<1>2. QED BY <1>1, LossKeepsFinal DEF Quiet, QuietDisk

LEMMA FreeQuiet ==
    ASSUME SessionInv, FreeInv, Quiet PROVE FreeInv'
<1>1. toRecv \in Seq(Message)
  BY SenderHas
<1>2. /\ EndsAreFree(toRecv, receiver, disk)
      /\ Linked' => Linked
      /\ Linked => MayEnd(sender, toRecv, receiver, disk)
      /\ StaysFree(receiver, disk, receiver', disk')
      /\ sender'.reader.open /\ ~sender'.waiting => sender.reader.open /\ ~sender.waiting
  BY QuietFinal DEF FreeInv, FreeOK, Quiet, Kept, KeptR, StaysFree, FreeTarget
<1>3. CASE Cut(toRecv, toRecv') /\ (Linked' => toRecv' = toRecv)
  <2>1. EndsAreFree(toRecv', receiver', disk')
    BY <1>1, <1>2, <1>3, FreeCut
  <2>2. ASSUME Linked', sender'.reader.open, ~sender'.waiting
        PROVE  FreeAt(toRecv', Len(toRecv') + 1, receiver', disk')
    <3>1. FreeAt(toRecv, Len(toRecv) + 1, receiver, disk) /\ toRecv' = toRecv
      BY <1>2, <1>3, <2>2 DEF MayEnd
    <3>2. Len(toRecv) + 1 \in Nat
      BY <1>1
    <3>3. FreeAt(toRecv, Len(toRecv) + 1, receiver', disk')
      BY <1>2, <3>1, <3>2, FreeAtPrefix
    <3>4. QED BY <3>1, <3>3
  <2>3. QED BY <2>1, <2>2 DEF FreeInv, FreeOK, MayEnd
<1>4. CASE /\ toRecv # <<>> /\ toRecv' = Tail(toRecv)
           /\ Head(toRecv).type \in {"TransferPause", "TransferResume", "TransferCancel"}
  <2>1. ~IsStart(Head(toRecv)) /\ ~IsEnd(Head(toRecv))
    BY <1>4 DEF IsStart, IsEnd
  <2>2. EndsAreFree(toRecv', receiver', disk')
    BY <1>1, <1>2, <1>4, <2>1, FreeTail
  <2>3. ASSUME Linked', sender'.reader.open, ~sender'.waiting
        PROVE  FreeAt(toRecv', Len(toRecv') + 1, receiver', disk')
    <3> DEFINE n == Len(toRecv) + 1
    <3>1. FreeAt(toRecv, n, receiver, disk)
      BY <1>2, <2>3 DEF MayEnd
    <3>2. n \in 2..(Len(toRecv) + 1) /\ n - 1 = Len(toRecv') + 1
      BY <1>1, <1>4, TailFacts
    <3> HIDE DEF n
    <3>3. FreeAt(toRecv', n - 1, receiver', disk')
      BY <1>1, <1>2, <1>4, <2>1, <3>1, <3>2, FreeAtTail
    <3>4. QED BY <3>2, <3>3
  <2>4. QED BY <2>2, <2>3 DEF FreeInv, FreeOK, MayEnd
<1>5. CASE \E m \in Message : /\ m.type \in {"TransferPause", "TransferCancel"}
                               /\ toRecv' = Append(toRecv, m)
  <2>1. PICK m \in Message : /\ m.type \in {"TransferPause", "TransferCancel"}
                             /\ toRecv' = Append(toRecv, m)
    BY <1>5
  <2>2. ~IsEnd(m) /\ ~IsStart(m)
    BY <2>1 DEF IsEnd, IsStart
  <2>3. EndsAreFree(toRecv, receiver', disk')
    <3>1. Cut(toRecv, toRecv)
      BY <1>1, CutAll
    <3>2. QED BY <1>1, <1>2, <3>1, FreeCut
  <2>4. EndsAreFree(toRecv', receiver', disk')
    BY <1>1, <2>1, <2>2, <2>3, FreeAppend
  <2>5. ASSUME Linked', sender'.reader.open, ~sender'.waiting
        PROVE  FreeAt(toRecv', Len(toRecv') + 1, receiver', disk')
    <3>1. FreeAt(toRecv, Len(toRecv) + 1, receiver, disk)
      BY <1>2, <2>5 DEF MayEnd
    <3>2. Len(toRecv) + 1 \in Nat
      BY <1>1
    <3>3. FreeAt(toRecv, Len(toRecv) + 1, receiver', disk')
      BY <1>2, <3>1, <3>2, FreeAtPrefix
    <3>4. FreeAt(toRecv', Len(toRecv) + 2, receiver', disk')
      BY <1>1, <2>1, <2>2, <3>3, FreeAtAppend
    <3>5. Len(toRecv') + 1 = Len(toRecv) + 2
      BY <1>1, <2>1, AppendAny
    <3>6. QED BY <3>4, <3>5
  <2>6. QED BY <2>4, <2>5 DEF FreeInv, FreeOK, MayEnd
<1>6. QED BY <1>3, <1>4, <1>5 DEF Quiet, QuietToRecv
\* A packet handler of the receiver keeps what lies behind its packet free, if
\* it opens the file of a FileStart under a free name.
LEMMA FreeTakes ==
    ASSUME SessionInv, FreeInv, NEW type, Takes(type),
           type = "FileStart" => FreeTarget(receiver'.writer, disk'),
           type \notin {"FileStart", "FileEnd"} =>
               StaysFree(receiver, disk, receiver', disk')
    PROVE  FreeInv'
<1> DEFINE q == toRecv
<1>1. /\ q \in Seq(Message) /\ q # <<>> /\ Head(q).type = type
      /\ Cut(Tail(q), toRecv') /\ UNCHANGED sender
      /\ Linked' => Linked /\ toRecv' = Tail(q)
  BY SenderHas DEF Takes
<1>2. /\ EndsAreFree(q, receiver, disk)
      /\ Linked => MayEnd(sender, q, receiver, disk)
  BY DEF FreeInv, FreeOK
<1>3. /\ Tail(q) \in Seq(Message) /\ Len(Tail(q)) = Len(q) - 1
      /\ Len(q) \in Nat \ {0}
  BY <1>1, TailFacts
<1>4. /\ IsStart(Head(q)) => FreeTarget(receiver'.writer, disk')
      /\ ~IsEnd(Head(q)) => StaysFree(receiver, disk, receiver', disk')
  BY <1>1 DEF IsStart, IsEnd, StaysFree
<1>5. EndsAreFree(Tail(q), receiver', disk')
  BY <1>1, <1>2, <1>4, FreeTail
<1>6. EndsAreFree(toRecv', receiver', disk')
  <2>1. StaysFree(receiver', disk', receiver', disk')
    BY DEF StaysFree
  <2>2. QED BY <1>1, <1>3, <1>5, <2>1, FreeCut
<1>7. ASSUME Linked', sender.reader.open, ~sender.waiting
      PROVE  FreeAt(toRecv', Len(toRecv') + 1, receiver', disk')
  <2> DEFINE n == Len(q) + 1
  <2>1. FreeAt(q, n, receiver, disk)
    BY <1>1, <1>2, <1>7 DEF MayEnd
  <2>2. n \in 2..(Len(q) + 1) /\ n - 1 = Len(toRecv') + 1
    <3>1. toRecv' = Tail(q)
      BY <1>1, <1>7
    <3> HIDE DEF q
    <3>2. QED BY <1>3, <3>1
  <2> HIDE DEF n
  <2>3. FreeAt(Tail(q), n - 1, receiver', disk')
    BY <1>1, <1>4, <2>1, <2>2, FreeAtTail
  <2>4. QED BY <1>1, <1>7, <2>2, <2>3
<1>8. QED BY <1>1, <1>6, <1>7 DEF FreeInv, FreeOK, MayEnd

\* The sender's own steps: the handshake's answer, the start of a file and the
\* chunk loop.
LEMMA FreeSends ==
    ASSUME SessionInv, FreeInv, UNCHANGED <<receiver, disk, sock, cut>>,
           SendsFree(sender', toRecv', receiver, disk)
    PROVE  FreeInv'
<1>1. Linked' = Linked
  BY DEF Linked
<1>2. QED BY <1>1 DEF FreeInv, FreeOK, SendsFree

LEMMA FreeHandshakeResp ==
    ASSUME SessionInv, FreeInv, OnHandshakeResp PROVE FreeInv'
<1> DEFINE m == Signal("TransferOffer")
<1>1. /\ UNCHANGED <<receiver, disk, sock, cut>> /\ SendToReceiver(<<m>>)
      /\ sender' = WithStatus(sender, "WaitingApproval")
  BY DEF OnHandshakeResp, SenderHandles
<1>2. sender \in Sender /\ toRecv \in Seq(Message)
  BY SenderHas
<1>3. toRecv' = Say(toRecv, m)
  BY <1>1, <1>2, ConcatOne, AnswerMessages DEF SendToReceiver, Say
<1>4. ~IsEnd(m) /\ sender'.reader = sender.reader /\ sender'.waiting = sender.waiting
  BY <1>1, <1>2 DEF Signal, IsEnd, WithStatus, Sender
<1> HIDE DEF m
<1>5. SendsFree(sender, toRecv, receiver, disk)
  BY DEF FreeInv, FreeOK, SendsFree
<1>6. SendsFree(sender', Say(toRecv, m), receiver, disk)
  BY <1>2, <1>4, <1>5, FreeSay DEF SendsFree
<1>7. QED BY <1>1, <1>3, <1>6, FreeSends

LEMMA FreeStarts ==
    ASSUME SessionInv, FreeInv, SenderStarts PROVE FreeInv'
<1>1. PICK s \in Sender, i \in Nat \ {0}, off \in Nat :
             /\ Kept(sender, s) /\ Starts(s, i, off)
  BY DEF SenderStarts
<1>2. toRecv \in Seq(Message) /\ UNCHANGED <<receiver, disk, sock, cut>>
  BY SenderHas DEF SenderStarts
<1>3. SendsFree(sender, toRecv, receiver, disk)
  BY DEF FreeInv, FreeOK, SendsFree
<1>4. CASE LoopTurn(Started(s, i, off), Say(toRecv, FileStart(i)), sender', toRecv') /\ i \in Files
  <2> DEFINE t == Started(s, i, off)
             m == FileStart(i)
  <2>1. IsStart(m) /\ ~IsEnd(m) /\ m \in Message
    BY <1>4 DEF FileStart, IsStart, IsEnd, Message
  <2> HIDE DEF t, m
  <2>2. SendsFree(t, Say(toRecv, m), receiver, disk)
    BY <1>2, <1>3, <2>1, FreeSay DEF SendsFree
  <2>3. Say(toRecv, m) \in Seq(Message)
    BY <1>2, <2>1, AppendFacts DEF Say
  <2>4. SendsFree(sender', toRecv', receiver, disk)
    BY <1>4, <2>2, <2>3, FreeLoop DEF t, m
  <2>5. QED BY <1>2, <2>4, FreeSends
<1>5. CASE ~sender'.reader.open /\ toRecv' = toRecv
  <2>1. SendsFree(sender', toRecv', receiver, disk)
    BY <1>3, <1>5 DEF SendsFree, MayEnd
  <2>2. QED BY <1>2, <2>1, FreeSends
<1>6. CASE /\ sender'.waiting = s.waiting /\ sender'.reader = s.reader
           /\ toRecv' = Say(toRecv, Signal("TransferComplete"))
  <2> DEFINE m == Signal("TransferComplete")
  <2>1. ~IsEnd(m)
    BY DEF Signal, IsEnd
  <2>2. sender'.reader.open /\ ~sender'.waiting => sender.reader.open /\ ~sender.waiting
    BY <1>1, <1>6 DEF Kept
  <2> HIDE DEF m
  <2>3. SendsFree(sender', Say(toRecv, m), receiver, disk)
    BY <1>2, <1>3, <2>1, <2>2, FreeSay DEF SendsFree
  <2>4. QED BY <1>2, <1>6, <2>3, FreeSends DEF m
<1>7. QED BY <1>1, <1>4, <1>5, <1>6 DEF Starts

LEMMA FreeLoops ==
    ASSUME SessionInv, FreeInv, SenderLoops PROVE FreeInv'
<1>1. PICK s \in Sender, q \in Seq(Message) :
             /\ Kept(sender, s)
             /\ \/ q = toRecv
                \/ \E m \in Message : m.type = "TransferResume" /\ q = Say(toRecv, m)
             /\ LoopTurn(s, q, sender', toRecv')
  BY DEF SenderLoops
<1>2. toRecv \in Seq(Message) /\ UNCHANGED <<receiver, disk, sock, cut>>
  BY SenderHas DEF SenderLoops
<1>3. SendsFree(sender, toRecv, receiver, disk)
  BY DEF FreeInv, FreeOK, SendsFree
<1>4. s.reader.open /\ ~s.waiting => sender.reader.open /\ ~sender.waiting
  BY <1>1 DEF Kept
<1>5. SendsFree(s, q, receiver, disk)
  <2>1. CASE q = toRecv
    BY <1>3, <1>4, <2>1 DEF SendsFree, MayEnd
  <2>2. CASE \E m \in Message : m.type = "TransferResume" /\ q = Say(toRecv, m)
    <3>1. PICK m \in Message : m.type = "TransferResume" /\ q = Say(toRecv, m)
      BY <2>2
    <3>2. ~IsEnd(m)
      BY <3>1 DEF IsEnd
    <3>3. SendsFree(s, Say(toRecv, m), receiver, disk)
      BY <1>2, <1>3, <1>4, <3>2, FreeSay DEF SendsFree
    <3>4. QED BY <3>1, <3>3
  <2>3. QED BY <1>1, <2>1, <2>2
<1>6. SendsFree(sender', toRecv', receiver, disk)
  BY <1>1, <1>5, FreeLoop
<1>7. QED BY <1>2, <1>6, FreeSends

\* No committed file has a name that a file is to be written under.
LEMMA TargetIsFree ==
    ASSUME KeepsFiles, NEW d, NEW i, NEW t \in Targets(d, i, Policy)
    PROVE  t \notin DOMAIN d.final
BY DEF KeepsFiles, Targets, UniqueNames, Exists

LEMMA DropAbsent ==
    ASSUME NEW f, IsStore(f), NEW gone, gone \cap DOMAIN f = {}
    PROVE  Drop(f, gone) = f
<1>1. DOMAIN f \ gone = DOMAIN f /\ f = [m \in DOMAIN f |-> f[m]]
  BY DEF IsStore
<1>2. QED BY <1>1 DEF Drop

LEMMA FreeMoves ==
    ASSUME KeepsFiles, SessionInv, FreeInv, ReceiverMoves PROVE FreeInv'
<1>1. DiskType(disk)
  BY ReceiverKnows
<1>2. CASE OnHandshakeReq \/ OnTransferOffer \/ OnTransferComplete
  <2>1. PICK type \in {"HandshakeReq", "TransferOffer", "TransferComplete"} :
               Takes(type) /\ SameWriter(receiver, receiver') /\ UNCHANGED disk
    BY <1>2, HandshakeReqDoes, TransferOfferDoes, TransferCompleteDoes
  <2>2. QED BY <2>1, FreeTakes DEF SameWriter, StaysFree, FreeTarget
<1>3. CASE UserAccepts
  <2>1. /\ UNCHANGED <<sender, toRecv, disk>> /\ Linked' = Linked
        /\ SameWriter(receiver, receiver')
    BY <1>3, UserAcceptsDoes
  <2>2. QED BY <2>1 DEF FreeInv, FreeOK, EndsAreFree, MayEnd, FreeAt, FreeTarget, SameWriter
<1>4. CASE OnFileStart
  <2> DEFINE i == Head(toRecv).index
  <2>1. Takes("FileStart")
    BY <1>4, FileStartDoes
  <2>6. PICK d \in Closed(disk, receiver.writer) : Opened(d, i) \/ NotOpened(d, i)
    BY <1>4, FileStartDoes
  <2>7. d.final = disk.final
    BY <1>1, LossKeepsFinal
  <2>2. ASSUME NEW t, receiver'.writer.target = t,
               disk' = Cleared(d, t) \/ \E c : disk' = OpenedDisk(d, t, c)
        PROVE  FreeTarget(receiver'.writer, disk')
    <3>1. PICK gone : gone = {t} \cup FinalsAt(t) /\ disk'.final = Drop(d.final, gone)
      BY <2>2, ClearedFinal
    <3>2. t \notin DOMAIN Drop(d.final, gone)
      BY <3>1 DEF Drop
    <3>3. QED BY <2>2, <3>1, <3>2 DEF FreeTarget
  <2>3. CASE Opened(d, i)
    <3>1. PICK t, c : receiver'.writer = OpenedWriter(t) /\ disk' = OpenedDisk(d, t, c)
      BY <2>3 DEF Opened
    <3>2. OpenedWriter(t).target = t
      BY DEF OpenedWriter
    <3>3. FreeTarget(receiver'.writer, disk')
      BY <2>2, <3>1, <3>2
    <3>4. QED BY <2>1, <3>3, FreeTakes
  <2>4. CASE NotOpened(d, i)
    <3>1. ~SkippedByPolicy(d, i, Policy)
      BY DEF KeepsFiles, SkippedByPolicy
    <3>2. NoName \notin DOMAIN disk.final
      BY <1>1, NoNameIsNoFile DEF DiskType, IsStore
    <3>3. FreeTarget(receiver'.writer, disk')
      BY <2>2, <2>4, <2>7, <3>1, <3>2 DEF NotOpened, FreeTarget
    <3>4. QED BY <2>1, <3>3, FreeTakes
  <2>5. QED BY <2>3, <2>4, <2>6
<1>5. CASE OnFileDataChunk
  <2> DEFINE w == receiver.writer
  <2>1. /\ Takes("FileDataChunk") /\ receiver'.writer.target = w.target
        /\ \/ UNCHANGED disk
           \/ disk' = WriteToDisk(disk, w, Head(toRecv).offset, Head(toRecv).data)
    <3>1. w \in Writer
      BY ReceiverKnows DEF Receiver
    <3>2. \A b : [w EXCEPT !.hashed = Append(@, b)].target = w.target
      BY <3>1 DEF Writer
    <3>3. QED BY <1>5, <3>2, FileDataChunkDoes
  <2>2. disk'.final = disk.final
    BY <1>1, <2>1, WriteKeepsFinal
  <2>3. QED BY <2>1, <2>2, FreeTakes DEF StaysFree, FreeTarget
<1>6. CASE OnFileEnd
  BY <1>6, FileEndDoes, FreeTakes
<1>7. CASE ReceiverCrashes
  <2>1. toRecv' = <<>> /\ ~Linked'
    BY <1>7, CrashDoes
  <2>2. QED BY <2>1 DEF FreeInv, FreeOK, EndsAreFree
<1>8. QED BY <1>2, <1>3, <1>4, <1>5, <1>6, <1>7 DEF ReceiverMoves

LEMMA FreeConnects ==
    ASSUME SessionInv, FreeInv, SocketConnected PROVE FreeInv'
<1>1. /\ toRecv' = <<Signal("HandshakeReq")>> /\ Early
      /\ sender' = WithStatus(sender, "Handshaking") /\ sender \in Sender
  BY SenderHas DEF SocketConnected, Early
<1>2. ~sender'.reader.open
  BY <1>1 DEF SessionInv, EarlyOK, WithStatus, Sender
<1>3. \A p \in 1..Len(toRecv') : ~IsEnd(toRecv'[p])
  BY <1>1 DEF Signal, IsEnd
<1>4. QED BY <1>2, <1>3 DEF FreeInv, FreeOK, EndsAreFree, MayEnd

\* FreeInv is inductive.
LEMMA FreeKept ==
    ASSUME KeepsFiles, ByButton = TRUE, SessionInv, FreeInv, [Next]_vars
    PROVE  FreeInv'
BY StepCases, FreeQuiet, FreeConnects, FreeHandshakeResp, FreeStarts, FreeLoops, FreeMoves

LEMMA FreeInit == ASSUME Init PROVE FreeInv
BY DEF Init, FreeInv, FreeOK, EndsAreFree, Linked, Sides, MayEnd

LEMMA FreeInvHolds ==
    ASSUME KeepsFiles, NoTrailingHole, ByButton = TRUE
    PROVE  Spec => []FreeInv
<1>1. Init => FreeInv
  BY FreeInit
<1>2. SessionInv /\ FreeInv /\ [Next]_vars => FreeInv'
  BY FreeKept
<1>3. QED BY <1>1, <1>2, SessionInvHolds, PTL DEF Spec

\* A step changes the committed files under new names only.
KeepsFinal ==
    \A n \in DOMAIN disk.final : n \in DOMAIN disk'.final /\ disk'.final[n] = disk.final[n]

LEMMA FinalKept ==
    ASSUME KeepsFiles, NamesApart, ByButton = TRUE, SessionInv, FreeInv, [Next]_vars
    PROVE  KeepsFinal
<1> DEFINE m == Head(toRecv)
           w == receiver.writer
<1>1. DiskType(disk) /\ IsStore(disk.final) /\ toRecv \in Seq(Message)
  BY ReceiverKnows DEF DiskType
<1>2. CASE disk'.final = disk.final
  BY <1>2 DEF KeepsFinal
<1>3. ASSUME toRecv # <<>>, m.type = "FileEnd" PROVE w.target \notin DOMAIN disk.final
  <2>1. 1 \in 1..Len(toRecv) /\ m = toRecv[1]
    BY <1>1, <1>3, TailFacts
  <2>2. FreeAt(toRecv, 1, receiver, disk)
    BY <1>3, <2>1 DEF FreeInv, FreeOK, EndsAreFree, IsEnd
  <2>3. QED BY <2>2 DEF FreeAt, FreeTarget
<1>4. ASSUME NEW d \in Closed(disk, w), toRecv # <<>>, DiskMoves(m, d, disk')
      PROVE  KeepsFinal
  <2>0. d.final = disk.final
    BY <1>1, LossKeepsFinal
  <2>1. CASE \E t \in Targets(d, m.index, Policy) :
                disk' = Cleared(d, t) \/ \E c : disk' = OpenedDisk(d, t, c)
    <3>1. PICK t \in Targets(d, m.index, Policy) :
                 disk' = Cleared(d, t) \/ \E c : disk' = OpenedDisk(d, t, c)
      BY <2>1
    <3>2. PICK gone : gone = {t} \cup FinalsAt(t) /\ disk'.final = Drop(disk.final, gone)
      BY <2>0, <3>1, ClearedFinal
    <3>3. t \notin DOMAIN disk.final /\ FinalsAt(t) = {}
      BY <2>0, TargetIsFree DEF NamesApart, FinalsAt
    <3>4. gone \cap DOMAIN disk.final = {}
      BY <3>2, <3>3
    <3>5. QED BY <1>1, <1>2, <3>2, <3>4, DropAbsent
  <2>2. CASE disk' = WriteToDisk(d, w, m.offset, m.data) /\ d = disk
    BY <1>1, <1>2, <2>2, WriteKeepsFinal
  <2>3. CASE m.type = "FileEnd" /\ disk' = HalfCommitted(d, w)
    <3>1. PICK gone : gone = {w.target} /\ disk'.final = Drop(disk.final, gone)
      BY <2>0, <2>3, HalfCommittedFinal
    <3>2. gone \cap DOMAIN disk.final = {}
      BY <1>3, <1>4, <2>3, <3>1
    <3>3. QED BY <1>1, <1>2, <3>1, <3>2, DropAbsent
  <2>4. CASE m.type = "FileEnd" /\ disk' = Committed(d, w)
    <3>1. disk'.final = Put(disk.final, w.target, d.partial[w.partial])
      BY <2>0, <2>4, CommittedFinal
    <3>2. w.target \notin DOMAIN disk.final
      BY <1>3, <1>4, <2>4
    <3>3. QED BY <3>1, <3>2 DEF Put, KeepsFinal
  <2>5. QED BY <1>4, <2>1, <2>2, <2>3, <2>4 DEF DiskMoves
<1>5. CASE disk' \in {disk} \cup Unflushed(disk, w)
  BY <1>1, <1>2, <1>5, LossKeepsFinal
<1>6. QED BY <1>4, <1>5, DiskMovesOf

\* Whatever is delivered stays as it was delivered, whoever pauses, cancels,
\* crashes or loses the connection, if the policy keeps the files that are
\* there and no entry is named as the .partial of another one
\* (FileWriter.cpp:67-79, 109-111 and 168-172).
THEOREM NothingIsReplaced ==
    ASSUME KeepsFiles, NamesApart, NoTrailingHole, ByButton = TRUE
    PROVE  Spec => NeverReplaced
<1>1. SessionInv /\ FreeInv /\ [Next]_vars => [KeepsFinal]_vars
  BY FinalKept
<1>2. QED BY <1>1, SessionInvHolds, FreeInvHolds, PTL DEF Spec, NeverReplaced, KeepsFinal

-----------------------------------------------------------------------------
(* AckIsForCurrentFile.  The turn: what is under way may be lost, other    *)
(* packets may come, and the turn may pass.                                *)

\* What TurnOK reads of the sending session.
SameTurn(s, t) ==
    /\ t.cur = s.cur /\ t.waiting = s.waiting /\ t.reader.has = s.reader.has
    /\ t.status \in Opening => s.status \in Opening

LEMMA NoTurnPart ==
    ASSUME NEW q \in Seq(Message), NEW u \in Seq(Message), NEW a, NoTurn(q, u, a),
           NEW v \in Seq(Message), NEW w \in Seq(Message), NEW b,
           Part(q, v), Part(u, w), b => a
    PROVE  NoTurn(v, w, b)
<1>1. \A k \in 1..Len(v) : \E j \in 1..Len(q) : v[k] = q[j]
  BY PartFacts
<1>2. \A k \in 1..Len(w) : \E j \in 1..Len(u) : w[k] = u[j]
  BY PartFacts
<1>3. QED BY <1>1, <1>2 DEF NoTurn

LEMMA NoTurnOK ==
    ASSUME NEW t, NEW q, NEW u, NEW a, NoTurn(q, u, a), AnswersFit(u),
           t.status \in Opening => Untouched(t)
    PROVE  TurnOK(t, q, u, a)
BY DEF NoTurn, TurnOK, OneTurn, TurnsFit

LEMMA AnswersFitPart ==
    ASSUME NEW u \in Seq(Message), NEW w \in Seq(Message), Part(u, w), AnswersFit(u)
    PROVE  AnswersFit(w)
<1>1. \A k \in 1..Len(w) : \E j \in 1..Len(u) : w[k] = u[j]
  BY PartFacts
<1>2. QED BY <1>1 DEF AnswersFit

LEMMA NoStreamPart ==
    ASSUME NEW q \in Seq(Message), NEW v \in Seq(Message), Part(q, v), NoStream(q)
    PROVE  NoStream(v)
<1>1. \A k \in 1..Len(v) : \E j \in 1..Len(q) : v[k] = q[j]
  BY PartFacts
<1>2. QED BY <1>1 DEF NoStream

\* Nothing new is under way.
LEMMA TurnPart ==
    ASSUME NEW s, NEW q \in Seq(Message), NEW u \in Seq(Message), NEW a,
           TurnOK(s, q, u, a),
           NEW t, SameTurn(s, t), NEW v \in Seq(Message), NEW w \in Seq(Message), NEW b,
           Part(q, v), Part(u, w), b => a
    PROVE  TurnOK(t, v, w, b)
<1>1. PICK x \in Nat : \A k \in 1..Len(v) : k + x \in 1..Len(q) /\ v[k] = q[k + x]
  BY PartFacts
<1>2. PICK y \in Nat : \A k \in 1..Len(w) : k + y \in 1..Len(u) /\ w[k] = u[k + y]
  BY PartFacts
<1>3. OneTurn(v, w, b)
  <2>1. ASSUME NEW k \in 1..Len(v), TurnToRecv(v[k])
        PROVE  /\ \A j \in 1..Len(v) : TurnToRecv(v[j]) => j = k
               /\ \A j \in 1..Len(w) : ~TurnToSend(w[j])
               /\ ~b
    <3>1. k + x \in 1..Len(q) /\ TurnToRecv(q[k + x])
      BY <1>1, <2>1
    <3>2. /\ \A j \in 1..Len(q) : TurnToRecv(q[j]) => j = k + x
          /\ \A j \in 1..Len(u) : ~TurnToSend(u[j])
          /\ ~a
      BY <3>1 DEF TurnOK, OneTurn
    <3>3. ASSUME NEW j \in 1..Len(v), TurnToRecv(v[j]) PROVE j = k
      <4>1. j + x = k + x
        BY <1>1, <3>2, <3>3
      <4>2. j \in Int /\ k \in Int /\ x \in Int
        OBVIOUS
      <4>3. QED BY <4>1, <4>2
    <3>4. \A j \in 1..Len(w) : ~TurnToSend(w[j])
      BY <1>2, <3>2
    <3>5. QED BY <3>2, <3>3, <3>4
  <2>2. ASSUME NEW k \in 1..Len(w), TurnToSend(w[k])
        PROVE  (\A j \in 1..Len(w) : TurnToSend(w[j]) => j = k) /\ ~b
    <3>1. k + y \in 1..Len(u) /\ TurnToSend(u[k + y])
      BY <1>2, <2>2
    <3>2. (\A j \in 1..Len(u) : TurnToSend(u[j]) => j = k + y) /\ ~a
      BY <3>1 DEF TurnOK, OneTurn
    <3>3. ASSUME NEW j \in 1..Len(w), TurnToSend(w[j]) PROVE j = k
      <4>1. j + y = k + y
        BY <1>2, <3>2, <3>3
      <4>2. j \in Int /\ k \in Int /\ y \in Int
        OBVIOUS
      <4>3. QED BY <4>1, <4>2
    <3>4. QED BY <3>2, <3>3
  <2>3. QED BY <2>1, <2>2 DEF OneTurn
<1>4. NoStream(q) => NoStream(v)
  BY NoStreamPart
<1>5. \A m : TurnFits(m, s, q) => TurnFits(m, t, v)
  BY <1>4 DEF TurnFits, SameTurn, Untouched
<1>6. TurnsFit(t, v, w, b)
  <2>1. \A k \in 1..Len(v) : TurnToRecv(v[k]) => TurnFits(v[k], s, q)
    BY <1>1 DEF TurnOK, TurnsFit
  <2>2. \A k \in 1..Len(w) : TurnToSend(w[k]) => TurnFits(w[k], s, q)
    BY <1>2 DEF TurnOK, TurnsFit
  <2>3. b => Untouched(t) /\ NoStream(v)
    BY <1>4 DEF TurnOK, TurnsFit, SameTurn, Untouched
  <2>4. QED BY <1>5, <2>1, <2>2, <2>3 DEF TurnsFit
<1>7. AnswersFit(w)
  BY AnswersFitPart DEF TurnOK
<1>8. t.status \in Opening => Untouched(t)
  BY DEF TurnOK, SameTurn, Untouched
<1>9. QED BY <1>3, <1>6, <1>7, <1>8 DEF TurnOK

\* One more packet that is no turn and no part of a stream.
LEMMA TurnAppendRecv ==
    ASSUME NEW s, NEW q \in Seq(Message), NEW u, NEW a, TurnOK(s, q, u, a),
           NEW m, ~TurnToRecv(m), ~IsStream(m)
    PROVE  TurnOK(s, Append(q, m), u, a)
<1> DEFINE v == Append(q, m)
<1>1. /\ Len(v) = Len(q) + 1 /\ Len(q) \in Nat /\ v[Len(q) + 1] = m
      /\ \A k \in 1..Len(q) : v[k] = q[k]
  BY AppendAny
<1> HIDE DEF v
<1>2. \A k \in 1..Len(v) : TurnToRecv(v[k]) \/ IsStream(v[k]) =>
         k \in 1..Len(q) /\ v[k] = q[k]
  BY <1>1
<1>3. NoStream(q) => NoStream(v)
  BY <1>2 DEF NoStream
<1>4. \A x : TurnFits(x, s, q) => TurnFits(x, s, v)
  BY <1>3 DEF TurnFits
<1>5. OneTurn(v, u, a)
  BY <1>2 DEF TurnOK, OneTurn
<1>6. TurnsFit(s, v, u, a)
  BY <1>2, <1>3, <1>4 DEF TurnOK, TurnsFit
<1>7. QED BY <1>5, <1>6 DEF TurnOK, v

LEMMA TurnAppendSend ==
    ASSUME NEW s, NEW q, NEW u \in Seq(Message), NEW a, TurnOK(s, q, u, a),
           NEW m, ~TurnToSend(m),
           m.type \notin {"TransferAccept", "TransferResume", "TransferPause"}
    PROVE  TurnOK(s, q, Append(u, m), a)
<1> DEFINE v == Append(u, m)
<1>1. /\ Len(v) = Len(u) + 1 /\ Len(u) \in Nat /\ v[Len(u) + 1] = m
      /\ \A k \in 1..Len(u) : v[k] = u[k]
  BY AppendAny
<1> HIDE DEF v
<1>2. \A k \in 1..Len(v) : v[k] = m \/ (k \in 1..Len(u) /\ v[k] = u[k])
  BY <1>1
<1>3. OneTurn(q, v, a)
  <2>1. \A k \in 1..Len(v) : TurnToSend(v[k]) => k \in 1..Len(u) /\ v[k] = u[k]
    BY <1>2
  <2>2. QED BY <2>1 DEF TurnOK, OneTurn
<1>4. TurnsFit(s, q, v, a)
  BY <1>2 DEF TurnOK, TurnsFit
<1>5. AnswersFit(v)
  <2>1. SUFFICES ASSUME NEW k \in 1..Len(v)
                 PROVE  /\ v[k].type = "TransferAccept" => v[k].index = 1 /\ v[k].offset = 0
                        /\ v[k].type \notin {"TransferResume", "TransferPause"}
    BY DEF AnswersFit
  <2>2. CASE v[k] = m
    BY <2>2
  <2>3. CASE k \in 1..Len(u) /\ v[k] = u[k]
    BY <2>3 DEF TurnOK, AnswersFit
  <2>4. QED BY <1>2, <2>2, <2>3
<1>6. QED BY <1>3, <1>4, <1>5 DEF TurnOK, v

\* The session that may stream has the turn.
LEMMA TurnIsFree ==
    ASSUME NEW s, NEW q, NEW u, NEW a, TurnOK(s, q, u, a), s.reader.has, ~s.waiting
    PROVE  NoTurn(q, u, a)
BY DEF TurnOK, TurnsFit, TurnFits, Untouched, NoTurn

\* Whoever takes the turn is the only one to have it.
LEMMA TakeFromRecv ==
    ASSUME NEW s, NEW q \in Seq(Message), NEW u, NEW a, TurnOK(s, q, u, a),
           q # <<>>, TurnToRecv(Head(q))
    PROVE  NoTurn(Tail(q), u, FALSE) /\ TurnFits(Head(q), s, q)
<1>1. /\ Len(q) \in Nat \ {0} /\ Head(q) = q[1] /\ Len(Tail(q)) = Len(q) - 1
      /\ \A k \in 1..Len(Tail(q)) : Tail(q)[k] = q[k + 1]
  BY TailFacts
<1>2. 1 \in 1..Len(q) /\ TurnToRecv(q[1])
  BY <1>1
<1>3. \A k \in 1..Len(Tail(q)) : k + 1 \in 1..Len(q) /\ k + 1 # 1
  BY <1>1
<1>4. QED BY <1>1, <1>2, <1>3 DEF TurnOK, OneTurn, TurnsFit, NoTurn

LEMMA TakeFromSend ==
    ASSUME NEW s, NEW q, NEW u \in Seq(Message), NEW a, TurnOK(s, q, u, a),
           u # <<>>, TurnToSend(Head(u))
    PROVE  NoTurn(q, Tail(u), a) /\ TurnFits(Head(u), s, q)
<1>1. /\ Len(u) \in Nat \ {0} /\ Head(u) = u[1] /\ Len(Tail(u)) = Len(u) - 1
      /\ \A k \in 1..Len(Tail(u)) : Tail(u)[k] = u[k + 1]
  BY TailFacts
<1>2. 1 \in 1..Len(u) /\ TurnToSend(u[1])
  BY <1>1
<1>3. \A k \in 1..Len(Tail(u)) : k + 1 \in 1..Len(u) /\ k + 1 # 1
  BY <1>1
<1>4. QED BY <1>1, <1>2, <1>3 DEF TurnOK, OneTurn, TurnsFit, NoTurn

\* The turn is given to the other side.
LEMMA GiveToRecv ==
    ASSUME NEW t, NEW q \in Seq(Message), NEW u, NEW a, NoTurn(q, u, a), AnswersFit(u),
           NEW m, TurnToRecv(m) => TurnFits(m, t, Append(q, m)),
           t.status \in Opening => Untouched(t)
    PROVE  TurnOK(t, Append(q, m), u, a)
<1> DEFINE v == Append(q, m)
<1>1. /\ Len(v) = Len(q) + 1 /\ Len(q) \in Nat /\ v[Len(q) + 1] = m
      /\ \A k \in 1..Len(q) : v[k] = q[k]
  BY AppendAny
<1> HIDE DEF v
<1>2. \A k \in 1..Len(v) : TurnToRecv(v[k]) => k = Len(v) /\ v[k] = m
  BY <1>1 DEF NoTurn
<1>3. OneTurn(v, u, a)
  BY <1>2 DEF NoTurn, OneTurn
<1>4. TurnsFit(t, v, u, a)
  BY <1>2 DEF NoTurn, TurnsFit, v
<1>5. QED BY <1>3, <1>4 DEF TurnOK, v

LEMMA GiveToSend ==
    ASSUME NEW t, NEW q, NEW u \in Seq(Message), NEW a, NoTurn(q, u, a), AnswersFit(u),
           NEW m, TurnToSend(m), TurnFits(m, t, q),
           m.type = "TransferAccept" => m.index = 1 /\ m.offset = 0,
           t.status \in Opening => Untouched(t)
    PROVE  TurnOK(t, q, Append(u, m), a)
<1> DEFINE v == Append(u, m)
<1>1. /\ Len(v) = Len(u) + 1 /\ Len(u) \in Nat /\ v[Len(u) + 1] = m
      /\ \A k \in 1..Len(u) : v[k] = u[k]
  BY AppendAny
<1> HIDE DEF v
<1>2. \A k \in 1..Len(v) : v[k] = m \/ (k \in 1..Len(u) /\ v[k] = u[k])
  BY <1>1
<1>3. \A k \in 1..Len(v) : TurnToSend(v[k]) => k = Len(v) /\ v[k] = m
  BY <1>1 DEF NoTurn
<1>4. OneTurn(q, v, a)
  BY <1>3 DEF NoTurn, OneTurn
<1>5. TurnsFit(t, q, v, a)
  BY <1>3 DEF NoTurn, TurnsFit
<1>6. AnswersFit(v)
  <2>1. m.type \notin {"TransferResume", "TransferPause"}
    BY DEF TurnToSend
  <2>2. QED BY <1>2, <2>1 DEF AnswersFit
<1>7. QED BY <1>4, <1>5, <1>6 DEF TurnOK, v

\* One turn of the chunk loop, when nobody else has the turn.
LEMMA TurnLoop ==
    ASSUME NEW s, NEW q \in Seq(Message), NEW u, NEW a, NoTurn(q, u, a), AnswersFit(u),
           s.status \notin Opening, NEW t, NEW v, LoopTurn(s, q, t, v)
    PROVE  TurnOK(t, v, u, a)
<1>1. t.status \notin Opening
  BY DEF LoopTurn, Kept, LoopEnds, LoopReads, Opening
<1>2. CASE v = q
  BY <1>1, <1>2, NoTurnOK
<1>3. CASE LoopEnds(s, q, t, v)
  <2> DEFINE m == FileEnd(s.cur, s.reader.hashed)
  <2>1. m.type = "FileEnd" /\ m.index = s.cur
    BY DEF FileEnd
  <2> HIDE DEF m
  <2>2. TurnFits(m, t, Append(q, m))
    BY <1>3, <2>1 DEF TurnFits, LoopEnds
  <2>3. TurnOK(t, Append(q, m), u, a)
    BY <1>1, <2>2, GiveToRecv
  <2>4. v = Say(q, m)
    BY <1>3 DEF LoopEnds, m
  <2>5. QED BY <1>2, <2>3, <2>4 DEF Say
<1>4. CASE LoopReads(s, q, t, v)
  <2> DEFINE m == FileDataChunk(s.cur, s.reader.off, NextBlock(s.reader))
  <2>1. ~TurnToRecv(m)
    BY DEF FileDataChunk, TurnToRecv
  <2> HIDE DEF m
  <2>2. TurnOK(t, Append(q, m), u, a)
    BY <1>1, <2>1, GiveToRecv
  <2>3. v = Say(q, m)
    BY <1>4 DEF LoopReads, m
  <2>4. QED BY <1>2, <2>2, <2>3 DEF Say
<1>5. QED BY <1>2, <1>3, <1>4 DEF LoopTurn

LEMMA KeptTurn ==
    ASSUME NEW s, NEW t, Kept(s, t) PROVE SameTurn(s, t)
BY DEF Kept, SameTurn

LEMMA PartSame ==
    ASSUME NEW q \in Seq(Message) PROVE Part(q, q)
BY CutAll, CutIsPart

LEMMA TurnQuiet ==
    ASSUME "recv" \notin Controls, SessionInv, SessionInv', TurnInv, Quiet
    PROVE  TurnInv'
<1>1. /\ toRecv \in Seq(Message) /\ toSend \in Seq(Message)
      /\ toRecv' \in Seq(Message) /\ toSend' \in Seq(Message)
  BY DEF SessionInv, TypeOK
<1>2. SameTurn(sender, sender') /\ (receiver'.asking => receiver.asking)
  BY KeptTurn DEF Quiet, KeptR
<1>3. SameTurn(sender', sender') /\ Part(toRecv, toRecv) /\ Part(toSend, toSend)
  BY <1>1, PartSame DEF SameTurn
<1>4. TurnOK(sender', toRecv', toSend, receiver'.asking)
  <2>1. CASE Cut(toRecv, toRecv')
    <3>1. Part(toRecv, toRecv')
      BY <1>1, <2>1, CutIsPart
    <3>2. QED BY <1>1, <1>2, <1>3, <3>1, TurnPart DEF TurnInv
  <2>2. CASE toRecv # <<>> /\ toRecv' = Tail(toRecv)
    <3>1. Part(toRecv, toRecv')
      BY <1>1, <2>2, TailIsPart
    <3>2. QED BY <1>1, <1>2, <1>3, <3>1, TurnPart DEF TurnInv
  <2>3. CASE \E m \in Message : /\ m.type \in {"TransferPause", "TransferCancel"}
                                 /\ toRecv' = Append(toRecv, m)
    <3>1. PICK m \in Message : /\ m.type \in {"TransferPause", "TransferCancel"}
                              /\ toRecv' = Append(toRecv, m)
      BY <2>3
    <3>2. TurnOK(sender', toRecv, toSend, receiver'.asking)
      BY <1>1, <1>2, <1>3, TurnPart DEF TurnInv
    <3>3. ~TurnToRecv(m) /\ ~IsStream(m)
      BY <3>1 DEF TurnToRecv, IsStream
    <3>4. QED BY <1>1, <3>1, <3>2, <3>3, TurnAppendRecv
  <2>4. QED BY <2>1, <2>2, <2>3 DEF Quiet, QuietToRecv
<1>5. CASE Part(toSend, toSend')
  <2>1. Part(toRecv', toRecv')
    BY <1>1, PartSame
  <2>2. QED BY <1>1, <1>3, <1>4, <1>5, <2>1, TurnPart DEF TurnInv
<1>6. CASE \E m \in Message : /\ m.type \in {"TransferCancel", "TransferReject"}
                               /\ toSend' = Append(toSend, m)
  <2>1. PICK m \in Message : /\ m.type \in {"TransferCancel", "TransferReject"}
                            /\ toSend' = Append(toSend, m)
    BY <1>6
  <2>2. ~TurnToSend(m) /\ m.type \notin {"TransferAccept", "TransferResume", "TransferPause"}
    BY <2>1 DEF TurnToSend
  <2>3. TurnOK(sender', toRecv', Append(toSend, m), receiver'.asking)
    BY <1>1, <1>4, <2>2, TurnAppendSend
  <2>4. QED BY <2>1, <2>3 DEF TurnInv
<1>7. QED BY <1>5, <1>6 DEF Quiet, QuietToSend

LEMMA TurnConnects ==
    ASSUME SessionInv, TurnInv, SocketConnected PROVE TurnInv'
<1>1. /\ Early /\ sender \in Sender /\ receiver \in Receiver
      /\ sender' = WithStatus(sender, "Handshaking")
      /\ receiver' = WithStatus(receiver, "Handshaking")
      /\ toRecv' = <<Signal("HandshakeReq")>> /\ toSend' = toSend
  BY SenderHas DEF SocketConnected, Early
<1>2. toSend = <<>> /\ sender.status \in Opening
  BY <1>1 DEF SessionInv, EarlyOK, Opening
<1>3. ~receiver.asking
  BY <1>2 DEF SessionInv, HandshakeFirst
<1>4. /\ sender'.cur = sender.cur /\ sender'.waiting = sender.waiting
      /\ sender'.reader = sender.reader /\ receiver'.asking = receiver.asking
  BY <1>1 DEF WithStatus, Sender, Receiver
<1>5. Untouched(sender')
  BY <1>2, <1>4 DEF TurnInv, TurnOK, Untouched
<1> DEFINE m == Signal("HandshakeReq")
<1>6. m.type = "HandshakeReq"
  BY DEF Signal
<1> HIDE DEF m
<1>7. <<>> \in Seq(Message) /\ toRecv' = Append(<<>>, m)
  BY <1>1 DEF m
<1>8. NoTurn(<<>>, toSend', receiver'.asking) /\ AnswersFit(toSend')
  BY <1>1, <1>2, <1>3, <1>4 DEF NoTurn, AnswersFit
<1>9. NoStream(Append(<<>>, m))
  <2>1. /\ Len(Append(<<>>, m)) = 1 /\ Append(<<>>, m)[1] = m
    OBVIOUS
  <2>2. QED BY <1>6, <2>1 DEF NoStream, IsStream
<1>10. TurnFits(m, sender', Append(<<>>, m))
  BY <1>5, <1>6, <1>9 DEF TurnFits
<1>11. QED BY <1>5, <1>7, <1>8, <1>10, GiveToRecv DEF TurnInv

LEMMA TurnHandshakeResp ==
    ASSUME SessionInv, TurnInv, OnHandshakeResp PROVE TurnInv'
<1> DEFINE m == Signal("TransferOffer")
<1>1. /\ toSend # <<>> /\ Head(toSend).type = "HandshakeResp" /\ toSend' = Tail(toSend)
      /\ UNCHANGED receiver /\ SendToReceiver(<<m>>)
      /\ sender' = WithStatus(sender, "WaitingApproval")
  BY DEF OnHandshakeResp, SenderHandles, SenderGets
<1>2. sender \in Sender /\ toRecv \in Seq(Message) /\ toSend \in Seq(Message)
  BY SenderHas
<1>3. toRecv' = Say(toRecv, m)
  BY <1>1, <1>2, ConcatOne, AnswerMessages DEF SendToReceiver, Say
<1>4. NoTurn(toRecv, toSend', receiver'.asking) /\ Untouched(sender) /\ NoStream(toRecv)
  <2>1. TurnToSend(Head(toSend))
    BY <1>1 DEF TurnToSend
  <2>2. QED BY <1>1, <1>2, <2>1, TakeFromSend DEF TurnInv, TurnFits
<1>5. AnswersFit(toSend')
  BY <1>1, <1>2, TailIsPart, TailFacts, AnswersFitPart DEF TurnInv, TurnOK
<1>6. Untouched(sender')
  BY <1>1, <1>2, <1>4 DEF Untouched, WithStatus, Sender
<1>7. m.type = "TransferOffer"
  BY DEF Signal
<1> HIDE DEF m
<1>8. TurnFits(m, sender', Append(toRecv, m))
  <2>1. \A k \in 1..Len(Append(toRecv, m)) :
           Append(toRecv, m)[k] = m
           \/ (k \in 1..Len(toRecv) /\ Append(toRecv, m)[k] = toRecv[k])
    BY <1>2, AppendAny
  <2>2. NoStream(Append(toRecv, m))
    BY <1>4, <1>7, <2>1 DEF NoStream, IsStream
  <2>3. QED BY <1>6, <1>7, <2>2 DEF TurnFits
<1>9. TurnOK(sender', Append(toRecv, m), toSend', receiver'.asking)
  BY <1>2, <1>4, <1>5, <1>6, <1>8, GiveToRecv
<1>10. TurnOK(sender', toRecv, toSend', receiver'.asking)
  BY <1>4, <1>5, <1>6, NoTurnOK
<1>11. QED BY <1>3, <1>9, <1>10 DEF TurnInv, Say

\* The sender starts a file at a packet that has the turn, and only there: the
\* acceptance, for the first file, or the good acknowledgement.
LEMMA SenderTurns ==
    ASSUME SessionInv, TurnInv, toSend # <<>>,
           \/ Head(toSend).type \in {"TransferAccept", "TransferResume"}
           \/ Head(toSend).type = "FileAck" /\ Head(toSend).ok
    PROVE  /\ NoTurn(toRecv, Tail(toSend), receiver.asking)
           /\ AnswersFit(Tail(toSend)) /\ Head(toSend).type # "TransferResume"
           /\ TurnFits(Head(toSend), sender, toRecv)
           /\ Head(toSend).type = "TransferAccept" =>
                 Head(toSend).index = 1 /\ Head(toSend).offset = 0
<1>1. toSend \in Seq(Message)
  BY SenderHas
<1>2. 1 \in 1..Len(toSend) /\ Head(toSend) = toSend[1]
  BY <1>1, TailFacts
<1>3. /\ Head(toSend).type # "TransferResume"
      /\ Head(toSend).type = "TransferAccept" =>
            Head(toSend).index = 1 /\ Head(toSend).offset = 0
  BY <1>2 DEF TurnInv, TurnOK, AnswersFit
<1>4. TurnToSend(Head(toSend))
  BY <1>3 DEF TurnToSend
<1>5. AnswersFit(Tail(toSend))
  BY <1>1, TailIsPart, TailFacts, AnswersFitPart DEF TurnInv, TurnOK
<1>6. QED BY <1>1, <1>3, <1>4, <1>5, TakeFromSend DEF TurnInv

LEMMA TurnStarts ==
    ASSUME SessionInv, TurnInv, SenderStarts PROVE TurnInv'
<1>1. PICK s \in Sender, i \in Nat \ {0}, off \in Nat :
             /\ s.status \notin Opening /\ Starts(s, i, off)
             /\ \/ Head(toSend).type \in {"TransferAccept", "TransferResume"}
                \/ Head(toSend).type = "FileAck" /\ Head(toSend).ok
  BY DEF SenderStarts
<1>2. /\ toRecv \in Seq(Message) /\ toSend # <<>> /\ toSend' = Tail(toSend)
      /\ UNCHANGED receiver
  BY SenderHas DEF SenderStarts
<1>3. NoTurn(toRecv, toSend', receiver.asking) /\ AnswersFit(toSend')
  BY <1>1, <1>2, SenderTurns
<1>4. ASSUME NEW m \in Message, ~TurnToRecv(m)
      PROVE  NoTurn(Say(toRecv, m), toSend', receiver.asking) /\ Say(toRecv, m) \in Seq(Message)
  <2> DEFINE v == Append(toRecv, m)
  <2>1. v \in Seq(Message) /\ \A k \in 1..Len(v) :
              v[k] = m \/ (k \in 1..Len(toRecv) /\ v[k] = toRecv[k])
    BY <1>2, AppendFacts
  <2> HIDE DEF v
  <2>2. NoTurn(v, toSend', receiver.asking)
    BY <1>3, <1>4, <2>1 DEF NoTurn
  <2>3. QED BY <1>2, <1>3, <2>1, <2>2 DEF Say, v
<1>5. CASE /\ i \in Files
           /\ LoopTurn(Started(s, i, off), Say(toRecv, FileStart(i)), sender', toRecv')
  <2>1. FileStart(i) \in Message /\ ~TurnToRecv(FileStart(i))
    BY <1>5 DEF FileStart, Message, TurnToRecv
  <2>2. Started(s, i, off).status \notin Opening
    BY <1>1, <1>5, StartedFacts
  <2>3. QED BY <1>2, <1>3, <1>4, <1>5, <2>1, <2>2, TurnLoop DEF TurnInv
<1>6. CASE sender'.status = "Failed" /\ toRecv' = toRecv
  BY <1>2, <1>3, <1>6, NoTurnOK DEF TurnInv, Opening
<1>7. CASE sender'.status = "Completed" /\ toRecv' = Say(toRecv, Signal("TransferComplete"))
  <2>1. ~TurnToRecv(Signal("TransferComplete"))
    BY DEF Signal, TurnToRecv
  <2>2. NoTurn(toRecv', toSend', receiver.asking)
    BY <1>4, <1>7, <2>1, AnswerMessages
  <2>3. QED BY <1>2, <1>3, <1>7, <2>2, NoTurnOK DEF TurnInv, Opening
<1>8. QED BY <1>1, <1>5, <1>6, <1>7 DEF Starts

LEMMA TurnLoops ==
    ASSUME SessionInv, SessionInv', TurnInv, SenderLoops PROVE TurnInv'
<1>1. PICK s \in Sender, q \in Seq(Message) :
             /\ Kept(sender, s)
             /\ \/ q = toRecv
                \/ \E m \in Message : m.type = "TransferResume" /\ q = Say(toRecv, m)
             /\ LoopTurn(s, q, sender', toRecv')
  BY DEF SenderLoops
<1>2. /\ toRecv \in Seq(Message) /\ toSend \in Seq(Message)
      /\ UNCHANGED <<receiver, toSend>>
  BY SenderHas DEF SenderLoops
<1>3. TurnOK(s, toRecv, toSend, receiver.asking)
  BY <1>1, <1>2, KeptTurn, PartSame, TurnPart DEF TurnInv
<1>4. TurnOK(s, q, toSend, receiver.asking)
  <2>1. ASSUME NEW m \in Message, m.type = "TransferResume", q = Say(toRecv, m)
        PROVE  TurnOK(s, q, toSend, receiver.asking)
    <3>1. ~TurnToRecv(m) /\ ~IsStream(m)
      BY <2>1 DEF TurnToRecv, IsStream
    <3>2. QED BY <1>2, <1>3, <2>1, <3>1, TurnAppendRecv DEF Say
  <2>2. QED BY <1>1, <1>3, <2>1
<1>5. CASE Kept(s, sender') /\ toRecv' = q
  BY <1>1, <1>2, <1>4, <1>5, KeptTurn, PartSame, TurnPart DEF TurnInv
<1>6. CASE LoopEnds(s, q, sender', toRecv') \/ LoopReads(s, q, sender', toRecv')
  <2>1. s.reader.has /\ ~s.waiting /\ s.status \notin Opening
    BY <1>6 DEF LoopEnds, LoopReads, Opening
  <2>2. NoTurn(q, toSend, receiver.asking) /\ AnswersFit(toSend)
    BY <1>4, <2>1, TurnIsFree DEF TurnOK
  <2>3. QED BY <1>1, <1>2, <2>1, <2>2, TurnLoop DEF TurnInv
<1>7. QED BY <1>1, <1>5, <1>6 DEF LoopTurn

\* A packet handler of the receiver that passes no turn.
LEMMA TurnTakes ==
    ASSUME SessionInv, SessionInv', TurnInv, NEW type, Takes(type),
           receiver'.asking => receiver.asking,
           \/ UNCHANGED toSend
           \/ \E i : toSend' = Say(toSend, FileAck(i, FALSE))
    PROVE  TurnInv'
<1>1. /\ toRecv \in Seq(Message) /\ toSend \in Seq(Message)
      /\ toRecv' \in Seq(Message) /\ toSend' \in Seq(Message)
  BY DEF SessionInv, TypeOK
<1>2. toRecv # <<>> /\ Cut(Tail(toRecv), toRecv') /\ UNCHANGED sender
  BY DEF Takes
<1>3. Part(toRecv, toRecv')
  <2>1. PICK k \in 0..Len(Tail(toRecv)) : toRecv' = SubSeq(Tail(toRecv), 1, k)
    BY <1>2 DEF Cut
  <2>2. /\ Len(Tail(toRecv)) = Len(toRecv) - 1 /\ Len(toRecv) \in Nat \ {0}
        /\ Tail(toRecv) \in Seq(Message)
        /\ \A p \in 1..Len(Tail(toRecv)) : Tail(toRecv)[p] = toRecv[p + 1]
    BY <1>1, <1>2, TailFacts
  <2>3. Len(toRecv') = k /\ \A p \in 1..k : toRecv'[p] = Tail(toRecv)[p]
    BY <2>1, <2>2, PrefixFacts
  <2>4. Len(toRecv') + 1 <= Len(toRecv) /\ \A p \in 1..Len(toRecv') : toRecv'[p] = toRecv[p + 1]
    BY <2>2, <2>3
  <2>5. QED BY <2>4 DEF Part
<1>4. SameTurn(sender, sender') /\ Part(toSend, toSend)
  BY <1>1, <1>2, PartSame DEF SameTurn
<1>5. TurnOK(sender', toRecv', toSend, receiver'.asking)
  BY <1>1, <1>3, <1>4, TurnPart DEF TurnInv
<1>6. ASSUME NEW i PROVE TurnOK(sender', toRecv', Append(toSend, FileAck(i, FALSE)), receiver'.asking)
  <2>1. /\ ~TurnToSend(FileAck(i, FALSE))
        /\ FileAck(i, FALSE).type \notin {"TransferAccept", "TransferResume", "TransferPause"}
    BY DEF FileAck, TurnToSend
  <2>2. QED BY <1>1, <1>5, <2>1, TurnAppendSend
<1>7. QED BY <1>5, <1>6 DEF TurnInv, Say

\* A packet handler of the receiver that takes the turn.
LEMMA TurnTaken ==
    ASSUME SessionInv, TurnInv, NEW type \in {"HandshakeReq", "TransferOffer", "FileEnd"},
           Takes(type), toRecv' \in Seq(Message)
    PROVE  /\ NoTurn(toRecv', toSend, FALSE) /\ AnswersFit(toSend)
           /\ TurnFits(Head(toRecv), sender, toRecv)
           /\ type # "FileEnd" => Untouched(sender) /\ NoStream(toRecv')
<1>1. /\ toRecv \in Seq(Message) /\ toSend \in Seq(Message) /\ Part(toSend, toSend)
      /\ toRecv # <<>> /\ Head(toRecv).type = type /\ Cut(Tail(toRecv), toRecv')
  BY SenderHas DEF Takes
<1>2. Tail(toRecv) \in Seq(Message) /\ Part(toRecv, Tail(toRecv))
  BY <1>1, TailFacts, TailIsPart
<1>3. Part(Tail(toRecv), toRecv')
  BY <1>1, <1>2, CutIsPart
<1>4. TurnToRecv(Head(toRecv))
  BY <1>1 DEF TurnToRecv
<1>5. NoTurn(Tail(toRecv), toSend, FALSE) /\ TurnFits(Head(toRecv), sender, toRecv)
  BY <1>1, <1>4, TakeFromRecv DEF TurnInv
<1>6. NoTurn(toRecv', toSend, FALSE)
  BY <1>1, <1>2, <1>3, <1>5, NoTurnPart
<1>7. ASSUME type # "FileEnd" PROVE Untouched(sender) /\ NoStream(toRecv')
  <2>1. Untouched(sender) /\ NoStream(toRecv)
    BY <1>1, <1>5, <1>7 DEF TurnFits
  <2>2. NoStream(toRecv')
    BY <1>1, <1>2, <1>3, <2>1, NoStreamPart
  <2>3. QED BY <2>1, <2>2
<1>8. QED BY <1>5, <1>6, <1>7 DEF TurnInv, TurnOK

\* Giving the turn to the sender, if the link carries it there.
LEMMA TurnSaid ==
    ASSUME SessionInv, NoTurn(toRecv', toSend, FALSE), AnswersFit(toSend),
           NEW m, TurnToSend(m), TurnFits(m, sender', toRecv'),
           m.type = "TransferAccept" => m.index = 1 /\ m.offset = 0,
           sender'.status \in Opening => Untouched(sender'),
           toSend' = Say(toSend, m), ~receiver'.asking
    PROVE  TurnInv'
<1>1. toSend \in Seq(Message) /\ NoTurn(toRecv', toSend, receiver'.asking)
  BY SenderHas DEF NoTurn
<1>2. TurnOK(sender', toRecv', Append(toSend, m), receiver'.asking)
  BY <1>1, GiveToSend
<1>3. TurnOK(sender', toRecv', toSend, receiver'.asking)
  BY <1>1, NoTurnOK
<1>4. QED BY <1>2, <1>3 DEF TurnInv, Say

LEMMA TurnOpening ==
    ASSUME TurnInv, UNCHANGED sender PROVE sender'.status \in Opening => Untouched(sender')
BY DEF TurnInv, TurnOK, Untouched

LEMMA TurnMoves ==
    ASSUME SessionInv, SessionInv', TurnInv, ReceiverMoves PROVE TurnInv'
<1>1. toRecv' \in Seq(Message) /\ toSend' \in Seq(Message) /\ toSend \in Seq(Message)
  BY DEF SessionInv, TypeOK
<1>2. CASE OnHandshakeReq
  <2> DEFINE m == Signal("HandshakeResp")
  <2>1. /\ Takes("HandshakeReq") /\ receiver'.asking = receiver.asking
        /\ toSend' = Say(toSend, m)
    BY <1>2, HandshakeReqDoes
  <2>2. UNCHANGED sender /\ ~receiver'.asking
    BY <2>1 DEF Takes
  <2>3. /\ NoTurn(toRecv', toSend, FALSE) /\ AnswersFit(toSend)
        /\ Untouched(sender') /\ NoStream(toRecv')
    BY <1>1, <2>1, <2>2, TurnTaken DEF Untouched
  <2>4. m.type = "HandshakeResp"
    BY DEF Signal
  <2> HIDE DEF m
  <2>5. TurnToSend(m) /\ TurnFits(m, sender', toRecv')
    BY <2>3, <2>4 DEF TurnToSend, TurnFits
  <2>6. QED BY <2>1, <2>2, <2>3, <2>4, <2>5, TurnSaid
<1>3. ASSUME NoTurn(toRecv', toSend, FALSE), AnswersFit(toSend), ~receiver'.asking,
             Untouched(sender'), NoStream(toRecv'),
             toSend' = Say(toSend, TransferAccept(1, 0))
      PROVE  TurnInv'
  <2> DEFINE m == TransferAccept(1, 0)
  <2>1. m.type = "TransferAccept" /\ m.index = 1 /\ m.offset = 0
    BY DEF TransferAccept
  <2> HIDE DEF m
  <2>2. TurnToSend(m) /\ TurnFits(m, sender', toRecv')
    BY <1>3, <2>1 DEF TurnToSend, TurnFits
  <2>3. toSend' = Say(toSend, m)
    BY <1>3 DEF m
  <2>4. QED BY <1>3, <2>1, <2>2, <2>3, TurnSaid
<1>4. CASE OnTransferOffer
  <2>1. /\ Takes("TransferOffer")
        /\ \/ ~receiver'.asking /\ toSend' = Say(toSend, TransferAccept(1, 0))
           \/ receiver'.asking /\ UNCHANGED toSend
    BY <1>4, TransferOfferDoes
  <2>2. UNCHANGED sender
    BY <2>1 DEF Takes
  <2>3. /\ NoTurn(toRecv', toSend, FALSE) /\ AnswersFit(toSend)
        /\ Untouched(sender') /\ NoStream(toRecv')
    BY <1>1, <2>1, <2>2, TurnTaken DEF Untouched
  <2>4. CASE UNCHANGED toSend
    BY <2>3, <2>4 DEF NoTurn, TurnInv, TurnOK, OneTurn, TurnsFit
  <2>5. QED BY <1>3, <2>1, <2>3, <2>4
<1>5. CASE UserAccepts
  <2>1. /\ receiver.asking /\ UNCHANGED <<sender, toRecv>> /\ ~receiver'.asking
        /\ toSend' = Say(toSend, TransferAccept(1, 0))
    BY <1>5, UserAcceptsDoes
  <2>2. /\ NoTurn(toRecv', toSend, FALSE) /\ AnswersFit(toSend)
        /\ Untouched(sender') /\ NoStream(toRecv')
    BY <2>1 DEF TurnInv, TurnOK, OneTurn, TurnsFit, NoTurn, Untouched
  <2>3. QED BY <1>3, <2>1, <2>2
<1>6. CASE OnFileEnd
  <2> DEFINE i == Head(toRecv).index
             m == FileAck(i, TRUE)
  <2>1. /\ Takes("FileEnd") /\ ~receiver'.asking
        /\ \/ UNCHANGED toSend
           \/ toSend' = Say(toSend, m)
           \/ toSend' = Say(toSend, FileAck(i, FALSE))
    BY <1>6, FileEndDoes
  <2>2. CASE UNCHANGED toSend \/ toSend' = Say(toSend, FileAck(i, FALSE))
    BY <2>1, <2>2, TurnTakes
  <2>3. CASE toSend' = Say(toSend, m)
    <3>1. UNCHANGED sender /\ Head(toRecv).type = "FileEnd"
      BY <2>1 DEF Takes
    <3>2. /\ NoTurn(toRecv', toSend, FALSE) /\ AnswersFit(toSend)
          /\ sender'.waiting /\ i = sender'.cur
      BY <1>1, <2>1, <3>1, TurnTaken DEF TurnFits
    <3>3. m.type = "FileAck" /\ m.index = i /\ m.ok
      BY DEF FileAck
    <3> HIDE DEF m, i
    <3>4. TurnToSend(m) /\ TurnFits(m, sender', toRecv')
      BY <3>2, <3>3 DEF TurnToSend, TurnFits
    <3>5. sender'.status \in Opening => Untouched(sender')
      BY <3>1, TurnOpening
    <3>6. QED BY <2>1, <2>3, <3>2, <3>3, <3>4, <3>5, TurnSaid
  <2>4. QED BY <2>1, <2>2, <2>3
<1>7. CASE OnFileStart
  <2>1. /\ Takes("FileStart") /\ ~receiver'.asking
        /\ UNCHANGED toSend \/ \E i : toSend' = Say(toSend, FileAck(i, FALSE))
    BY <1>7, FileStartDoes DEF Opened, NotOpened
  <2>2. QED BY <2>1, TurnTakes
<1>8. CASE OnFileDataChunk
  BY <1>8, FileDataChunkDoes, TurnTakes
<1>9. CASE OnTransferComplete
  BY <1>9, TransferCompleteDoes, TurnTakes
<1>10. CASE ReceiverCrashes
  <2>1. /\ receiver' = NewReceiver /\ toRecv' = <<>> /\ Cut(toSend, toSend')
        /\ UNCHANGED sender
    BY <1>10, CrashDoes
  <2>2. ~receiver'.asking
    BY <2>1, NewReceiverFacts
  <2>3. toRecv \in Seq(Message) /\ Part(toRecv, toRecv') /\ Part(toSend, toSend')
    BY <1>1, <2>1, SenderHas, CutIsPart
  <2>4. SameTurn(sender, sender')
    BY <2>1 DEF SameTurn
  <2>5. QED BY <1>1, <2>2, <2>3, <2>4, TurnPart DEF TurnInv
<1>11. QED BY <1>2, <1>4, <1>5, <1>6, <1>7, <1>8, <1>9, <1>10 DEF ReceiverMoves

\* TurnInv is inductive.
LEMMA TurnKept ==
    ASSUME "recv" \notin Controls, ByButton = TRUE, SessionInv, SessionInv', TurnInv,
           [Next]_vars
    PROVE  TurnInv'
BY StepCases, TurnQuiet, TurnConnects, TurnHandshakeResp, TurnStarts, TurnLoops, TurnMoves

LEMMA TurnInit == ASSUME Init PROVE TurnInv
BY DEF Init, TurnInv, TurnOK, OneTurn, TurnsFit, AnswersFit, Untouched, NoReader, NewReceiver

LEMMA TurnInvHolds ==
    ASSUME "recv" \notin Controls, NoTrailingHole, ByButton = TRUE
    PROVE  Spec => []TurnInv
<1>1. Init => TurnInv
  BY TurnInit
<1>2. SessionInv /\ SessionInv' /\ TurnInv /\ [Next]_vars => TurnInv'
  BY TurnKept
<1>3. QED BY <1>1, <1>2, SessionInvHolds, PTL DEF Spec

\* A good acknowledgement under way is for the file the sender waits for, so
\* the index that nothing compares (TransferSession.cpp:452-467) is the right
\* one, if the receiving user has no Pause button that lets the sender jump.
THEOREM AcksAreForTheCurrentFile ==
    ASSUME "recv" \notin Controls, NoTrailingHole, ByButton = TRUE
    PROVE  Spec => []AckIsForCurrentFile
<1>1. SessionInv /\ TurnInv => AckIsForCurrentFile
  BY DEF TurnInv, TurnOK, TurnsFit, TurnToSend, TurnFits, AckIsForCurrentFile
<1>2. QED BY <1>1, SessionInvHolds, TurnInvHolds, PTL

-----------------------------------------------------------------------------
(* CompletedMeansDelivered.                                                *)

LEMMA DeliveredKept ==
    ASSUME KeepsFinal, NEW i, DeliveredOn(disk, i) PROVE DeliveredOn(disk', i)
BY DEF KeepsFinal, DeliveredOn

\* A commit delivers the file that the end of file names, the current one.
LEMMA CommitDelivers ==
    ASSUME SessionInv, TurnInv, toRecv # <<>>, Head(toRecv).type = "FileEnd",
           HonestPacket(Head(toRecv)), Head(toRecv) \in Message,
           receiver.writer.has, Verified(receiver.writer, Head(toRecv).hash),
           TailsReachDisk, NEW d \in Closed(disk, receiver.writer),
           Renamable(d, receiver.writer)
    PROVE  /\ sender.waiting /\ Head(toRecv).index = sender.cur
           /\ receiver.writer.target[1] = RelPath[sender.cur]
           /\ Committed(d, receiver.writer).final =
                 Put(disk.final, receiver.writer.target, Source(sender.cur))
<1> DEFINE m == Head(toRecv)
           w == receiver.writer
           i == receiver.recvIndex
<1>1. /\ receiver \in Receiver /\ QueueOK(toRecv, receiver) /\ WriterOK(w, i, disk)
      /\ DiskType(disk) /\ HoldsCopies(disk) /\ toRecv \in Seq(Message)
  BY ReceiverKnows
<1>2. w \in Writer /\ i \in Files
  BY <1>1 DEF Receiver
<1>3. m.index = i
  BY <1>1, HeadIsOwned DEF IsData
<1>4. Verified(w, Source(i))
  BY <1>3 DEF HonestPacket
<1>5. /\ Committed(d, w).final = Put(disk.final, w.target, Source(i))
      /\ w.target[1] = RelPath[i]
  <2>1. DiskType(d) /\ HoldsCopies(d) /\ WriterOK(CloseWriter(w), i, d)
    BY <1>1, <1>2, ClosingFacts
  <2>2. /\ Committed(d, w).final = Put(d.final, w.target, d.partial[w.partial])
        /\ d.partial[w.partial] \in Copies(i) /\ w.target[1] = RelPath[i]
    BY <1>2, <1>4, <2>1, CommitFacts
  <2>3. d.partial[w.partial] = Source(i)
    BY <2>2, TailsMakeCopiesExact
  <2>4. d.final = disk.final
    BY <1>1, LossKeepsFinal
  <2>5. QED BY <2>2, <2>3, <2>4
<1>6. m = toRecv[1] /\ 1 \in 1..Len(toRecv) /\ TurnToRecv(m)
  BY <1>1, TailFacts DEF TurnToRecv
<1>7. sender.waiting /\ m.index = sender.cur
  BY <1>6 DEF TurnInv, TurnOK, TurnsFit, TurnFits
<1>8. QED BY <1>3, <1>5, <1>7

Complete(q) == \E k \in 1..Len(q) : q[k].type = "TransferComplete"

\* Nothing new is acknowledged that is not delivered, and nobody says more than
\* was said that the transfer is complete.
LEMMA BehindOld ==
    ASSUME BehindInv, KeepsFinal, sender'.cur = sender.cur,
           \A k \in 1..Len(toSend') :
              toSend'[k].type = "FileAck" /\ toSend'[k].ok =>
                 \/ DeliveredOn(disk', toSend'[k].index)
                 \/ \E j \in 1..Len(toSend) : toSend'[k] = toSend[j],
           sender'.status = "Completed" => sender.status = "Completed",
           receiver'.status = "Completed" => receiver.status = "Completed" \/ Complete(toRecv),
           Complete(toRecv') => Complete(toRecv)
    PROVE  BehindInv'
<1>1. \A i \in 1..(sender'.cur - 1) : DeliveredOn(disk', i)
  BY DeliveredKept DEF BehindInv, BehindOK
<1>2. \A k \in 1..Len(toSend') :
         toSend'[k].type = "FileAck" /\ toSend'[k].ok => DeliveredOn(disk', toSend'[k].index)
  BY DeliveredKept DEF BehindInv, BehindOK
<1>3. "Completed" \in {sender'.status, receiver'.status} \/ Complete(toRecv') =>
         \A i \in Files : DeliveredOn(disk', i)
  BY DeliveredKept DEF BehindInv, BehindOK, Complete
<1>4. QED BY <1>1, <1>2, <1>3 DEF BehindInv, BehindOK, Complete

LEMMA PartHolds ==
    ASSUME NEW u \in Seq(Message), NEW w \in Seq(Message), Part(u, w)
    PROVE  /\ \A k \in 1..Len(w) : \E j \in 1..Len(u) : w[k] = u[j]
           /\ Complete(w) => Complete(u)
<1>1. \A k \in 1..Len(w) : \E j \in 1..Len(u) : w[k] = u[j]
  BY PartFacts
<1>2. QED BY <1>1 DEF Complete

LEMMA AppendHolds ==
    ASSUME NEW u \in Seq(Message), NEW m
    PROVE  /\ \A k \in 1..Len(Append(u, m)) :
                 Append(u, m)[k] = m \/ \E j \in 1..Len(u) : Append(u, m)[k] = u[j]
           /\ m.type # "TransferComplete" /\ Complete(Append(u, m)) => Complete(u)
<1> DEFINE v == Append(u, m)
<1>1. /\ Len(v) = Len(u) + 1 /\ Len(u) \in Nat /\ v[Len(u) + 1] = m
      /\ \A k \in 1..Len(u) : v[k] = u[k]
  BY AppendAny
<1> HIDE DEF v
<1>2. \A k \in 1..Len(v) : v[k] = m \/ \E j \in 1..Len(u) : v[k] = u[j]
  BY <1>1
<1>3. QED BY <1>2 DEF Complete, v

\* What is in the queue after a handler of the receiver was in it before.
LEMMA TakesPart ==
    ASSUME SessionInv, NEW type, Takes(type)
    PROVE  /\ Part(toRecv, toRecv') /\ toRecv' \in Seq(Message)
           /\ \A k \in 1..Len(toRecv') : \E j \in 1..Len(toRecv) : toRecv'[k] = toRecv[j]
           /\ Complete(toRecv') => Complete(toRecv)
<1>1. toRecv \in Seq(Message) /\ toRecv # <<>> /\ Cut(Tail(toRecv), toRecv')
  BY SenderHas DEF Takes
<1>2. PICK k \in 0..Len(Tail(toRecv)) : toRecv' = SubSeq(Tail(toRecv), 1, k)
  BY <1>1 DEF Cut
<1>3. /\ Len(Tail(toRecv)) = Len(toRecv) - 1 /\ Len(toRecv) \in Nat \ {0}
      /\ Tail(toRecv) \in Seq(Message)
      /\ \A p \in 1..Len(Tail(toRecv)) : Tail(toRecv)[p] = toRecv[p + 1]
  BY <1>1, TailFacts
<1>4. /\ Len(toRecv') = k /\ toRecv' \in Seq(Message)
      /\ \A p \in 1..k : toRecv'[p] = Tail(toRecv)[p]
  BY <1>2, <1>3, PrefixFacts
<1>5. Len(toRecv') + 1 <= Len(toRecv) /\ \A p \in 1..Len(toRecv') : toRecv'[p] = toRecv[p + 1]
  BY <1>3, <1>4
<1>6. Part(toRecv, toRecv')
  BY <1>5 DEF Part
<1>7. QED BY <1>1, <1>4, <1>6, PartHolds

\* What a turn of the chunk loop does to the queue, and what it keeps.
LEMMA LoopKeeps ==
    ASSUME NEW s, NEW q \in Seq(Message), NEW t, NEW v, LoopTurn(s, q, t, v)
    PROVE  /\ t.cur = s.cur
           /\ t.status = "Completed" => s.status = "Completed"
           /\ Complete(v) => Complete(q)
<1>1. CASE Kept(s, t) /\ v = q
  BY <1>1 DEF Kept, Opening
<1>2. CASE LoopEnds(s, q, t, v)
  <2> DEFINE m == FileEnd(s.cur, s.reader.hashed)
  <2>1. m.type # "TransferComplete"
    BY DEF FileEnd
  <2>2. v = Say(q, m) /\ t.cur = s.cur /\ t.status = s.status
    BY <1>2 DEF LoopEnds
  <2> HIDE DEF m
  <2>3. QED BY <2>1, <2>2, AppendHolds DEF Say
<1>3. CASE LoopReads(s, q, t, v)
  <2> DEFINE m == FileDataChunk(s.cur, s.reader.off, NextBlock(s.reader))
  <2>1. m.type # "TransferComplete"
    BY DEF FileDataChunk
  <2>2. v = Say(q, m) /\ t.cur = s.cur /\ t.status = s.status
    BY <1>3 DEF LoopReads
  <2> HIDE DEF m
  <2>3. QED BY <2>1, <2>2, AppendHolds DEF Say
<1>4. QED BY <1>1, <1>2, <1>3 DEF LoopTurn

\* What a step of the sender alone does to the queue and to its status.
LEMMA SayKeeps ==
    ASSUME NEW q \in Seq(Message), NEW m, m.type # "TransferComplete"
    PROVE  Complete(Say(q, m)) => Complete(q)
BY AppendHolds DEF Say

LEMMA BehindQuiet ==
    ASSUME SessionInv, SessionInv', BehindInv, Quiet PROVE BehindInv'
<1>1. /\ toRecv \in Seq(Message) /\ toSend \in Seq(Message)
      /\ toRecv' \in Seq(Message) /\ toSend' \in Seq(Message)
  BY DEF SessionInv, TypeOK
<1>2. KeepsFinal
  BY QuietFinal DEF KeepsFinal
<1>3. /\ sender'.cur = sender.cur
      /\ sender'.status = "Completed" => sender.status = "Completed"
      /\ receiver'.status = "Completed" => receiver.status = "Completed"
  BY DEF Quiet, Kept, KeptR, Opening
<1>4. Complete(toRecv') => Complete(toRecv)
  <2>1. CASE Cut(toRecv, toRecv')
    BY <1>1, <2>1, CutIsPart, PartHolds
  <2>2. CASE toRecv # <<>> /\ toRecv' = Tail(toRecv)
    BY <1>1, <2>2, TailIsPart, PartHolds
  <2>3. CASE \E m \in Message : /\ m.type \in {"TransferPause", "TransferCancel"}
                                 /\ toRecv' = Append(toRecv, m)
    BY <1>1, <2>3, AppendHolds
  <2>4. QED BY <2>1, <2>2, <2>3 DEF Quiet, QuietToRecv
<1>5. \A k \in 1..Len(toSend') :
         toSend'[k].type = "FileAck" => \E j \in 1..Len(toSend) : toSend'[k] = toSend[j]
  <2>1. CASE Part(toSend, toSend')
    BY <1>1, <2>1, PartHolds
  <2>2. CASE \E m \in Message : m.type # "FileAck" /\ toSend' = Append(toSend, m)
    BY <1>1, <2>2, AppendHolds
  <2>3. QED BY <2>1, <2>2 DEF Quiet, QuietToSend
<1>6. QED BY <1>2, <1>3, <1>4, <1>5, BehindOld

LEMMA BehindConnects ==
    ASSUME SessionInv, BehindInv, SocketConnected PROVE BehindInv'
<1>1. /\ sender \in Sender /\ receiver \in Receiver /\ UNCHANGED <<toSend, disk>>
      /\ sender' = WithStatus(sender, "Handshaking")
      /\ receiver' = WithStatus(receiver, "Handshaking")
      /\ toRecv' = <<Signal("HandshakeReq")>>
  BY SenderHas DEF SocketConnected
<1>2. KeepsFinal
  BY <1>1 DEF KeepsFinal
<1>3. ~Complete(toRecv')
  BY <1>1 DEF Complete, Signal
<1>4. /\ sender'.cur = sender.cur /\ sender'.status = "Handshaking"
      /\ receiver'.status = "Handshaking"
  BY <1>1 DEF WithStatus, Sender, Receiver
<1>5. QED BY <1>1, <1>2, <1>3, <1>4, BehindOld

LEMMA BehindHandshakeResp ==
    ASSUME SessionInv, BehindInv, OnHandshakeResp PROVE BehindInv'
<1> DEFINE m == Signal("TransferOffer")
<1>1. /\ toSend # <<>> /\ toSend' = Tail(toSend) /\ UNCHANGED <<receiver, disk>>
      /\ SendToReceiver(<<m>>) /\ sender' = WithStatus(sender, "WaitingApproval")
  BY DEF OnHandshakeResp, SenderHandles, SenderGets
<1>2. sender \in Sender /\ toRecv \in Seq(Message) /\ toSend \in Seq(Message)
  BY SenderHas
<1>3. toRecv' = Say(toRecv, m)
  BY <1>1, <1>2, ConcatOne, AnswerMessages DEF SendToReceiver, Say
<1>4. Complete(toRecv') => Complete(toRecv)
  BY <1>2, <1>3, SayKeeps DEF Signal
<1>5. \A k \in 1..Len(toSend') : \E j \in 1..Len(toSend) : toSend'[k] = toSend[j]
  BY <1>1, <1>2, TailIsPart, TailFacts, PartHolds
<1>6. sender'.cur = sender.cur /\ sender'.status = "WaitingApproval" /\ KeepsFinal
  BY <1>1, <1>2 DEF WithStatus, Sender, KeepsFinal
<1>7. QED BY <1>1, <1>4, <1>5, <1>6, BehindOld

LEMMA BehindStarts ==
    ASSUME SessionInv, TurnInv, BehindInv, SenderStarts PROVE BehindInv'
<1>1. PICK s \in Sender, i \in Nat \ {0}, off \in Nat :
             /\ Kept(sender, s) /\ Starts(s, i, off)
             /\ \/ /\ Head(toSend).type \in {"TransferAccept", "TransferResume"}
                   /\ i = Head(toSend).index /\ i \in Files
                \/ /\ Head(toSend).type = "FileAck" /\ Head(toSend).ok
                   /\ i = sender.cur + 1
  BY DEF SenderStarts
<1>2. /\ sender \in Sender /\ toRecv \in Seq(Message) /\ toSend \in Seq(Message)
      /\ toSend # <<>> /\ toSend' = Tail(toSend) /\ UNCHANGED <<receiver, disk>>
  BY SenderHas DEF SenderStarts
<1>3. \A k \in 1..(i - 1) : DeliveredOn(disk, k)
  <2>1. CASE Head(toSend).type \in {"TransferAccept", "TransferResume"} /\ i = Head(toSend).index
    <3>1. i = 1
      BY <1>2, <2>1, SenderTurns
    <3>2. QED BY <3>1
  <2>2. CASE Head(toSend).type = "FileAck" /\ Head(toSend).ok /\ i = sender.cur + 1
    <3>1. Head(toSend).index = sender.cur
      BY <1>2, <2>2, SenderTurns DEF TurnFits
    <3>2. 1 \in 1..Len(toSend) /\ Head(toSend) = toSend[1]
      BY <1>2, TailFacts
    <3>3. DeliveredOn(disk, sender.cur)
      BY <2>2, <3>1, <3>2 DEF BehindInv, BehindOK
    <3>4. sender.cur \in Nat
      <4>1. sender.cur \in Files
        BY <1>2 DEF Sender
      <4>2. QED BY <4>1 DEF Files
    <3>5. \A k \in 1..(i - 1) : k = sender.cur \/ k \in 1..(sender.cur - 1)
      BY <2>2, <3>4
    <3>6. QED BY <3>3, <3>5 DEF BehindInv, BehindOK
  <2>3. QED BY <1>1, <2>1, <2>2
<1>4. \A k \in 1..Len(toSend') :
         toSend'[k].type = "FileAck" /\ toSend'[k].ok => DeliveredOn(disk', toSend'[k].index)
  <2>1. \A k \in 1..Len(toSend') : \E j \in 1..Len(toSend) : toSend'[k] = toSend[j]
    BY <1>2, TailIsPart, TailFacts, PartHolds
  <2>2. QED BY <1>2, <2>1 DEF BehindInv, BehindOK
<1>5. ASSUME sender'.cur = i, sender'.status = "Completed" => sender.status = "Completed",
             Complete(toRecv') => Complete(toRecv)
      PROVE  BehindInv'
  <2>1. \A k \in 1..(sender'.cur - 1) : DeliveredOn(disk', k)
    BY <1>2, <1>3, <1>5
  <2>2. "Completed" \in {sender'.status, receiver'.status} \/ Complete(toRecv') =>
           \A k \in Files : DeliveredOn(disk', k)
    BY <1>2, <1>5 DEF BehindInv, BehindOK, Complete
  <2>3. QED BY <1>4, <2>1, <2>2 DEF BehindInv, BehindOK, Complete
<1>6. s.status = "Completed" => sender.status = "Completed"
  BY <1>1 DEF Kept, Opening
<1>7. CASE /\ i \in Files
           /\ LoopTurn(Started(s, i, off), Say(toRecv, FileStart(i)), sender', toRecv')
  <2>1. FileStart(i) \in Message /\ FileStart(i).type # "TransferComplete"
    BY <1>7 DEF FileStart, Message
  <2>2. Say(toRecv, FileStart(i)) \in Seq(Message)
    BY <1>2, <2>1, AppendFacts DEF Say
  <2>3. Complete(Say(toRecv, FileStart(i))) => Complete(toRecv)
    BY <1>2, <2>1, SayKeeps
  <2>4. Started(s, i, off).cur = i /\ Started(s, i, off).status = s.status
    BY <1>7, StartedFacts
  <2>5. /\ sender'.cur = i /\ sender'.status = "Completed" => s.status = "Completed"
        /\ Complete(toRecv') => Complete(toRecv)
    BY <1>7, <2>2, <2>3, <2>4, LoopKeeps
  <2>6. QED BY <1>5, <1>6, <1>7, <2>2, <2>3, <2>4, LoopKeeps
<1>8. CASE sender'.cur = i /\ sender'.status = "Failed" /\ toRecv' = toRecv
  BY <1>5, <1>8
<1>9. CASE i > NumFiles /\ sender'.cur = s.cur
  <2>1. \A k \in Files : k \in 1..(i - 1)
    BY <1>9, SizesAssumption DEF Files
  <2>2. \A k \in Files : DeliveredOn(disk', k)
    BY <1>2, <1>3, <2>1
  <2>3. \A k \in 1..(sender'.cur - 1) : DeliveredOn(disk', k)
    BY <1>1, <1>2, <1>9 DEF Kept, BehindInv, BehindOK
  <2>4. QED BY <1>4, <2>2, <2>3 DEF BehindInv, BehindOK
<1>10. QED BY <1>1, <1>7, <1>8, <1>9 DEF Starts

LEMMA BehindLoops ==
    ASSUME SessionInv, BehindInv, SenderLoops PROVE BehindInv'
<1>1. PICK s \in Sender, q \in Seq(Message) :
             /\ Kept(sender, s)
             /\ \/ q = toRecv
                \/ \E m \in Message : m.type = "TransferResume" /\ q = Say(toRecv, m)
             /\ LoopTurn(s, q, sender', toRecv')
  BY DEF SenderLoops
<1>2. toRecv \in Seq(Message) /\ UNCHANGED <<receiver, toSend, disk>>
  BY SenderHas DEF SenderLoops
<1>3. Complete(q) => Complete(toRecv)
  BY <1>1, <1>2, SayKeeps
<1>4. /\ sender'.cur = sender.cur
      /\ sender'.status = "Completed" => sender.status = "Completed"
      /\ Complete(toRecv') => Complete(toRecv)
  BY <1>1, <1>3, LoopKeeps DEF Kept, Opening
<1>5. KeepsFinal
  BY <1>2 DEF KeepsFinal
<1>6. QED BY <1>2, <1>4, <1>5, BehindOld

\* A handler of the receiver that acknowledges what is delivered only.
LEMMA BehindSaid ==
    ASSUME SessionInv, BehindInv, KeepsFinal, UNCHANGED sender,
           Complete(toRecv') => Complete(toRecv),
           receiver'.status = "Completed" => receiver.status = "Completed" \/ Complete(toRecv),
           \/ UNCHANGED toSend
           \/ \E m : /\ toSend' = Say(toSend, m)
                     /\ m.type = "FileAck" /\ m.ok => DeliveredOn(disk', m.index)
    PROVE  BehindInv'
<1>1. toSend \in Seq(Message)
  BY SenderHas
<1> DEFINE Held(u) == \A k \in 1..Len(u) :
               u[k].type = "FileAck" /\ u[k].ok =>
                  \/ DeliveredOn(disk', u[k].index)
                  \/ \E j \in 1..Len(toSend) : u[k] = toSend[j]
<1>3. Held(toSend')
  <2>1. Held(toSend)
    OBVIOUS
  <2>2. ASSUME NEW m, m.type = "FileAck" /\ m.ok => DeliveredOn(disk', m.index)
        PROVE  Held(Append(toSend, m))
    <3>1. \A k \in 1..Len(Append(toSend, m)) :
             \/ Append(toSend, m)[k] = m
             \/ \E j \in 1..Len(toSend) : Append(toSend, m)[k] = toSend[j]
      BY <1>1, AppendHolds
    <3>2. QED BY <2>2, <3>1
  <2> HIDE DEF Held
  <2>3. QED BY <2>1, <2>2 DEF Say
<1>4. QED BY <1>3, BehindOld

LEMMA BehindFileEnd ==
    ASSUME TailsReachDisk, SessionInv, TurnInv, BehindInv, KeepsFinal, OnFileEnd
    PROVE  BehindInv'
<1> DEFINE m == Head(toRecv)
           w == receiver.writer
<1>1. /\ Takes("FileEnd") /\ receiver'.status = receiver.status
      /\ \/ UNCHANGED <<receiver, toSend, disk>>
         \/ /\ w.has /\ toSend' = Say(toSend, FileAck(m.index, TRUE))
            /\ Verified(w, m.hash) /\ Renamable(disk, w)
            /\ \E d \in Closed(disk, w) : disk' = Committed(d, w)
         \/ toSend' = Say(toSend, FileAck(m.index, FALSE))
  BY FileEndDoes
<1>2. UNCHANGED sender /\ (Complete(toRecv') => Complete(toRecv))
  BY <1>1, TakesPart DEF Takes
<1>3. CASE UNCHANGED <<receiver, toSend, disk>>
  BY <1>1, <1>2, <1>3, BehindSaid
<1>4. CASE toSend' = Say(toSend, FileAck(m.index, FALSE))
  <2>1. ~FileAck(m.index, FALSE).ok
    BY DEF FileAck
  <2>2. QED BY <1>1, <1>2, <1>4, <2>1, BehindSaid
<1>5. CASE /\ w.has /\ toSend' = Say(toSend, FileAck(m.index, TRUE))
           /\ Verified(w, m.hash) /\ Renamable(disk, w)
           /\ \E d \in Closed(disk, w) : disk' = Committed(d, w)
  <2>5. PICK d \in Closed(disk, w) : disk' = Committed(d, w)
    BY <1>5
  <2>6. Renamable(d, w)
    BY <1>5, ClosedDisks
  <2>1. /\ m.index = sender.cur /\ w.target[1] = RelPath[m.index]
        /\ disk'.final = Put(disk.final, w.target, Source(m.index))
    BY <1>1, <1>5, <2>5, <2>6, CommitDelivers DEF Takes
  <2>2. DeliveredOn(disk', m.index)
    BY <2>1 DEF DeliveredOn, Put
  <2>3. FileAck(m.index, TRUE).index = m.index
    BY DEF FileAck
  <2>4. QED BY <1>1, <1>2, <1>5, <2>2, <2>3, BehindSaid
<1>6. QED BY <1>1, <1>3, <1>4, <1>5

LEMMA BehindMoves ==
    ASSUME TailsReachDisk, SessionInv, TurnInv, BehindInv, KeepsFinal, ReceiverMoves
    PROVE  BehindInv'
<1>1. \A type : Takes(type) => UNCHANGED sender /\ (Complete(toRecv') => Complete(toRecv))
  BY TakesPart DEF Takes
<1>2. CASE OnHandshakeReq
  <2>1. Signal("HandshakeResp").type # "FileAck"
    BY DEF Signal
  <2>2. QED BY <1>1, <1>2, <2>1, HandshakeReqDoes, BehindSaid
<1>3. CASE OnTransferOffer \/ UserAccepts
  <2>1. TransferAccept(1, 0).type # "FileAck"
    BY DEF TransferAccept
  <2>2. CASE OnTransferOffer
    BY <1>1, <2>1, <2>2, TransferOfferDoes, BehindSaid
  <2>3. CASE UserAccepts
    BY <2>1, <2>3, UserAcceptsDoes, BehindSaid
  <2>4. QED BY <1>3, <2>2, <2>3
<1>4. CASE OnTransferComplete
  <2>1. Takes("TransferComplete") /\ UNCHANGED toSend
    BY <1>4, TransferCompleteDoes
  <2>2. toRecv \in Seq(Message) /\ toRecv # <<>> /\ Head(toRecv).type = "TransferComplete"
    BY <2>1, SenderHas DEF Takes
  <2>3. Complete(toRecv)
    BY <2>2, TailFacts DEF Complete
  <2>4. QED BY <1>1, <2>1, <2>3, BehindSaid
<1>5. CASE OnFileStart
  <2>1. /\ Takes("FileStart")
        /\ receiver'.status = "Completed" => receiver.status = "Completed"
        /\ UNCHANGED toSend \/ \E i : toSend' = Say(toSend, FileAck(i, FALSE))
    BY <1>5, FileStartDoes DEF Opened, NotOpened
  <2>2. \A i : ~FileAck(i, FALSE).ok
    BY DEF FileAck
  <2>3. QED BY <1>1, <2>1, <2>2, BehindSaid
<1>6. CASE OnFileDataChunk
  <2>1. /\ Takes("FileDataChunk") /\ UNCHANGED toSend
        /\ receiver'.status = "Completed" => receiver.status = "Completed"
    BY <1>6, FileDataChunkDoes
  <2>2. QED BY <1>1, <2>1, BehindSaid
<1>7. CASE OnFileEnd
  BY <1>7, BehindFileEnd
<1>8. CASE ReceiverCrashes
  <2>1. /\ receiver' = NewReceiver /\ toRecv' = <<>> /\ Cut(toSend, toSend')
        /\ UNCHANGED sender
    BY <1>8, CrashDoes
  <2>2. toSend \in Seq(Message) /\ ~Complete(toRecv') /\ receiver'.status = "Idle"
    BY <2>1, SenderHas DEF Complete, NewReceiver
  <2>3. toSend' \in Seq(Message) /\ Part(toSend, toSend')
    BY <2>1, <2>2, CutFacts, CutIsPart
  <2>4. \A k \in 1..Len(toSend') : \E j \in 1..Len(toSend) : toSend'[k] = toSend[j]
    BY <2>2, <2>3, PartHolds
  <2>5. QED BY <2>1, <2>2, <2>4, BehindOld
<1>9. QED BY <1>2, <1>3, <1>4, <1>5, <1>6, <1>7, <1>8 DEF ReceiverMoves

\* BehindInv is inductive.
LEMMA BehindKept ==
    ASSUME KeepsFiles, NamesApart, TailsReachDisk, ByButton = TRUE,
           SessionInv, SessionInv', FreeInv, TurnInv, BehindInv, [Next]_vars
    PROVE  BehindInv'
<1>1. KeepsFinal
  BY FinalKept
<1>2. QED BY <1>1, StepCases, BehindQuiet, BehindConnects, BehindHandshakeResp,
             BehindStarts, BehindLoops, BehindMoves

LEMMA BehindInit == ASSUME Init PROVE BehindInv
BY DEF Init, BehindInv, BehindOK, NewReceiver

LEMMA BehindInvHolds ==
    ASSUME KeepsFiles, NamesApart, TailsReachDisk,
           "recv" \notin Controls, NoTrailingHole, ByButton = TRUE
    PROVE  Spec => []BehindInv
<1>1. Init => BehindInv
  BY BehindInit
<1>2. SessionInv /\ SessionInv' /\ FreeInv /\ TurnInv /\ BehindInv /\ [Next]_vars => BehindInv'
  BY BehindKept
<1>3. QED BY <1>1, <1>2, SessionInvHolds, FreeInvHolds, TurnInvHolds, PTL DEF Spec

\* Neither user is told that a transfer is complete before every file of the
\* manifest is on the receiver's disk (TransferSession.cpp:84-100, 492-503), if
\* the policy keeps the files that are there, no entry is named as the .partial
\* of another one, flush() and close() succeed (FileWriter.cpp:109-111 and
\* 153-156) and the receiving user has no Pause button.
THEOREM CompletedIsDelivered ==
    ASSUME KeepsFiles, NamesApart, TailsReachDisk,
           "recv" \notin Controls, NoTrailingHole, ByButton = TRUE
    PROVE  Spec => []CompletedMeansDelivered
<1>1. BehindInv => CompletedMeansDelivered
  BY DEF BehindInv, BehindOK, CompletedMeansDelivered, DeliveredOn, Delivered
<1>2. QED BY <1>1, BehindInvHolds, PTL

-----------------------------------------------------------------------------
(* ImplementsDelivery.  What is delivered lies behind the sender or is its *)
(* current file, so a commit delivers the next one or nothing new.         *)

\* The sender starts with the first file and goes on with the next one.
LEMMA StartsAhead ==
    ASSUME SessionInv, TurnInv, SenderStarts
    PROVE  sender'.cur \in Nat /\ sender.cur \in Nat /\ sender.cur <= sender'.cur
<1>1. PICK s \in Sender, i \in Nat \ {0}, off \in Nat :
             /\ Kept(sender, s) /\ Starts(s, i, off)
             /\ \/ /\ Head(toSend).type \in {"TransferAccept", "TransferResume"}
                   /\ i = Head(toSend).index /\ i \in Files
                \/ /\ Head(toSend).type = "FileAck" /\ Head(toSend).ok
                   /\ i = sender.cur + 1
  BY DEF SenderStarts
<1>2. /\ sender \in Sender /\ toRecv \in Seq(Message) /\ toSend # <<>>
  BY SenderHas DEF SenderStarts
<1>3. sender.cur \in Nat
  <2>1. sender.cur \in Files
    BY <1>2 DEF Sender
  <2>2. QED BY <2>1 DEF Files
<1>4. sender.cur <= i
  <2>1. CASE Head(toSend).type \in {"TransferAccept", "TransferResume"} /\ i = Head(toSend).index
    <3>1. Head(toSend).type # "TransferResume" /\ TurnFits(Head(toSend), sender, toRecv)
      BY <1>2, <2>1, SenderTurns
    <3>2. sender.cur = 1
      BY <2>1, <3>1 DEF TurnFits, Untouched
    <3>3. QED BY <3>2
  <2>2. CASE i = sender.cur + 1
    BY <1>3, <2>2
  <2>3. QED BY <1>1, <2>1, <2>2
<1>5. CASE /\ i \in Files
           /\ LoopTurn(Started(s, i, off), Say(toRecv, FileStart(i)), sender', toRecv')
  <2>1. FileStart(i) \in Message
    BY <1>5 DEF FileStart, Message
  <2>2. Say(toRecv, FileStart(i)) \in Seq(Message)
    BY <1>2, <2>1, AppendFacts DEF Say
  <2>3. Started(s, i, off).cur = i
    BY <1>5, StartedFacts
  <2>4. sender'.cur = i
    BY <1>5, <2>2, <2>3, LoopKeeps
  <2>5. QED BY <1>3, <1>4, <2>4
<1>6. CASE sender'.cur = i
  BY <1>3, <1>4, <1>6
<1>7. CASE sender'.cur = s.cur
  BY <1>1, <1>3, <1>7 DEF Kept
<1>8. QED BY <1>1, <1>5, <1>6, <1>7 DEF Starts

LEMMA CurGrows ==
    ASSUME ByButton = TRUE, SessionInv, TurnInv, [Next]_vars
    PROVE  sender.cur \in Nat /\ sender'.cur \in Nat /\ sender.cur <= sender'.cur
<1>1. sender.cur \in Nat /\ sender \in Sender /\ toRecv \in Seq(Message)
  <2>1. sender \in Sender /\ toRecv \in Seq(Message)
    BY SenderHas
  <2>2. sender.cur \in Files
    BY <2>1 DEF Sender
  <2>3. QED BY <2>1, <2>2 DEF Files
<1>2. CASE sender'.cur = sender.cur
  BY <1>1, <1>2
<1>3. CASE SenderStarts
  BY <1>3, StartsAhead
<1>4. CASE SenderLoops
  <2>1. PICK s \in Sender, q \in Seq(Message) :
               Kept(sender, s) /\ LoopTurn(s, q, sender', toRecv')
    BY <1>4 DEF SenderLoops
  <2>2. sender'.cur = sender.cur
    BY <2>1, LoopKeeps DEF Kept
  <2>3. QED BY <1>2, <2>2
<1>5. CASE Quiet
  BY <1>2, <1>5 DEF Quiet, Kept
<1>6. CASE SocketConnected \/ OnHandshakeResp
  BY <1>1, <1>2, <1>6 DEF SocketConnected, OnHandshakeResp, WithStatus, Sender
<1>7. CASE ReceiverMoves
  <2>1. UNCHANGED sender
    BY <1>7, CrashDoes, UserAcceptsDoes, HandshakeReqDoes, TransferOfferDoes, FileStartDoes,
       FileDataChunkDoes, FileEndDoes, TransferCompleteDoes DEF ReceiverMoves, Takes
  <2>2. QED BY <1>2, <2>1
<1>8. QED BY <1>3, <1>4, <1>5, <1>6, <1>7, StepCases

\* A step delivers the file the sender waits for to be acknowledged, or none.
LEMMA DeliversCurrent ==
    ASSUME ByButton = TRUE, FilesDiffer, TailsReachDisk, SessionInv, TurnInv, [Next]_vars,
           NEW i \in Files, DeliveredOn(disk', i)
    PROVE  DeliveredOn(disk, i) \/ (i = sender.cur /\ UNCHANGED sender)
<1> DEFINE m == Head(toRecv)
           w == receiver.writer
<1>1. DiskType(disk) /\ sender.cur \in Files
  <2>1. sender \in Sender
    BY SenderHas
  <2>2. QED BY <2>1, ReceiverKnows DEF Sender
<1>2. ASSUME NEW gone, disk'.final = Drop(disk.final, gone) PROVE DeliveredOn(disk, i)
  BY <1>2 DEF DeliveredOn, Drop
<1>3. CASE disk'.final = disk.final
  BY <1>3 DEF DeliveredOn
<1>4. ASSUME toRecv # <<>>, m \in Message, HonestPacket(m), UNCHANGED sender,
             NEW d \in Closed(disk, w), DiskMoves(m, d, disk')
      PROVE  DeliveredOn(disk, i) \/ (i = sender.cur /\ UNCHANGED sender)
  <2>0. d.final = disk.final
    BY <1>1, LossKeepsFinal
  <2>1. CASE \E t : disk' = Cleared(d, t) \/ \E c : disk' = OpenedDisk(d, t, c)
    BY <1>2, <2>0, <2>1, ClearedFinal
  <2>2. CASE d = disk /\ disk' = WriteToDisk(d, w, m.offset, m.data)
    BY <1>1, <1>3, <2>2, WriteKeepsFinal
  <2>3. CASE disk' = HalfCommitted(d, w)
    BY <1>2, <2>0, <2>3, HalfCommittedFinal
  <2>4. CASE /\ m.type = "FileEnd" /\ w.has /\ Verified(w, m.hash) /\ Renamable(d, w)
             /\ disk' = Committed(d, w)
    <3>1. /\ w.target[1] = RelPath[sender.cur]
          /\ disk'.final = Put(disk.final, w.target, Source(sender.cur))
      BY <1>4, <2>4, CommitDelivers
    <3>2. PICK n \in DOMAIN disk'.final : n[1] = RelPath[i] /\ disk'.final[n] = Source(i)
      BY DEF DeliveredOn
    <3>3. CASE n = w.target
      <4>1. RelPath[i] = RelPath[sender.cur] /\ Source(i) = Source(sender.cur)
        BY <3>1, <3>2, <3>3 DEF Put
      <4>2. i = sender.cur
        BY <1>1, <4>1 DEF FilesDiffer
      <4>3. QED BY <1>4, <4>2
    <3>4. CASE n # w.target
      BY <3>1, <3>2, <3>4 DEF Put, DeliveredOn
    <3>5. QED BY <3>3, <3>4
  <2>5. QED BY <1>4, <2>1, <2>2, <2>3, <2>4 DEF DiskMoves
<1>5. CASE disk' \in {disk} \cup Unflushed(disk, w)
  BY <1>1, <1>3, <1>5, LossKeepsFinal
<1>6. QED BY <1>4, <1>5, DiskMovesOf

\* AheadInv is inductive.
LEMMA AheadKept ==
    ASSUME ByButton = TRUE, FilesDiffer, TailsReachDisk,
           SessionInv, TurnInv, AheadInv, [Next]_vars
    PROVE  AheadInv'
<1>1. sender.cur \in Nat /\ sender'.cur \in Nat /\ sender.cur <= sender'.cur
  BY CurGrows
<1>2. SUFFICES ASSUME NEW i \in Files, DeliveredOn(disk', i) PROVE i <= sender'.cur
  BY DEF AheadInv, AheadOK
<1>3. i <= sender.cur /\ i \in Nat
  BY <1>1, <1>2, DeliversCurrent DEF AheadInv, AheadOK, Files
<1>4. QED BY <1>1, <1>3

LEMMA AheadInit == ASSUME Init PROVE AheadInv
BY DEF Init, AheadInv, AheadOK, DeliveredOn, EmptyDisk

\* What a user is shown changes at one end at a time.
LEMMA OneEnd ==
    ASSUME ByButton = TRUE, SessionInv, [Next]_vars
    PROVE  \/ UNCHANGED sender \/ UNCHANGED receiver
           \/ /\ "Completed" \notin {sender.status, receiver.status}
              /\ "Completed" \notin {sender'.status, receiver'.status}
<1>1. CASE SenderStep
  BY <1>1 DEF SenderStep, OnHandshakeResp, OnTransferAccept, OnTransferReject, OnFileAck,
     OnSenderPause, OnSenderResume, OnSenderCancel, SenderHandles
<1>2. CASE ChunkLoop \/ UNCHANGED vars
  BY <1>2 DEF ChunkLoop, vars
<1>3. CASE ReceiverStep
  BY <1>3 DEF ReceiverStep, OnHandshakeReq, OnTransferOffer, OnFileStart, OnFileDataChunk,
     OnFileEnd, OnReceiverPause, OnReceiverResume, OnReceiverCancel, OnTransferComplete,
     ReceiverHandles
<1>4. CASE UserStep
  BY <1>4 DEF UserStep, StartSend, UserAccepts, UserRejects, PauseSender, PauseReceiver,
     ResumeSender, ResumeReceiver, CancelSender, CancelReceiver
<1>5. CASE NetworkStep /\ ~SocketConnected
  BY <1>5 DEF NetworkStep, ConnectFails, CableCut, SenderLosesSocket, ReceiverLosesSocket,
     ReceiverCrashes
<1>6. CASE SocketConnected
  <2>1. sender \in Sender /\ receiver \in Receiver
    BY SenderHas
  <2>2. Early
    BY <1>6 DEF SocketConnected, Early
  <2>3. sender.status \in Opening /\ sender.status # "Completed" /\ receiver.status # "Completed"
    BY <2>2 DEF SessionInv, EarlyOK, HandshakeFirst, Opening
  <2>4. sender'.status = "Handshaking" /\ receiver'.status = "Handshaking"
    BY <1>6, <2>1 DEF SocketConnected, WithStatus, Sender, Receiver
  <2>5. QED BY <2>3, <2>4
<1>7. QED BY <1>1, <1>2, <1>3, <1>4, <1>5, <1>6 DEF Next

\* A handler that changes the committed files tells nobody that the transfer is
\* complete.
LEMMA DiskIsSilent ==
    ASSUME ByButton = TRUE, SessionInv, [Next]_vars, disk'.final # disk.final
    PROVE  /\ UNCHANGED sender
           /\ receiver'.status = "Completed" => receiver.status = "Completed"
<1>1. UNCHANGED sender
  <2>1. DiskType(disk)
    BY ReceiverKnows
  <2>2. disk' \notin {disk} \cup Unflushed(disk, receiver.writer)
    BY <2>1, LossKeepsFinal
  <2>3. QED BY <2>2, DiskMovesOf
<1>2. CASE OnFileStart
  BY <1>1, <1>2, FileStartDoes DEF Opened, NotOpened
<1>3. CASE OnFileDataChunk
  BY <1>1, <1>3, FileDataChunkDoes
<1>4. CASE OnFileEnd
  BY <1>1, <1>4, FileEndDoes
<1>5. CASE ReceiverCrashes
  BY <1>1, <1>5, CrashDoes DEF NewReceiver
<1>6. OnFileStart \/ OnFileDataChunk \/ OnFileEnd \/ ReceiverCrashes
  <2>1. ~(Quiet \/ SocketConnected \/ OnHandshakeResp \/ SenderStarts \/ SenderLoops)
    BY QuietFinal DEF SocketConnected, OnHandshakeResp, SenderHandles, SenderStarts,
       SenderLoops
  <2>2. ~(OnHandshakeReq \/ OnTransferOffer \/ UserAccepts \/ OnTransferComplete)
    BY DEF OnHandshakeReq, OnTransferOffer, UserAccepts, OnTransferComplete
  <2>3. QED BY <2>1, <2>2, StepCases DEF ReceiverMoves
<1>7. QED BY <1>1, <1>2, <1>3, <1>4, <1>5, <1>6

\* Sets that differ in one member.
LEMMA OneChange ==
    ASSUME NEW S, NEW A, A \subseteq S, NEW B, B \subseteq S, A # B, NEW e,
           \A o \in S : o # e => (o \in A <=> o \in B)
    PROVE  \/ B = A \cup {e} /\ e \notin A
           \/ B = A \ {e} /\ e \in A
<1>1. CASE e \in A
  BY <1>1
<1>2. CASE e \notin A
  BY <1>2
<1>3. QED BY <1>1, <1>2

\* The refinement mapping.
DeliveredSet == {i \in Files : Delivered(i)}
Claims == {p \in Sides : ShownStatus(p) = "Completed"}

LEMMA StepDelivers ==
    ASSUME KeepsFiles, FilesDiffer, NamesApart, TailsReachDisk, ByButton = TRUE,
           SessionInv, SessionInv', FreeInv, TurnInv, BehindInv, BehindInv',
           AheadInv, [Next]_vars
    PROVE  [DeliveryOf!Next]_<<DeliveredSet, Claims>>
<1> DEFINE D == DeliveredSet
           C == Claims
           cur == sender.cur
<1>1. /\ \A i \in Files : i \in D <=> DeliveredOn(disk, i)
      /\ \A i \in Files : i \in D' <=> DeliveredOn(disk', i)
      /\ D \subseteq Files /\ D' \subseteq Files
  BY DEF DeliveredSet, Delivered, DeliveredOn
<1>2. /\ "send" \in C <=> sender.status = "Completed"
      /\ "recv" \in C <=> receiver.status = "Completed"
      /\ "send" \in C' <=> sender'.status = "Completed"
      /\ "recv" \in C' <=> receiver'.status = "Completed"
      /\ C \subseteq {"send", "recv"} /\ C' \subseteq {"send", "recv"}
  BY DEF Claims, ShownStatus, Sides
<1>3. D \subseteq D'
  BY <1>1, FinalKept, DeliveredKept
<1>4. /\ C # {} => D = Files
      /\ C' # {} => D' = Files
  BY <1>1, <1>2 DEF BehindInv, BehindOK
<1>5. cur \in Files /\ cur \in Nat /\ Files = 1..NumFiles /\ NumFiles \in Nat
  <2>1. sender \in Sender
    BY SenderHas
  <2>2. cur \in Files
    BY <2>1 DEF Sender
  <2>3. QED BY <2>2, SizesAssumption DEF Files
<1>6. 1..(cur - 1) \subseteq D /\ D \subseteq 1..cur
  <2>1. \A i \in 1..(cur - 1) : i \in Files /\ DeliveredOn(disk, i)
    BY <1>5 DEF BehindInv, BehindOK
  <2>2. \A i \in D : i \in Files /\ i <= cur
    BY <1>1 DEF AheadInv, AheadOK
  <2>3. QED BY <1>1, <1>5, <2>1, <2>2
<1>7. CASE D' # D
  <2>1. PICK i \in D' : i \notin D
    BY <1>3, <1>7
  <2>2. i = cur
    BY <1>1, <2>1, DeliversCurrent
  <2>3. D' = 1..cur
    <3>1. \A j \in D' : j \in D \/ j = cur
      BY <1>1, DeliversCurrent
    <3>2. D' \subseteq 1..cur
      <4>1. cur \in 1..cur
        BY <1>5
      <4>2. QED BY <1>6, <3>1, <4>1
    <3>3. 1..cur \subseteq D'
      <4>1. \A j \in 1..cur : j = cur \/ j \in 1..(cur - 1)
        BY <1>5
      <4>2. QED BY <1>3, <1>6, <2>1, <2>2, <4>1
    <3>4. QED BY <3>2, <3>3
  <2>4. D = 1..(cur - 1)
    <3>1. \A j \in 1..cur : j = cur \/ j \in 1..(cur - 1)
      BY <1>5
    <3>2. cur \notin D
      BY <2>1, <2>2
    <3>3. QED BY <1>6, <3>1, <3>2
  <2>5. C' = C
    <3>1. disk'.final # disk.final
      BY <1>7 DEF DeliveredSet, Delivered
    <3>2. C = {}
      BY <1>1, <1>3, <1>4, <1>7
    <3>3. C' = {}
      BY <1>2, <3>1, <3>2, DiskIsSilent
    <3>4. QED BY <3>2, <3>3
  <2> HIDE DEF D, C
  <2>6. DeliveryOf!Deliver(cur)
    BY <2>3, <2>4, <2>5 DEF DeliveryOf!Deliver, D, C, DeliveredSet, Claims
  <2>7. QED BY <1>5, <2>6 DEF DeliveryOf!Next
<1>8. CASE D' = D /\ C' # C
  <2>1. PICK p \in Sides : \/ C' = C \cup {p} /\ p \notin C
                           \/ C' = C \ {p} /\ p \in C
    <3>1. C \subseteq Sides /\ C' \subseteq Sides
      BY <1>2 DEF Sides
    <3>2. PICK p \in Sides : \A o \in Sides : o # p => (o \in C <=> o \in C')
      BY <1>2, OneEnd DEF Sides
    <3>3. C' # C
      BY <1>8
    <3> HIDE DEF C
    <3>4. QED BY <3>1, <3>2, <3>3, OneChange
  <2>2. CASE C' = C \cup {p} /\ p \notin C
    <3>1. D = 1..NumFiles
      BY <1>4, <1>5, <1>8, <2>2
    <3>2. DeliveryOf!Claim(p)
      BY <1>8, <2>2, <3>1 DEF DeliveryOf!Claim, DeliveredSet, Claims
    <3>3. QED BY <2>1, <3>2 DEF DeliveryOf!Next
  <2>3. CASE C' = C \ {p}
    <3>1. DeliveryOf!Withdraw(p)
      BY <1>8, <2>3 DEF DeliveryOf!Withdraw, DeliveredSet, Claims
    <3>2. QED BY <2>1, <3>1 DEF DeliveryOf!Next
  <2>4. QED BY <2>1, <2>2, <2>3
<1>9. CASE D' = D /\ C' = C
  BY <1>9
<1>10. QED BY <1>7, <1>8, <1>9

\* One transfer implements Delivery: the files of the manifest are delivered
\* in their order, none is taken back, and no end shows "Completed" too soon, as
\* long as names and tails are what CompletedIsDelivered needs them to be.
THEOREM DeliveryHolds ==
    ASSUME KeepsFiles, FilesDiffer, NamesApart, TailsReachDisk,
           "recv" \notin Controls, NoTrailingHole, ByButton = TRUE
    PROVE  Spec => ImplementsDelivery
<1>1. Init => AheadInv
  BY AheadInit
<1>2. SessionInv /\ TurnInv /\ AheadInv /\ [Next]_vars => AheadInv'
  BY AheadKept
<1>3. Init => DeliveryOf!Init
  BY DEF Init, DeliveryOf!Init, Delivered, EmptyDisk, ShownStatus, NewReceiver, Sides
<1>4. SessionInv /\ SessionInv' /\ FreeInv /\ TurnInv /\ BehindInv /\ BehindInv' /\ AheadInv
      /\ [Next]_vars => [DeliveryOf!Next]_(DeliveryOf!vars)
  BY StepDelivers DEF DeliveryOf!vars, DeliveredSet, Claims
<1>5. QED BY <1>1, <1>2, <1>3, <1>4, SessionInvHolds, FreeInvHolds, TurnInvHolds,
             BehindInvHolds, PTL DEF Spec, ImplementsDelivery, DeliveryOf!Spec
=============================================================================
