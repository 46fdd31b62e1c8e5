------------------------ MODULE TransferDeliveryInv ------------------------
(***************************************************************************)
(* Why a completed transfer has delivered everything, in its order and for *)
(* good: the inductive invariants behind NeverReplaced,                    *)
(* AckIsForCurrentFile, CompletedMeansDelivered, WriterHoldsPrefix,        *)
(* PartialDataKept, BytesConserved, EndsOnce and ImplementsDelivery.  They *)
(* speak of values, so that a step can be looked at in parts: s and r are  *)
(* the two sessions, q and u the packets under way to the receiver and to  *)
(* the sender, d the disk.                                                 *)
(***************************************************************************)
EXTENDS TransferSessionInv

\* A file that is there already is not in the way of a new one.
KeepsFiles == Policy \in {"Rename", "Ask"}

\* Two entries with one path and one content could not be told apart on disk.
FilesDiffer ==
    \A i, j \in Files : RelPath[i] = RelPath[j] /\ Source(i) = Source(j) => i = j

IsEnd(m) == m.type = "FileEnd"
IsChunk(m) == m.type = "FileDataChunk"
IsStream(m) == m.type \in {"FileStart", "FileDataChunk", "FileEnd"}

DeliveredOn(d, i) ==
    \E n \in DOMAIN d.final : n[1] = RelPath[i] /\ d.final[n] = Source(i)

-----------------------------------------------------------------------------
(* NeverReplaced: the name a file will be committed to is free.            *)

FreeTarget(w, d) == w.target \notin DOMAIN d.final

\* When the receiver gets to position p its writer's target is free: it was
\* chosen by a FileStart with no FileEnd since.
FreeAt(q, p, r, d) ==
    \/ \E s \in 1..(p - 1) :
          IsStart(q[s]) /\ \A k \in (s + 1)..(p - 1) : ~IsEnd(q[k])
    \/ /\ \A k \in 1..(p - 1) : ~IsEnd(q[k])
       /\ FreeTarget(r.writer, d)

\* No committed file is in the way of a file that ends.
EndsAreFree(q, r, d) == \A p \in 1..Len(q) : IsEnd(q[p]) => FreeAt(q, p, r, d)
MayEnd(s, q, r, d) ==
    s.reader.open /\ ~s.waiting => FreeAt(q, Len(q) + 1, r, d)

FreeOK(s, q, r, d, linked) ==
    EndsAreFree(q, r, d) /\ (linked => MayEnd(s, q, r, d))

-----------------------------------------------------------------------------
(* Stop and wait: handshake, offer, answer, end of file and                *)
(* acknowledgement are one turn that passes between the two sessions.      *)

TurnToRecv(m) == m.type \in {"HandshakeReq", "TransferOffer", "FileEnd"}
TurnToSend(m) ==
    \/ m.type \in {"HandshakeResp", "TransferAccept"}
    \/ m.type = "FileAck" /\ m.ok

NoTurn(q, u, asking) ==
    /\ \A k \in 1..Len(q) : ~TurnToRecv(q[k])
    /\ \A k \in 1..Len(u) : ~TurnToSend(u[k])
    /\ ~asking

Untouched(s) == ~s.reader.has /\ ~s.waiting /\ s.cur = 1
NoStream(q) == \A k \in 1..Len(q) : ~IsStream(q[k])

\* The turn is with one packet at most, or with the dialog.
OneTurn(q, u, asking) ==
    /\ \A k \in 1..Len(q) : TurnToRecv(q[k]) =>
          /\ \A j \in 1..Len(q) : TurnToRecv(q[j]) => j = k
          /\ \A j \in 1..Len(u) : ~TurnToSend(u[j])
          /\ ~asking
    /\ \A k \in 1..Len(u) : TurnToSend(u[k]) =>
          /\ \A j \in 1..Len(u) : TurnToSend(u[j]) => j = k
          /\ ~asking

\* The end of a file and its good acknowledgement are for the file the sender
\* waits for; before that nothing has been streamed.
TurnFits(m, s, q) ==
    IF m.type \in {"FileEnd", "FileAck"} THEN s.waiting /\ m.index = s.cur
                                         ELSE Untouched(s) /\ NoStream(q)

TurnsFit(s, q, u, asking) ==
    /\ \A k \in 1..Len(q) : TurnToRecv(q[k]) => TurnFits(q[k], s, q)
    /\ \A k \in 1..Len(u) : TurnToSend(u[k]) => TurnFits(u[k], s, q)
    /\ asking => Untouched(s) /\ NoStream(q)

\* The receiver lets the sender start with the first byte, and no more.
AnswersFit(u) ==
    \A k \in 1..Len(u) :
        /\ u[k].type = "TransferAccept" => u[k].index = 1 /\ u[k].offset = 0
        /\ u[k].type \notin {"TransferResume", "TransferPause"}

TurnOK(s, q, u, asking) ==
    /\ OneTurn(q, u, asking)
    /\ TurnsFit(s, q, u, asking)
    /\ AnswersFit(u)
    /\ s.status \in Opening => Untouched(s)

-----------------------------------------------------------------------------
(* CompletedMeansDelivered and ImplementsDelivery.                         *)

\* What lies behind the sender is delivered, what is acknowledged and what is
\* called complete as well.
BehindOK(s, q, u, r, d) ==
    /\ \A i \in 1..(s.cur - 1) : DeliveredOn(d, i)
    /\ \A k \in 1..Len(u) :
          u[k].type = "FileAck" /\ u[k].ok => DeliveredOn(d, u[k].index)
    /\ (\/ "Completed" \in {s.status, r.status}
        \/ \E k \in 1..Len(q) : q[k].type = "TransferComplete")
       => \A i \in Files : DeliveredOn(d, i)

\* Nothing is delivered ahead of the sender.
AheadOK(s, d) == \A i \in Files : DeliveredOn(d, i) => i <= s.cur

-----------------------------------------------------------------------------
(* PartialDataKept: a file is started when no .partial file is left.       *)

\* One file at a time is under way, from its start to its end.
OneFile(q) ==
    \A p \in 1..Len(q) :
        /\ IsStart(q[p]) => \A k \in 1..Len(q) : k < p => ~IsStream(q[k])
        /\ IsEnd(q[p]) => \A k \in 1..Len(q) : k > p => ~IsStream(q[k])

NoPartial(d) == DOMAIN d.partial = {}

\* No .partial file is left when the next file starts or may be started.
CleanStart(q, u, asking, d) ==
    /\ (\E k \in 1..Len(q) :
           q[k].type \in {"HandshakeReq", "TransferOffer", "FileStart"}) => NoPartial(d)
    /\ \A k \in 1..Len(u) : TurnToSend(u[k]) => NoPartial(d) /\ NoStream(q)
    /\ asking => NoPartial(d)

\* The open .partial file holds the file's blocks and holes.
BlocksOK(w, i, d) ==
    w.partial \in DOMAIN d.partial =>
        \A k \in 1..Len(d.partial[w.partial]) :
            d.partial[w.partial][k] \in {Hole, <<i, k>>}

\* The .partial file of the receiver's writer is the only one, unless the program
\* has died, and before the handshake there is none.
PartialOK(s, q, u, r, d, up) ==
    /\ OneFile(q)
    /\ CleanStart(q, u, r.asking, d)
    /\ s.status \in Opening => NoPartial(d)
    /\ up \/ r.writer.has => DOMAIN d.partial \subseteq {r.writer.partial}
    /\ BlocksOK(r.writer, r.recvIndex, d)

-----------------------------------------------------------------------------
(* WriterHoldsPrefix: the chunks of a file follow each other.              *)

\* A connected receiver has a writer, and when it is open the next block that
\* it expects is the one at off.
AtWriter(r, up, off) ==
    up => r.writer.has /\ (r.writer.open => off = Len(r.writer.hashed))

\* The next block the receiver expects at position p is the one at off.
NextAt(q, p, off, r, up) ==
    \/ \E s \in 1..(p - 1) :
          /\ \/ IsStart(q[s]) /\ off = 0
             \/ IsChunk(q[s]) /\ off = q[s].offset + 1
          /\ \A k \in (s + 1)..(p - 1) : ~IsStream(q[k])
    \/ /\ \A k \in 1..(p - 1) : ~IsStream(q[k])
       /\ AtWriter(r, up, off)

ChunksFollow(q, r, up) ==
    \A p \in 1..Len(q) : IsChunk(q[p]) => NextAt(q, p, q[p].offset, r, up)
MayFollow(s, q, r, up) ==
    s.reader.open /\ ~s.waiting => NextAt(q, Len(q) + 1, s.reader.off, r, up)

\* What is written is a prefix of the file.
PrefixWritten(r, d) ==
    LET w == r.writer
    IN  /\ w.partial \in DOMAIN d.partial
        /\ Len(w.hashed) <= Len(d.partial[w.partial])
        /\ \A k \in 1..Len(w.hashed) :
              w.hashed[k] = <<r.recvIndex, k>> /\ d.partial[w.partial][k] = w.hashed[k]

FollowOK(s, q, r, d, up, linked) ==
    /\ ChunksFollow(q, r, up)
    /\ linked => MayFollow(s, q, r, up)
    /\ r.writer.open /\ up => PrefixWritten(r, d)
    /\ s.status \in Opening => ~r.writer.open

-----------------------------------------------------------------------------
(* BytesConserved: the totals differ by the chunks under way.              *)

Chunks(q) == {k \in 1..Len(q) : IsChunk(q[k])}
IsCall(m) == m.type \in {"TransferReject", "TransferCancel"}

\* While the link is whole a session that has ended has been at its first file
\* at least, so that no handshake and no answer brings it back.
EndedLate(s, u) ==
    s.status \in Final \/ (\E k \in 1..Len(u) : u[k].type = "FileAck") => ~Untouched(s)

CountOK(s, q, u, r) ==
    /\ s.status \notin Final => s.total = r.total + Cardinality(Chunks(q))
    /\ \A k \in 1..Len(q) :
          /\ q[k].type = "TransferComplete" => s.status \in Final
          /\ ~IsCall(q[k])
    /\ \A k \in 1..Len(u) : ~IsCall(u[k])
    /\ EndedLate(s, u)

-----------------------------------------------------------------------------
(* EndsOnce: nothing is under way that would bring an ended session back.  *)

\* No receiver fails with packets waiting behind the one it fails on, or
\* nobody pauses, so that none of them is TransferPause or TransferResume.
HoldsOut ==
    \/ "send" \notin Controls
    \/ Policy # "Skip" /\ Faults \cap {"diskfull", "partial", "write"} = {}

Packets(q) == {q[k] : k \in 1..Len(q)}

IsControl(m) == m.type \in {"TransferPause", "TransferResume"}
Revives(m) ==
    \/ IsControl(m)
    \/ m.type \in {"HandshakeReq", "TransferOffer", "TransferCancel", "TransferComplete"}
Refuses(m) == m.type = "TransferReject" \/ (m.type = "FileAck" /\ ~m.ok)

\* When the sender has ended, or will with a refusal under way, nobody has the
\* turn, and it does not get it again.
NoTurnLeft(s, q, u, asking, linked) ==
    s.status \in Final \/ (\E m \in Packets(u) : Refuses(m)) =>
        /\ \A m \in Packets(u) : ~TurnToSend(m)
        /\ linked => NoTurn(q, u, asking) /\ (s.waiting \/ s.status \in Final)

\* No refusal under way contradicts how the sender has ended.
RefusalsFit(s, q, u, linked) ==
    /\ s.status = "Completed" => NoStream(q) /\ \A m \in Packets(u) : ~Refuses(m)
    /\ s.status = "Cancelled" => ~linked /\ \A m \in Packets(u) : m.type # "FileAck"
    /\ (\E m \in Packets(u) : m.type = "TransferReject") =>
          /\ ~linked /\ Untouched(s) /\ s.status \notin {"Failed", "Completed"}
          /\ \A m \in Packets(u) : m.type # "FileAck"

\* Before its first file the sender does not transfer, and has only asked.
Fresh(s, q) ==
    Untouched(s) =>
        /\ s.status \notin {"Transferring", "Paused", "Completed"}
        /\ \A m \in Packets(q) : m.type \in {"HandshakeReq", "TransferOffer"}

\* TransferComplete is the last word of a sender.
LastWord(s, q) ==
    \A k \in 1..Len(q) :
        q[k].type = "TransferComplete" => k = Len(q) /\ s.status = "Completed"

\* What a receiver that has ended will still handle leaves its status alone.
EndedReceiver(s, q, r, linked) ==
    /\ r.asking => r.status = "WaitingApproval"
    /\ r.status \in {"Completed", "Cancelled"} => q = <<>>
    /\ r.status \in Final => /\ \A m \in Packets(q) : ~Revives(m)
                             /\ linked => s.status = "Completed"

\* A chunk meets an open writer.
ChunkIsTaken(s, q, r, linked) ==
    (\E m \in Packets(q) : IsChunk(m)) \/ (linked /\ s.reader.open /\ ~s.waiting) =>
        (\E m \in Packets(q) : IsStart(m)) \/ r.writer.open

\* Nobody calls the transfer off; who may pause has a receiver that holds out.
Unbroken(s, q, r, linked) ==
    /\ \A m \in Packets(q) : m.type # "TransferCancel"
    /\ IF "send" \in Controls THEN ChunkIsTaken(s, q, r, linked)
                              ELSE \A m \in Packets(q) : ~IsControl(m)

SenderEnds(s, q, u, asking, linked) ==
    /\ NoTurnLeft(s, q, u, asking, linked)
    /\ RefusalsFit(s, q, u, linked)
    /\ Fresh(s, q) /\ LastWord(s, q)
    /\ \A m \in Packets(u) : m.type # "TransferCancel"

ReceiverEnds(s, q, r, linked) ==
    EndedReceiver(s, q, r, linked) /\ Unbroken(s, q, r, linked)

-----------------------------------------------------------------------------
Up == sock["recv"] = "open"

FreeInv == FreeOK(sender, toRecv, receiver, disk, Linked)
TurnInv == TurnOK(sender, toRecv, toSend, receiver.asking)
BehindInv == BehindOK(sender, toRecv, toSend, receiver, disk)
AheadInv == AheadOK(sender, disk)
PartialInv == PartialOK(sender, toRecv, toSend, receiver, disk, Up)
FollowInv == FollowOK(sender, toRecv, receiver, disk, Up, Linked)
CountInv ==
    /\ Early => sender.total = 0 /\ receiver.total = 0
    /\ Linked => CountOK(sender, toRecv, toSend, receiver)
EndInv ==
    /\ Early => toRecv = <<>> /\ receiver.status = "Idle"
    /\ SenderEnds(sender, toRecv, toSend, receiver.asking, Linked)
    /\ ReceiverEnds(sender, toRecv, receiver, Linked)
=============================================================================
