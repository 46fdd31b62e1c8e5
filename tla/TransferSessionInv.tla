------------------------- MODULE TransferSessionInv -------------------------
(***************************************************************************)
(* Why only copies are committed: the inductive invariant behind           *)
(* CommittedButTail.  The packets that carry data and digests are honest     *)
(* (PayloadOK), each of them belongs to the file the receiver has open     *)
(* when it gets to it (StreamOK), the sender only streams a file it has    *)
(* announced on this connection (AnnouncedOK), its reader hashes what it   *)
(* sends (ReaderOK), and the .partial file holds what the receiver has     *)
(* hashed, each block in its place (WriterOK).                             *)
(***************************************************************************)
EXTENDS TransferSession

\* No source file is shorter than the manifest says, or allocating space does
\* not lengthen a file.
NoTrailingHole ==
    PreallocExtends => \A i \in Files : ManifestSize[i] <= SourceSize[i]

\* What flush() and close() are given always arrives on the disk, unless the
\* program dies; or no block is small enough to wait for them.
TailsReachDisk == "flush" \in Faults => SmallTail = {}

\* No file is named as the .partial of another one is.
NamesApart == DotPartial = {}

IsStart(m) == m.type = "FileStart"
IsData(m) == m.type \in {"FileDataChunk", "FileEnd"}

\* File i is the one the receiver r will have open once it has handled the
\* packets of q before position p.
Owner(q, p, i, r) ==
    \/ \E s \in 1..(p - 1) :
          /\ IsStart(q[s]) /\ q[s].index = i
          /\ \A k \in (s + 1)..(p - 1) : ~IsStart(q[k])
    \/ /\ \A k \in 1..(p - 1) : ~IsStart(q[k])
       /\ r.writer.has => r.recvIndex = i

\* Every chunk and every digest meets the writer of its own file.
StreamOK(q, r) ==
    \A p \in 1..Len(q) : IsData(q[p]) => Owner(q, p, q[p].index, r)

HonestPacket(m) ==
    /\ m.type = "FileDataChunk" =>
          m.data = <<m.index, m.offset + 1>> /\ m.offset < SourceSize[m.index]
    /\ m.type = "FileEnd" => m.hash = Source(m.index)

\* A chunk carries the block of its file at its offset, a digest is that of
\* the whole source file.
PayloadOK(q) == \A p \in 1..Len(q) : HonestPacket(q[p])

\* What the sender reads now, the receiver has been told to expect.
AnnouncedOK(q, s, r) == s.reader.open => Owner(q, Len(q) + 1, s.cur, r)

\* The open reader is on the current file and has hashed what lies before its
\* offset.
ReadsCurrent(s) ==
    LET r == s.reader
    IN  r.open => /\ r.has /\ r.file = s.cur
                  /\ r.size = SourceSize[s.cur] /\ r.off <= r.size
                  /\ r.hashed = SubSeq(Source(s.cur), 1, r.off)

\* A session that streams, or that the button would let stream again, has its
\* reader open.
Opening == {"Idle", "Connecting", "Handshaking"}
MustRead(s) ==
    s.status = "Transferring" \/ (s.button /\ s.status \notin Opening) =>
        s.reader.open

ReaderOK(s) == ReadsCurrent(s) /\ MustRead(s)

\* Before the connection is up nothing has been read or answered.
Early == sock["send"] \in {"none", "connecting"}
EarlyOK ==
    /\ sender.status = "Idle" => Early
    /\ Early => /\ toSend = <<>>
                /\ ~sender.reader.open
                /\ sender.status \in {"Idle", "Connecting"}

\* Until the sender has the answer to its handshake, nothing else was said:
\* the receiver has no offer to decide on and no transfer to pause.
HandshakeFirst ==
    sender.status \in Opening =>
        /\ \A k \in 1..Len(toRecv) : toRecv[k].type = "HandshakeReq"
        /\ \A k \in 1..Len(toSend) :
              toSend[k].type \in {"HandshakeResp", "TransferCancel"}
        /\ receiver.status \in {"Idle", "Handshaking", "Offering", "Cancelled"}
        /\ ~receiver.asking

\* The last block of file i was still in the buffer when its writer w was closed,
\* and has not arrived in its content c.
TailLost(w, i, c) ==
    /\ ~w.open /\ "flush" \in Faults /\ i \in SmallTail
    /\ Len(c) < SourceSize[i] \/ c[SourceSize[i]] = Hole

\* The .partial file of the writer w of file i: every hashed block is where it
\* belongs, but for a lost tail, and nothing lies beyond the end of the source.
WriterOK(w, i, d) ==
    /\ w.open => w.partial \in DOMAIN d.partial
    /\ w.has /\ w.partial \in DOMAIN d.partial =>
          LET c == d.partial[w.partial]
          IN  /\ w.target = w.partial /\ w.partial[1] = RelPath[i]
              /\ Len(c) <= SourceSize[i]
              /\ \A j \in 1..Len(w.hashed) :
                    \/ \E k \in 1..Len(c) : w.hashed[j] = <<i, k>> /\ c[k] = <<i, k>>
                    \/ w.hashed[j] = <<i, SourceSize[i]>> /\ TailLost(w, i, c)
    /\ ~w.has => w.hashed = <<>>

HoldsCopies(d) ==
    \A n \in DOMAIN d.final :
        \E i \in Files : n[1] = RelPath[i] /\ d.final[n] \in Copies(i)

\* The inductive invariant: types, the sender's side, the queue between them
\* and the receiver's disk (TransferSession.cpp:84-187 and 387-450,
\* FileWriter.cpp:38-179).
SessionInv ==
    /\ TypeOK
    /\ EarlyOK
    /\ HandshakeFirst
    /\ ReaderOK(sender)
    /\ StreamOK(toRecv, receiver)
    /\ PayloadOK(toRecv)
    /\ Linked => AnnouncedOK(toRecv, sender, receiver)
    /\ WriterOK(receiver.writer, receiver.recvIndex, disk)
    /\ HoldsCopies(disk)
=============================================================================
