-------------------------- MODULE TransferSession --------------------------
(***************************************************************************)
(* One transfer: the TransferSession object of the sending machine, the    *)
(* one of the receiving machine, the TCP connection between them and the   *)
(* receiving disk.  Both objects live on their machine's Qt event loop, so *)
(* a handler runs to its end before the next one; the two machines         *)
(* interleave.  An action is one packet handler, one click of a user, one  *)
(* socket event or one turn of the chunk loop, with every call it makes.   *)
(***************************************************************************)
EXTENDS FileStore, FiniteSets

CONSTANTS
    TotalSize,   \* the manifest's totalBytes, as FileEnumerator summed it
    Policy,      \* the receiver's DuplicatePolicy
    AutoAccept,  \* the receiver's auto-accept setting
    Controls,    \* the sides whose user presses Pause and Resume
    Cancellers,  \* the sides that may call cancel()
    Faults,      \* what the environment may do wrong, a subset of FaultKinds
    ByButton,    \* pause() and resume() are called by TransferPage's button only
    MaxPauses,   \* bound: presses of Pause
    Window       \* bound: messages in flight towards the receiver

Sides == {"send", "recv"}
FaultKinds == {"connect", "network", "source", "read",
               "diskfull", "partial", "write", "flush", "rename", "reject",
               "crash"}

ASSUME SessionAssumption ==
    /\ TotalSize \in Nat
    /\ Policy \in Policies
    /\ AutoAccept \in BOOLEAN
    /\ Controls \subseteq Sides
    /\ Cancellers \subseteq Sides
    /\ Faults \subseteq FaultKinds
    /\ ByButton \in BOOLEAN
    /\ MaxPauses \in Nat
    /\ Window \in Nat \ {0}

VARIABLES
    sender,    \* the sending session: status, current file, reader, metrics
    receiver,  \* the receiving session: status, writer, dialog, metrics
    toRecv,    \* packets on their way to the receiver, in order
    toSend,    \* packets on their way to the sender, in order
    sock,      \* each side's socket
    cut,       \* the cable is out: what is sent now is lost
    disk,      \* the session's folder on the receiving machine
    pauses     \* presses of Pause so far

vars == <<sender, receiver, toRecv, toSend, sock, cut, disk, pauses>>

Statuses == {"Idle", "Connecting", "Handshaking", "Offering",
             "WaitingApproval", "Transferring", "Paused",
             "Completed", "Failed", "Cancelled"}
Final == {"Completed", "Failed", "Cancelled"}
SockStates == {"none", "connecting", "open", "closed"}

\* Mutant of WithStatus: the metrics start again with every Transferring.
WithStatusAnew(s, st) ==
    [s EXCEPT !.status = st,
              !.button = \/ st = "Transferring"
                         \/ st \in {"Connecting", "Handshaking", "Paused"} /\ @,
              !.total = IF st = "Transferring" THEN 0 ELSE @]

\* setStatus, and what TransferPage makes of the new status: the button for
\* Pause and Resume comes on with Transferring, goes off with an offer or an
\* end, and is left alone by any other status, Paused included.
WithStatus(s, st) ==
    [s EXCEPT !.status = st,
              !.button = \/ st = "Transferring"
                         \/ st \in {"Connecting", "Handshaking", "Paused"} /\ @]

-----------------------------------------------------------------------------
(* Packets.  What a handler never reads is left out: names, versions, the  *)
(* totals.  FileStart carries the manifest entry's path and size, which    *)
(* the index stands for.                                                   *)

Signal(type) == [type |-> type]
Signals == {"HandshakeReq", "HandshakeResp", "TransferOffer",
            "TransferReject", "TransferPause", "TransferCancel",
            "TransferComplete"}

TransferAccept(i, off) == [type |-> "TransferAccept", index |-> i, offset |-> off]
TransferResume(i, off) == [type |-> "TransferResume", index |-> i, offset |-> off]
FileStart(i) == [type |-> "FileStart", index |-> i]
FileDataChunk(i, off, blk) ==
    [type |-> "FileDataChunk", index |-> i, offset |-> off, data |-> blk]
FileEnd(i, hash) == [type |-> "FileEnd", index |-> i, hash |-> hash]
FileAck(i, ok) == [type |-> "FileAck", index |-> i, ok |-> ok]

Message ==
    [type : Signals]
    \cup [type : {"TransferAccept", "TransferResume"}, index : Files, offset : Nat]
    \cup [type : {"FileStart"}, index : Files]
    \cup [type : {"FileDataChunk"}, index : Files, offset : Nat, data : Block]
    \cup [type : {"FileEnd"}, index : Files, hash : Seq(Block)]
    \cup [type : {"FileAck"}, index : Files, ok : BOOLEAN]

-----------------------------------------------------------------------------
(* The connection.  sendPacket writes when the own socket is connected;    *)
(* what is written arrives unless the peer has closed or the cable is out. *)

Linked == sock["send"] = "open" /\ sock["recv"] = "open" /\ ~cut

SendToReceiver(msgs) == toRecv' = IF Linked THEN toRecv \o msgs ELSE toRecv
SendToSender(msgs) == toSend' = IF Linked THEN toSend \o msgs ELSE toSend

Close(p) == sock' = [sock EXCEPT ![p] = "closed"]

\* disconnectFromHost inside a packet handler: nothing more is read from the
\* socket, but onReadyRead's loop goes on with the packets it has buffered.
CloseInHandler ==
    /\ Close("recv")
    /\ \E kept \in 0..(Len(toRecv) - 1) :
          /\ sock["recv"] = "closed" => kept = Len(toRecv) - 1
          /\ toRecv' = SubSeq(Tail(toRecv), 1, kept)

\* The handler that will run next on each side.
SenderGets(type) == toSend # <<>> /\ Head(toSend).type = type
ReceiverGets(type) ==
    /\ toRecv # <<>> /\ Head(toRecv).type = type
    /\ ~receiver.asking           \* the modal dialog runs inside a handler

\* The user of p can act: its session exists and no handler is at work.
AtUser(p) ==
    /\ p = "send" => sender.status # "Idle"
    /\ p = "recv" => /\ sock["recv"] # "none" /\ receiver.status # "Idle"
                     /\ ~receiver.asking
                     /\ sock["recv"] = "closed" => toRecv = <<>>

-----------------------------------------------------------------------------
NewReceiver ==
    [status |-> "Idle", button |-> TRUE, asking |-> FALSE, writer |-> NoWriter,
     recvIndex |-> 1, fileGot |-> 0, total |-> 0]

Init ==
    /\ sender = [status |-> "Idle", button |-> TRUE, cur |-> 1, waiting |-> FALSE,
                 reader |-> NoReader, fileSent |-> 0, total |-> 0]
    /\ receiver = NewReceiver
    /\ toRecv = <<>> /\ toSend = <<>>
    /\ sock = [p \in Sides |-> "none"]
    /\ cut = FALSE
    /\ disk = EmptyDisk
    /\ pauses = 0

-----------------------------------------------------------------------------
(* The sending session.  StartSendingFile and SendNextChunk end the        *)
(* handler that calls them: they take the session's state so far and the   *)
(* packets sent so far.                                                    *)

MaySend(s) ==
    /\ s.status = "Transferring" /\ ~s.waiting /\ s.reader.has
    /\ Len(toRecv) < Window

\* Why a turn of the chunk loop fails the session, having read s into r.
ChunkFails(s, r) ==
    \/ "read" \in Faults /\ r = s.reader
    \/ sock["send"] # "open" /\ r = ReadNextChunk(s.reader)

\* First case: the session has nothing to send, or the socket's buffer is full,
\* which it can be at any turn here; module SendLoop says when it is.
SendNextChunk(s, sent) ==
    \/ /\ sender' = s
       /\ SendToReceiver(sent)
    \/ /\ MaySend(s) /\ IsAtEnd(s.reader)
       /\ sender' = [s EXCEPT !.waiting = TRUE]
       /\ SendToReceiver(Append(sent, FileEnd(s.cur, s.reader.hashed)))
    \/ /\ MaySend(s) /\ ~IsAtEnd(s.reader) /\ sock["send"] = "open"
       /\ sender' = [s EXCEPT !.reader = ReadNextChunk(@),
                              !.fileSent = @ + 1, !.total = @ + 1]
       /\ SendToReceiver(Append(sent,
              FileDataChunk(s.cur, s.reader.off, NextBlock(s.reader))))
    \/ /\ MaySend(s) /\ ~IsAtEnd(s.reader)
       /\ \E r \in {s.reader, ReadNextChunk(s.reader)} :
             ChunkFails(s, r) /\ sender' = [WithStatus(s, "Failed") EXCEPT !.reader = r]
       /\ SendToReceiver(sent)

StartSendingFile(s, i, off) ==
    \/ /\ i > NumFiles
       /\ sender' = [WithStatus(s, "Completed") EXCEPT
                         !.total = TotalSize, !.fileSent = ManifestSize[s.cur]]
       /\ SendToReceiver(<<Signal("TransferComplete")>>)
    \/ /\ i <= NumFiles
       /\ SendNextChunk([s EXCEPT !.cur = i, !.fileSent = off, !.waiting = FALSE,
                                  !.reader = OpenReader(i, off)],
                        <<FileStart(i)>>)
    \/ /\ i <= NumFiles /\ "source" \in Faults
       /\ \E r \in OpenFailures(i, off) :
             sender' = [WithStatus(s, "Failed") EXCEPT
                            !.cur = i, !.fileSent = off, !.reader = r]
       /\ SendToReceiver(<<>>)

StartSend ==
    /\ sender.status = "Idle"
    /\ sender' = WithStatus(sender, "Connecting")
    /\ sock' = [sock EXCEPT !["send"] = "connecting"]
    /\ UNCHANGED <<receiver, toRecv, toSend, cut, disk, pauses>>

\* The sender's socket connects and the receiver's manager builds a session
\* for the new connection.
SocketConnected ==
    /\ sock["send"] = "connecting"
    /\ sock' = [p \in Sides |-> "open"]
    /\ sender' = WithStatus(sender, "Handshaking")
    /\ receiver' = WithStatus(receiver, "Handshaking")
    /\ toRecv' = <<Signal("HandshakeReq")>>
    /\ UNCHANGED <<toSend, cut, disk, pauses>>

ConnectFails ==
    /\ "connect" \in Faults
    /\ sock["send"] = "connecting"
    /\ Close("send")
    /\ sender' = WithStatus(sender, "Failed")
    /\ UNCHANGED <<receiver, toRecv, toSend, cut, disk, pauses>>

SenderHandles(type) ==
    /\ SenderGets(type)
    /\ toSend' = Tail(toSend)
    /\ UNCHANGED <<receiver, sock, cut, disk, pauses>>

OnHandshakeResp ==
    /\ SenderHandles("HandshakeResp")
    /\ sender' = WithStatus(sender, "WaitingApproval")
    /\ SendToReceiver(<<Signal("TransferOffer")>>)

OnTransferAccept ==
    /\ SenderHandles("TransferAccept")
    /\ StartSendingFile(WithStatus(sender, "Transferring"),
                        Head(toSend).index, Head(toSend).offset)

OnTransferReject ==
    /\ SenderHandles("TransferReject")
    /\ sender' = WithStatus(sender, "Cancelled")
    /\ UNCHANGED toRecv

\* Mutant of OnFileAck: its status code is not looked at.
OnAnyFileAck ==
    /\ SenderHandles("FileAck")
    /\ StartSendingFile([sender EXCEPT !.reader = CloseReader(@)], sender.cur + 1, 0)

\* The acknowledged index is not looked at.
OnFileAck ==
    /\ SenderHandles("FileAck")
    /\ \/ /\ Head(toSend).ok
          /\ StartSendingFile([sender EXCEPT !.reader = CloseReader(@)],
                              sender.cur + 1, 0)
       \/ /\ ~Head(toSend).ok
          /\ sender' = WithStatus(sender, "Failed")
          /\ UNCHANGED toRecv

OnSenderPause ==
    /\ SenderHandles("TransferPause")
    /\ sender' = WithStatus(sender, "Paused")
    /\ UNCHANGED toRecv

OnSenderResume ==
    /\ SenderHandles("TransferResume")
    /\ StartSendingFile(WithStatus(sender, "Transferring"),
                        Head(toSend).index, Head(toSend).offset)

OnSenderCancel ==
    /\ SenderHandles("TransferCancel")
    /\ sender' = [WithStatus(sender, "Cancelled") EXCEPT !.reader = CloseReader(@)]
    /\ UNCHANGED toRecv

\* The queued call of sendNextChunk, or the one bytesWritten makes.
ChunkLoop ==
    /\ MaySend(sender)
    /\ SendNextChunk(sender, <<>>)
    /\ UNCHANGED <<receiver, toSend, sock, cut, disk, pauses>>

-----------------------------------------------------------------------------
(* The receiving session.                                                  *)

ReceiverHandles(type) ==
    /\ ReceiverGets(type)
    /\ UNCHANGED <<sender, cut, pauses>>

ConsumeOnly == toRecv' = Tail(toRecv) /\ UNCHANGED sock

OnHandshakeReq ==
    /\ ReceiverHandles("HandshakeReq") /\ ConsumeOnly
    /\ receiver' = WithStatus(receiver, "Offering")
    /\ SendToSender(<<Signal("HandshakeResp")>>)
    /\ UNCHANGED disk

\* The answer always starts at the first file's first byte, and neither the
\* status nor the socket is looked at before the session is Transferring.
AcceptTransfer(r) ==
    /\ receiver' = [WithStatus(r, "Transferring") EXCEPT !.asking = FALSE]
    /\ SendToSender(<<TransferAccept(1, 0)>>)

OnTransferOffer ==
    /\ ReceiverHandles("TransferOffer") /\ ConsumeOnly
    /\ \/ /\ AutoAccept
          /\ AcceptTransfer(receiver)
       \/ /\ ~AutoAccept
          /\ receiver' = [WithStatus(receiver, "WaitingApproval")
                            EXCEPT !.asking = TRUE]
          /\ UNCHANGED toSend
    /\ UNCHANGED disk

UserAccepts ==
    /\ receiver.asking
    /\ AcceptTransfer(receiver)
    /\ UNCHANGED <<sender, toRecv, sock, cut, disk, pauses>>

\* Unread packets are dropped with the socket, buffered ones are still handled.
UserRejects ==
    /\ "reject" \in Faults
    /\ receiver.asking
    /\ receiver' = [WithStatus(receiver, "Cancelled") EXCEPT !.asking = FALSE]
    /\ SendToSender(<<Signal("TransferReject")>>)
    /\ Close("recv")
    /\ \E kept \in 0..Len(toRecv) :
          /\ sock["recv"] = "closed" => kept = Len(toRecv)
          /\ toRecv' = SubSeq(toRecv, 1, kept)
    /\ UNCHANGED <<sender, cut, disk, pauses>>

\* The disks that closing the writer w may leave.  flush() and close() may fail
\* to write what is in the buffer, and their results are not looked at.
Closed(d, w) == {d} \cup {e \in Unflushed(d, w) : "flush" \in Faults}

\* FileWriter::open has failed: it leaves the writer w and the disk d.
OpenFails(started, w, d) ==
    /\ receiver' = [WithStatus(started, "Failed") EXCEPT !.writer = w]
    /\ disk' = d
    /\ SendToSender(<<FileAck(started.recvIndex, FALSE)>>)
    /\ CloseInHandler

\* The last file's writer is destroyed, and closed with it, if it still is there.
OnFileStart ==
    /\ ReceiverHandles("FileStart")
    /\ \E d \in Closed(disk, receiver.writer) :
       LET i == Head(toRecv).index
           started == [receiver EXCEPT !.recvIndex = i, !.fileGot = 0]
           skipped == SkippedByPolicy(d, i, Policy)
       IN \/ /\ ~skipped
             /\ \E t \in Targets(d, i, Policy), c \in Preallocations(i) :
                   /\ receiver' = [started EXCEPT !.writer = OpenedWriter(t)]
                   /\ disk' = OpenedDisk(d, t, c)
             /\ ConsumeOnly
             /\ UNCHANGED toSend
          \/ /\ "diskfull" \in Faults /\ ManifestSize[i] > 0
             /\ OpenFails(started, NewWriter, d)
          \/ /\ skipped
             /\ OpenFails(started,
                          [NewWriter EXCEPT !.target = <<RelPath[i], 0>>], d)
          \/ /\ ~skipped /\ "partial" \in Faults
             /\ \E t \in Targets(d, i, Policy) :
                   OpenFails(started, CloseWriter(OpenedWriter(t)), Cleared(d, t))

\* The chunk's fileIndex is not looked at.  A write that only fills the buffer
\* does not fail.
OnFileDataChunk ==
    /\ ReceiverHandles("FileDataChunk")
    /\ UNCHANGED toSend
    /\ LET m == Head(toRecv)
           w == receiver.writer
       IN \/ /\ ~w.has
             /\ ConsumeOnly
             /\ UNCHANGED <<receiver, disk>>
          \/ /\ w.has /\ w.open
             /\ receiver' = [receiver EXCEPT !.writer.hashed = Append(@, m.data),
                                             !.fileGot = @ + 1, !.total = @ + 1]
             /\ disk' = WriteToDisk(disk, w, m.offset, m.data)
             /\ ConsumeOnly
          \/ /\ w.has
             /\ \/ ~w.open /\ UNCHANGED disk
                \/ /\ w.open /\ "write" \in Faults /\ ~Buffered(m.data)
                   /\ disk' \in {disk, WriteToDisk(disk, w, m.offset, m.data)}
             /\ receiver' = WithStatus(receiver, "Failed")
             /\ CloseInHandler

\* finalizeAndCommit, its result acknowledged; the status stays as it is.
OnFileEnd ==
    /\ ReceiverHandles("FileEnd") /\ ConsumeOnly
    /\ LET m == Head(toRecv)
           w == receiver.writer
           answer(ok) == /\ receiver' = [receiver EXCEPT !.writer = CloseWriter(@)]
                         /\ SendToSender(<<FileAck(m.index, ok)>>)
       IN \/ /\ ~w.has
             /\ UNCHANGED <<receiver, toSend, disk>>
          \/ /\ w.has /\ ~Verified(w, m.hash)
             /\ answer(FALSE)
             /\ disk' \in Closed(disk, w)
          \/ /\ w.has /\ Verified(w, m.hash) /\ Renamable(disk, w)
             /\ answer(TRUE)
             /\ \E d \in Closed(disk, w) : disk' = Committed(d, w)
          \/ /\ w.has /\ Verified(w, m.hash)
             /\ "rename" \in Faults \/ ~Renamable(disk, w)
             /\ answer(FALSE)
             /\ \E d \in Closed(disk, w) : disk' = HalfCommitted(d, w)

\* Packets that set the status, whatever it was.
OnReceiverPause ==
    /\ ReceiverHandles("TransferPause") /\ ConsumeOnly
    /\ receiver' = WithStatus(receiver, "Paused")
    /\ UNCHANGED <<toSend, disk>>

OnReceiverResume ==
    /\ ReceiverHandles("TransferResume") /\ ConsumeOnly
    /\ receiver' = WithStatus(receiver, "Transferring")
    /\ UNCHANGED <<toSend, disk>>

OnReceiverCancel ==
    /\ ReceiverHandles("TransferCancel") /\ ConsumeOnly
    /\ receiver' = [WithStatus(receiver, "Cancelled") EXCEPT !.writer = CloseWriter(@)]
    /\ disk' \in Closed(disk, receiver.writer)
    /\ UNCHANGED toSend

OnTransferComplete ==
    /\ ReceiverHandles("TransferComplete") /\ ConsumeOnly
    /\ receiver' = [WithStatus(receiver, "Completed") EXCEPT
                        !.total = TotalSize, !.fileGot = ManifestSize[receiver.recvIndex]]
    /\ UNCHANGED <<toSend, disk>>

\* What a handler for m may have done to the disk before it was at its end.
DiskInside(m) ==
    LET w == receiver.writer
    IN  CASE m.type = "FileStart" /\ ~SkippedByPolicy(disk, m.index, Policy) ->
               {Cleared(d, t) : d \in Closed(disk, w), t \in Targets(disk, m.index, Policy)}
               \cup {OpenedDisk(d, t, c) :
                        d \in Closed(disk, w), t \in Targets(disk, m.index, Policy),
                        c \in Preallocations(m.index)}
          [] m.type = "FileDataChunk" /\ w.has /\ w.open /\ ~Buffered(m.data) ->
               {WriteToDisk(disk, w, m.offset, m.data)}
          [] m.type = "FileEnd" /\ w.has /\ Verified(w, m.hash) /\ Renamable(disk, w) ->
               {HalfCommitted(d, w) : d \in Closed(disk, w)}
               \cup {Committed(d, w) : d \in Closed(disk, w)}
          [] OTHER -> {}

\* The receiving program dies, between two handlers or inside one, and what is
\* in the writer's buffer with it, unless it was flushed at that moment; started
\* again the program has no session.  The peer gets some first part of what it
\* sent.
ReceiverCrashes ==
    /\ "crash" \in Faults /\ sock["recv"] = "open"
    /\ \/ disk' \in {disk} \cup Unflushed(disk, receiver.writer)
       \/ /\ toRecv # <<>> /\ ~receiver.asking
          /\ disk' \in DiskInside(Head(toRecv))
    /\ receiver' = NewReceiver
    /\ Close("recv")
    /\ toRecv' = <<>>
    /\ \E k \in 0..Len(toSend) : toSend' = SubSeq(toSend, 1, k)
    /\ UNCHANGED <<sender, cut, pauses>>

-----------------------------------------------------------------------------
(* The users.                                                              *)

\* Mutant of PauseSender: whatever the status.
PauseSenderAnytime ==
    /\ AtUser("send") /\ "send" \in Controls /\ pauses < MaxPauses
    /\ pauses' = pauses + 1
    /\ sender' = WithStatus(sender, "Paused")
    /\ SendToReceiver(<<Signal("TransferPause")>>)
    /\ UNCHANGED <<receiver, toSend, sock, cut, disk>>

PauseSender ==
    /\ AtUser("send") /\ "send" \in Controls /\ pauses < MaxPauses
    /\ sender.status = "Transferring"
    /\ pauses' = pauses + 1
    /\ sender' = WithStatus(sender, "Paused")
    /\ SendToReceiver(<<Signal("TransferPause")>>)
    /\ UNCHANGED <<receiver, toSend, sock, cut, disk>>

PauseReceiver ==
    /\ AtUser("recv") /\ "recv" \in Controls /\ pauses < MaxPauses
    /\ receiver.status = "Transferring"
    /\ pauses' = pauses + 1
    /\ receiver' = WithStatus(receiver, "Paused")
    /\ SendToSender(<<Signal("TransferPause")>>)
    /\ UNCHANGED <<sender, toRecv, sock, cut, disk>>

\* Mutant of ResumeSender: the current file is started again.
ResumeSenderRestarts ==
    /\ AtUser("send") /\ "send" \in Controls
    /\ sender.status = "Paused" /\ (ByButton => sender.button)
    /\ StartSendingFile(WithStatus(sender, "Transferring"), sender.cur, 0)
    /\ UNCHANGED <<receiver, toSend, sock, cut, disk, pauses>>

\* The sender goes on where it was; the packet tells the receiver so.
ResumeSender ==
    /\ AtUser("send") /\ "send" \in Controls
    /\ sender.status = "Paused" /\ (ByButton => sender.button)
    /\ SendNextChunk(WithStatus(sender, "Transferring"),
                     <<TransferResume(sender.cur, sender.fileSent)>>)
    /\ UNCHANGED <<receiver, toSend, sock, cut, disk, pauses>>

\* m_currentFileIndex is the sending side's variable: on this side it still
\* has its initial value, the first file.
ResumeReceiver ==
    /\ AtUser("recv") /\ "recv" \in Controls
    /\ receiver.status = "Paused" /\ (ByButton => receiver.button)
    /\ receiver' = WithStatus(receiver, "Transferring")
    /\ SendToSender(<<TransferResume(1, receiver.fileGot)>>)
    /\ UNCHANGED <<sender, toRecv, sock, cut, disk, pauses>>

\* cancel() asks for no particular status: the button does, the manager
\* (a new transfer, shutdown) does not.
CancelSender ==
    /\ AtUser("send") /\ "send" \in Cancellers
    /\ sender' = [WithStatus(sender, "Cancelled") EXCEPT !.reader = CloseReader(@)]
    /\ SendToReceiver(<<Signal("TransferCancel")>>)
    /\ toSend' = <<>>
    /\ Close("send")
    /\ UNCHANGED <<receiver, cut, disk, pauses>>

CancelReceiver ==
    /\ AtUser("recv") /\ "recv" \in Cancellers
    /\ receiver' = [WithStatus(receiver, "Cancelled") EXCEPT !.writer = CloseWriter(@)]
    /\ SendToSender(<<Signal("TransferCancel")>>)
    /\ disk' \in Closed(disk, receiver.writer)
    /\ toRecv' = <<>>
    /\ Close("recv")
    /\ UNCHANGED <<sender, cut, pauses>>

-----------------------------------------------------------------------------
(* The network.                                                            *)

\* The cable is pulled: of what is under way to an open socket, some first
\* part has arrived and will be read.
CableCut ==
    /\ "network" \in Faults /\ ~cut
    /\ \E p \in Sides : sock[p] = "open"
    /\ cut' = TRUE
    /\ \E k \in 0..Len(toRecv) :
          /\ sock["recv"] # "open" => k = Len(toRecv)
          /\ toRecv' = SubSeq(toRecv, 1, k)
    /\ \E k \in 0..Len(toSend) : toSend' = SubSeq(toSend, 1, k)
    /\ UNCHANGED <<sender, receiver, sock, disk, pauses>>

\* Mutant of LossFails: the loss is not recorded at all.
LossIgnored(s) == s

\* A session that is Transferring fails; in any other status the loss of the
\* connection goes unrecorded.
LossFails(s) == IF s.status = "Transferring" THEN WithStatus(s, "Failed") ELSE s

\* Mutant of SenderLosesSocket: the peer's disconnecting is no event.
SenderLosesCable ==
    /\ sock["send"] = "open" /\ cut
    /\ toSend = <<>>
    /\ sender' = LossFails(sender)
    /\ Close("send")
    /\ UNCHANGED <<receiver, toRecv, toSend, cut, disk, pauses>>

SenderLosesSocket ==
    /\ sock["send"] = "open" /\ (cut \/ sock["recv"] = "closed")
    /\ toSend = <<>>
    /\ sender' = LossFails(sender)
    /\ Close("send")
    /\ UNCHANGED <<receiver, toRecv, toSend, cut, disk, pauses>>

\* While the dialog is open the loss is noticed at once, and only the packets
\* already taken from the socket will still be handled.
ReceiverLosesSocket ==
    /\ sock["recv"] = "open" /\ (cut \/ sock["send"] = "closed")
    /\ IF receiver.asking
       THEN \E k \in 0..Len(toRecv) : toRecv' = SubSeq(toRecv, 1, k)
       ELSE toRecv = <<>> /\ UNCHANGED toRecv
    /\ receiver' = LossFails(receiver)
    /\ Close("recv")
    /\ UNCHANGED <<sender, toSend, cut, disk, pauses>>

-----------------------------------------------------------------------------
SenderStep ==
    \/ OnHandshakeResp \/ OnTransferAccept \/ OnTransferReject
    \/ OnFileAck \/ OnSenderPause \/ OnSenderResume \/ OnSenderCancel

ReceiverStep ==
    \/ OnHandshakeReq \/ OnTransferOffer \/ OnFileStart \/ OnFileDataChunk
    \/ OnFileEnd \/ OnReceiverPause \/ OnReceiverResume \/ OnReceiverCancel
    \/ OnTransferComplete

UserStep ==
    \/ StartSend \/ UserAccepts \/ UserRejects
    \/ PauseSender \/ PauseReceiver \/ ResumeSender \/ ResumeReceiver
    \/ CancelSender \/ CancelReceiver

NetworkStep ==
    \/ SocketConnected \/ ConnectFails \/ CableCut
    \/ SenderLosesSocket \/ ReceiverLosesSocket \/ ReceiverCrashes

Next == SenderStep \/ ChunkLoop \/ ReceiverStep \/ UserStep \/ NetworkStep

Spec == Init /\ [][Next]_vars

\* Both event loops keep running their handlers, a socket's fate is reported,
\* and the users answer the dialog and end a pause they began.
Fairness ==
    /\ WF_vars(SenderStep) /\ WF_vars(ReceiverStep) /\ WF_vars(ChunkLoop)
    /\ WF_vars(SocketConnected)
    /\ WF_vars(SenderLosesSocket) /\ WF_vars(ReceiverLosesSocket)
    /\ WF_vars(StartSend) /\ WF_vars(UserAccepts) /\ WF_vars(ResumeSender)

FairSpec == Spec /\ Fairness

-----------------------------------------------------------------------------
(* Types.                                                                  *)

Reader == [has : BOOLEAN, open : BOOLEAN, file : Files, size : Nat,
           off : Nat, hashed : Seq(Block)]
Writer == [has : BOOLEAN, open : BOOLEAN, target : Name \cup {NoName},
           partial : Name \cup {NoName}, hashed : Seq(Block)]

Sender == [status : Statuses, button : BOOLEAN, cur : Files, waiting : BOOLEAN,
           reader : Reader, fileSent : Nat, total : Nat]
Receiver == [status : Statuses, button : BOOLEAN, asking : BOOLEAN,
             writer : Writer, recvIndex : Files, fileGot : Nat, total : Nat]

IsStore(f) ==
    /\ f = [n \in DOMAIN f |-> f[n]]
    /\ DOMAIN f \subseteq Name
    /\ \A n \in DOMAIN f : f[n] \in Seq(Block \cup {Hole})

\* Every variable keeps its type: statuses and socket states, packets of the
\* protocol in the queues, and files that are sequences of blocks and holes.
TypeOK ==
    /\ sender \in Sender
    /\ receiver \in Receiver
    /\ toRecv \in Seq(Message)
    /\ toSend \in Seq(Message)
    /\ sock \in [Sides -> SockStates]
    /\ cut \in BOOLEAN
    /\ disk = [final |-> disk.final, partial |-> disk.partial]
    /\ IsStore(disk.final) /\ IsStore(disk.partial)
    /\ pauses \in Nat

-----------------------------------------------------------------------------
(* Safety.                                                                 *)

Delivered(i) ==
    \E n \in DOMAIN disk.final : n[1] = RelPath[i] /\ disk.final[n] = Source(i)

\* What stands under its final name is, block for block, the source file of
\* that path: finalizeAndCommit (FileWriter.cpp:152-179) lets nothing else in,
\* as long as what it flushes arrives on the disk.
CommittedExact ==
    \A n \in DOMAIN disk.final :
        \E i \in Files : n[1] = RelPath[i] /\ disk.final[n] = Source(i)

\* What may stand under a final name for file i: its source, or what is left
\* of it when a flush() or close() that fails loses a small last block.
Copies(i) ==
    IF "flush" \in Faults /\ i \in SmallTail
    THEN {Source(i)} \cup Without(Source(i), SourceSize[i])
    ELSE {Source(i)}

\* Whatever fails, flush() and close() in finalizeAndCommit included
\* (FileWriter.cpp:153-156), nothing but a small last block can be missing from
\* a file that stands under its final name.
CommittedButTail ==
    \A n \in DOMAIN disk.final :
        \E i \in Files : n[1] = RelPath[i] /\ disk.final[n] \in Copies(i)

\* A session that shows "Completed", on either side, has put every file of the
\* manifest on the receiver's disk (startSendingFile's end, the handler of
\* TransferComplete), as long as the writers' last blocks arrive there.
CompletedMeansDelivered ==
    "Completed" \in {sender.status, receiver.status} =>
        \A i \in Files : Delivered(i)

\* Stop and wait: a good FileAck under way is for the file the sender has
\* ended and is waiting for, so moving on without a look at its index
\* (TransferSession.cpp:452-467) skips nothing.
AckIsForCurrentFile ==
    \A k \in 1..Len(toSend) :
        toSend[k].type = "FileAck" /\ toSend[k].ok =>
            sender.waiting /\ toSend[k].index = sender.cur

\* What the receiver writes is the current file from its first block on, in
\* order and without a gap, whatever pauses lie between.  (Once a write has
\* failed and the socket is closed, buffered chunks may leave a gap.)
WriterHoldsPrefix ==
    LET w == receiver.writer
    IN  w.open /\ sock["recv"] = "open" =>
            /\ w.partial \in DOMAIN disk.partial
            /\ w.hashed = SubSeq(Source(receiver.recvIndex), 1, Len(w.hashed))
            /\ \A k \in 1..Len(w.hashed) :
                  disk.partial[w.partial][k] = w.hashed[k]

\* As long as the link is whole both totals agree: what the sender has counted
\* the receiver has counted or will find in the queue.
ChunksInFlight ==
    Cardinality({k \in 1..Len(toRecv) : toRecv[k].type = "FileDataChunk"})
BytesConserved ==
    (Linked /\ {sender.status, receiver.status} \subseteq {"Transferring", "Paused"})
        => sender.total = receiver.total + ChunksInFlight

\* Not on disk yet: the block in QFile's buffer.
InBuffer(n, k) ==
    LET w == receiver.writer
    IN  HasBuffered(w) /\ n = w.partial /\ k = LastHashed(w)[2]

\* A block on disk is thrown away only by being committed: a .partial with
\* data in it stays until it is renamed to its final name, or grows.
PartialDataKept ==
    [][\A n \in DOMAIN disk.partial :
          \A k \in 1..Len(disk.partial[n]) :
              disk.partial[n][k] # Hole /\ ~InBuffer(n, k) =>
                  \/ /\ n \in DOMAIN disk'.partial
                     /\ k <= Len(disk'.partial[n])
                     /\ disk'.partial[n][k] = disk.partial[n][k]
                  \/ /\ n \in DOMAIN disk'.final
                     /\ k <= Len(disk'.final[n])
                     /\ disk'.final[n][k] = disk.partial[n][k]]_vars

\* What has been delivered is not touched again: no later file of the manifest,
\* restart or failing commit removes or overwrites a committed file (the
\* duplicate policy, FileWriter.cpp:67-77, against the removal before the
\* rename, FileWriter.cpp:168-172), as long as none has the name of another's
\* .partial file, which open() removes (FileWriter.cpp:109-111).
NeverReplaced ==
    [][\A n \in DOMAIN disk.final :
          n \in DOMAIN disk'.final /\ disk'.final[n] = disk.final[n]]_vars

\* A session that has ended stays as it ended.
EndsOnce ==
    [][/\ sender.status \in Final => sender'.status = sender.status
       /\ receiver.status \in Final => receiver'.status = receiver.status]_vars

-----------------------------------------------------------------------------
(* Liveness.                                                               *)

\* A transfer that is started ends on both sides with every file delivered.
TransferFinishes ==
    sender.status = "Connecting" ~>
        /\ sender.status = "Completed" /\ receiver.status = "Completed"
        /\ \A i \in Files : Delivered(i)

\* A connection that is lost is noticed: neither session goes on believing it
\* is transferring (onSocketDisconnected, TransferSession.cpp:527-532).
LossNoticed ==
    cut ~> (sender.status # "Transferring" /\ receiver.status # "Transferring")

\* When the receiving session fails in the middle of a stream, or dies with its
\* program, the sending one does not wait for ever for an answer that will not
\* come: it learns it from the FileAck or from the disconnection
\* (TransferSession.cpp:404-412, 426-430, 527-532).
FailureReachesSender ==
    (receiver.status \in {"Failed", "Idle"} /\ sender.status = "Transferring") ~>
        sender.status \in Final
=============================================================================
