------------------------------ MODULE SendLoop ------------------------------
(***************************************************************************)
(* The chunk loop of a sending session and what keeps it going: each chunk *)
(* that leaves room in the socket's buffer queues one more call of         *)
(* sendNextChunk, and each bytesWritten of the socket makes one, pauses    *)
(* and restarts notwithstanding.  TransferSession has a single fair action *)
(* in their place; here it is implemented.  The connection works.          *)
(***************************************************************************)
EXTENDS TransferSession, FiniteSets

CONSTANTS
    MaxPending,     \* maxPending, in chunks
    Capacity        \* packets that the system and the receiver hold

VARIABLES
    pending,        \* packets in the buffer of the sender's socket: the last of toRecv
    calls           \* queued calls of sendNextChunk

loopVars == <<vars, pending, calls>>

ASSUME LoopAssumption ==
    /\ {MaxPending, Capacity} \subseteq Nat \ {0}
    /\ Faults = {} /\ Cancellers = {} /\ Policy # "Skip"

LoopInit == Init /\ pending = 0 /\ calls = 0

\* bytesToWrite, in chunks, when the last n packets wait in the buffer.
BytesToWrite(packets, n) ==
    Cardinality({k \in Len(packets) - n + 1 .. Len(packets) : packets[k].type = "FileDataChunk"})

HasRoom(packets, n) == BytesToWrite(packets, n) < MaxPending

\* What the step has appended to n waiting packets.
Waiting(n) == pending' = n + Len(toRecv') - Len(toRecv)
LastIs(types) ==
    Len(toRecv') > Len(toRecv) /\ toRecv'[Len(toRecv')].type \in types
Turn == LastIs({"FileDataChunk", "FileEnd"})

\* The end of sendNextChunk: after a chunk, with room for another.
Queued ==
    IF LastIs({"FileDataChunk"}) /\ HasRoom(toRecv', pending') THEN 1 ELSE 0

InLoop(s) == s.status = "Transferring" /\ ~s.waiting /\ s.reader.has

\* sendNextChunk with n packets in the buffer.
TakeTurn(n) ==
    /\ IF InLoop(sender) /\ HasRoom(toRecv, n) THEN ChunkLoop /\ Turn ELSE UNCHANGED vars
    /\ Waiting(n)

QueuedCall ==
    /\ calls > 0
    /\ TakeTurn(pending)
    /\ calls' = calls - 1 + Queued

\* Mutant of OnBytesTransferred: the loop is left to the queued calls.
OnBytesNotTransferred ==
    /\ \E k \in 1..pending :
          /\ Len(toRecv) - pending + k <= Capacity
          /\ pending' = pending - k
    /\ UNCHANGED <<vars, calls>>

\* The system takes some packets from the buffer.
OnBytesTransferred ==
    /\ \E k \in 1..pending :
          /\ Len(toRecv) - pending + k <= Capacity
          /\ TakeTurn(pending - k)
    /\ calls' = calls + Queued

\* A handler of the sender that may call sendNextChunk at its end.
Handler(A) ==
    /\ A
    /\ IF HasRoom(toRecv, pending) THEN InLoop(sender') => Turn ELSE ~Turn
    /\ Waiting(pending)
    /\ calls' = calls + Queued

SenderHandler == Handler(SenderStep)
Pause == Handler(PauseSender)
Resume == Handler(ResumeSender)

Connected == SocketConnected /\ Waiting(pending) /\ UNCHANGED calls

\* The receiver gets what has left the buffer.
ReceiverHandler == ReceiverStep /\ Len(toRecv) > pending /\ UNCHANGED <<pending, calls>>

Accept == UserAccepts /\ UNCHANGED <<pending, calls>>
Begin == StartSend /\ UNCHANGED <<pending, calls>>

LoopNext ==
    \/ QueuedCall \/ OnBytesTransferred
    \/ SenderHandler \/ Pause \/ Resume
    \/ Begin \/ Connected \/ ReceiverHandler \/ Accept

\* The event loops, the sockets and the patience of the users.
LoopFairness ==
    /\ WF_loopVars(QueuedCall) /\ WF_loopVars(OnBytesTransferred)
    /\ WF_loopVars(SenderHandler) /\ WF_loopVars(ReceiverHandler)
    /\ WF_loopVars(Begin) /\ WF_loopVars(Connected)
    /\ WF_loopVars(Accept) /\ WF_loopVars(Resume)

LoopSpec == LoopInit /\ [][LoopNext]_loopVars /\ LoopFairness

-----------------------------------------------------------------------------
(* Properties.                                                             *)

\* A loop that has chunks to send will be called again: by a call that is
\* queued, or by the socket, which has something to write
\* (TransferSession.cpp:143, 185, 541).
WakeUpComes == InLoop(sender) => calls > 0 \/ pending > 0

\* The two wake-ups give what TransferSession asks of its chunk loop, its
\* fairness included (TransferSession.cpp:135-187, 541-549).
ImplementsSession == FairSpec
=============================================================================
